------------------------ MODULE FilteredIndexProofs ------------------------
(***************************************************************************)
(* Proofs about LabelledIndex, for any number of slots, frozen points,     *)
(* tags and labels: each point keeps the labels it was given, each label   *)
(* keeps its frozen point, and what a save writes has both.                *)
(*                                                                         *)
(* Its loops of swaps are recursive functions.  That they are defined, and *)
(* what they have done after so many rounds, is proved by induction: a     *)
(* round where the claim fails has a least predecessor.                    *)
(*                                                                         *)
(* Proofs about FilteredIndex: both programs save what they were asked     *)
(* for, for every window, interval, range and batch size, every number of  *)
(* threads, and however the tasks and the batches are scheduled.           *)
(*                                                                         *)
(* The points present are those inserted that the deletions have not come  *)
(* to.  For the window that needs that the task launched last is never     *)
(* more than a batch behind, so that its range has been inserted when it   *)
(* deletes it and that the index is never full when a batch is inserted:   *)
(* what is counted is the points inserted, those deleted and those whose   *)
(* slots have come back.  For the range it needs that the eraser is        *)
(* launched when all it will delete is there.                              *)
(*                                                                         *)
(* The stitched index holds what was stitched: every list of a label's     *)
(* graph is in the lists of the points by the points' own numbers, and a   *)
(* walk of the one is followed in the other round by round.                *)
(***************************************************************************)
EXTENDS FilteredIndex, RankProofs

-----------------------------------------------------------------------------
(* Recursive functions.                                                    *)

\* The equation of the loop has a solution.
IsSwapping(f, rows, pairs, num) ==
    f = [n \in 0 .. num |-> IF n = 0 THEN rows ELSE Swapped(f[n - 1], pairs[n][1], pairs[n][2])]

LEMMA SwappingExists ==
    ASSUME NEW rows, NEW pairs, NEW num \in Nat
    PROVE  \E f : IsSwapping(f, rows, pairs, num)
<1> DEFINE Solves(f, m) ==
               f = [n \in 0 .. m |->
                      IF n = 0 THEN rows ELSE Swapped(f[n - 1], pairs[n][1], pairs[n][2])]
           Good == {m \in Nat : \E f : Solves(f, m)}
<1>1. 0 \in Good
  <2>1. Solves([n \in 0 .. 0 |-> rows], 0)
    OBVIOUS
  <2> QED
    BY <2>1
<1>2. ASSUME NEW m \in 1 .. num, m - 1 \in Good PROVE m \in Good
  <2>1. PICK f : Solves(f, m - 1)
    BY <1>2
  <2> DEFINE g == [n \in 0 .. m |->
                     IF n = m THEN Swapped(f[m - 1], pairs[m][1], pairs[m][2]) ELSE f[n]]
  <2>2. ASSUME NEW n \in 0 .. m
        PROVE  g[n] = IF n = 0 THEN rows ELSE Swapped(g[n - 1], pairs[n][1], pairs[n][2])
    <3>1. \A i \in 0 .. m - 1 :
             f[i] = IF i = 0 THEN rows ELSE Swapped(f[i - 1], pairs[i][1], pairs[i][2])
      BY <2>1
    <3>2. CASE n = m
      <4>1. m - 1 \in 0 .. m /\ m - 1 # m /\ m \in 0 .. m /\ m # 0
        OBVIOUS
      <4>2. g[m - 1] = f[m - 1] /\ g[m] = Swapped(f[m - 1], pairs[m][1], pairs[m][2])
        BY <4>1
      <4> QED
        BY <3>2, <4>1, <4>2
    <3>3. CASE n # m
      <4>1. n \in 0 .. m - 1 /\ g[n] = f[n]
        BY <3>3
      <4>2. n # 0 => n - 1 \in 0 .. m /\ n - 1 # m
        BY <4>1
      <4>3. n # 0 => g[n - 1] = f[n - 1]
        BY <4>2
      <4> QED
        BY <4>1, <4>3, <3>1
    <3> QED
      BY <3>2, <3>3
  <2>3. g = [n \in 0 .. m |-> g[n]]
    OBVIOUS
  <2> HIDE DEF g
  <2>4. Solves(g, m)
    BY <2>2, <2>3, Zenon
  <2> QED
    BY <2>4
<1>3. num \in Good
  <2> HIDE DEF Good
  <2>1. 0 .. num \subseteq Good
    BY <1>1, <1>2, Rounds
  <2> QED
    BY <2>1
<1> QED
  BY <1>3, Zenon DEF IsSwapping

\* What the rounds of a loop of swaps are: the rows, and from each round the next.
LEMMA SwappingRounds ==
    ASSUME NEW rows, NEW pairs, NEW num \in Nat
    PROVE  /\ Swapping(rows, pairs, num)[0] = rows
           /\ \A n \in 1 .. num :
                 Swapping(rows, pairs, num)[n] =
                     Swapped(Swapping(rows, pairs, num)[n - 1], pairs[n][1], pairs[n][2])
<1> DEFINE s == Swapping(rows, pairs, num)
<1>1. s = [n \in 0 .. num |->
             IF n = 0 THEN rows ELSE Swapped(s[n - 1], pairs[n][1], pairs[n][2])]
  <2>1. \E f : IsSwapping(f, rows, pairs, num)
    BY SwappingExists
  <2>2. s = CHOOSE f : IsSwapping(f, rows, pairs, num)
    BY DEF Swapping, IsSwapping
  <2> HIDE DEF s
  <2> QED
    BY <2>1, <2>2 DEF IsSwapping
<1> HIDE DEF s
<1>2. 0 \in 0 .. num /\ \A n \in 1 .. num : n \in 0 .. num /\ n # 0
  OBVIOUS
<1>3. s[0] = rows /\ \A n \in 1 .. num : s[n] = Swapped(s[n - 1], pairs[n][1], pairs[n][2])
  BY <1>1, <1>2
<1> QED
  BY <1>3 DEF s

-----------------------------------------------------------------------------
(* The loops of swaps of a save.                                           *)

\* What the assumptions say of the configuration at work.
LEMMA ConfigType ==
    ASSUME config \in Configs
    PROVE  /\ MaxPoints \in Nat \ {0} /\ NumFrozen \in Nat \ {0}
           /\ config.conc \in BOOLEAN /\ config.universal \in BOOLEAN
           /\ config.tags \subseteq Tags /\ config.offers \subseteq Offers
           /\ Rows = 0 .. MaxPoints + NumFrozen - 1
<1>1. /\ config.max_points \in Nat \ {0} /\ config.num_frozen \in Nat \ {0}
      /\ config.conc \in BOOLEAN /\ config.universal \in BOOLEAN
      /\ config.tags \subseteq Tags /\ config.offers \subseteq Offers
  BY LabelAssumption
<1> QED
  BY <1>1 DEF MaxPoints, NumFrozen, Rows, Slots, Frozen

\* A swap undone.
LEMMA SwappedBack ==
    ASSUME NEW rows, rows = [r \in Rows |-> rows[r]], NEW a \in Rows, NEW b \in Rows
    PROVE  Swapped(Swapped(rows, a, b), b, a) = rows
<1> DEFINE s == Swapped(rows, a, b)
<1>1. \A r \in Rows : s[r] = rows[IF r = a THEN b ELSE IF r = b THEN a ELSE r]
  BY DEF Swapped
<1>2. Swapped(s, b, a) = [r \in Rows |-> s[IF r = b THEN a ELSE IF r = a THEN b ELSE r]]
  BY DEF Swapped
<1>3. \A r \in Rows : s[IF r = b THEN a ELSE IF r = a THEN b ELSE r] = rows[r]
  BY <1>1
<1> HIDE DEF s
<1>4. Swapped(s, b, a) = [r \in Rows |-> rows[r]]
  BY <1>2, <1>3
<1> QED
  BY <1>4 DEF s

\* The rounds of the moves down and up.
LEMMA SwappingDown ==
    ASSUME NumFrozen \in Nat, NEW rows
    PROVE  LET s == Swapping(rows, DownPairs, NumFrozen)
           IN  /\ s[0] = rows
               /\ \A n \in 1 .. NumFrozen : s[n] = Swapped(s[n - 1], nd + n - 1, MaxPoints + n - 1)
<1>1. \A n \in 1 .. NumFrozen :
         DownPairs[n][1] = nd + n - 1 /\ DownPairs[n][2] = MaxPoints + n - 1
  BY DEF DownPairs
<1> QED
  BY <1>1, SwappingRounds

LEMMA SwappingUp ==
    ASSUME NumFrozen \in Nat, NEW rows
    PROVE  LET s == Swapping(rows, UpPairs, NumFrozen)
           IN  /\ s[0] = rows
               /\ \A n \in 1 .. NumFrozen :
                     s[n] = Swapped(s[n - 1], MaxPoints + NumFrozen - n, nd + NumFrozen - n)
<1>1. \A n \in 1 .. NumFrozen :
         UpPairs[n][1] = MaxPoints + NumFrozen - n /\ UpPairs[n][2] = nd + NumFrozen - n
  BY DEF UpPairs
<1> QED
  BY <1>1, SwappingRounds

\* After n rounds of the move down, n frozen rows are next to the points, the
\* others where they were, and the points' rows untouched.
LEMMA DownRounds ==
    ASSUME config \in Configs, nd \in Nat, nd < MaxPoints, NEW rows, NEW n \in 0 .. NumFrozen
    PROVE  LET s == Swapping(rows, DownPairs, NumFrozen)
           IN  /\ \A r \in 0 .. nd - 1 : s[n][r] = rows[r]
               /\ \A i \in 0 .. n - 1 : s[n][nd + i] = rows[MaxPoints + i]
               /\ \A i \in n .. NumFrozen - 1 : s[n][MaxPoints + i] = rows[MaxPoints + i]
<1> DEFINE s == Swapping(rows, DownPairs, NumFrozen)
           Moved(m) ==
               /\ \A r \in 0 .. nd - 1 : s[m][r] = rows[r]
               /\ \A i \in 0 .. m - 1 : s[m][nd + i] = rows[MaxPoints + i]
               /\ \A i \in m .. NumFrozen - 1 : s[m][MaxPoints + i] = rows[MaxPoints + i]
           Good == {m \in 0 .. NumFrozen : Moved(m)}
<1>1. MaxPoints \in Nat /\ NumFrozen \in Nat /\ Rows = 0 .. MaxPoints + NumFrozen - 1
  BY ConfigType
<1>2. /\ s[0] = rows
      /\ \A m \in 1 .. NumFrozen : s[m] = Swapped(s[m - 1], nd + m - 1, MaxPoints + m - 1)
  BY <1>1, SwappingDown
<1> HIDE DEF s
<1>3. 0 \in Good
  BY <1>1, <1>2
<1>4. ASSUME NEW m \in 1 .. NumFrozen, m - 1 \in Good PROVE m \in Good
  <2> DEFINE a == nd + m - 1
             b == MaxPoints + m - 1
  <2>1. a \in Rows /\ b \in Rows /\ a < b
    BY <1>1
  <2>2. \A r \in Rows : s[m][r] = s[m - 1][IF r = a THEN b ELSE IF r = b THEN a ELSE r]
    <3>1. s[m] = Swapped(s[m - 1], a, b)
      BY <1>2
    <3> HIDE DEF a, b
    <3> QED
      BY <3>1 DEF Swapped
  <2>3. /\ \A r \in 0 .. nd - 1 : s[m - 1][r] = rows[r]
        /\ \A i \in 0 .. m - 2 : s[m - 1][nd + i] = rows[MaxPoints + i]
        /\ \A i \in m - 1 .. NumFrozen - 1 : s[m - 1][MaxPoints + i] = rows[MaxPoints + i]
    BY <1>4
  <2>4. ASSUME NEW r \in 0 .. nd - 1 PROVE s[m][r] = rows[r]
    <3>1. r \in Rows /\ r # a /\ r # b
      BY <1>1
    <3> QED
      BY <2>2, <2>3, <3>1
  <2>5. ASSUME NEW i \in 0 .. m - 1 PROVE s[m][nd + i] = rows[MaxPoints + i]
    <3>1. CASE i = m - 1
      <4>1. nd + i = a /\ MaxPoints + i = b
        BY <3>1, <1>1
      <4>2. s[m][a] = s[m - 1][b]
        BY <2>1, <2>2
      <4>3. s[m - 1][MaxPoints + i] = rows[MaxPoints + i]
        BY <2>3, <3>1, <1>1
      <4> QED
        BY <4>1, <4>2, <4>3
    <3>2. CASE i # m - 1
      <4>1. i \in 0 .. m - 2 /\ nd + i \in Rows /\ nd + i # a /\ nd + i # b
        BY <3>2, <1>1
      <4> QED
        BY <2>2, <2>3, <4>1
    <3> QED
      BY <3>1, <3>2
  <2>6. ASSUME NEW i \in m .. NumFrozen - 1 PROVE s[m][MaxPoints + i] = rows[MaxPoints + i]
    <3>1. i \in m - 1 .. NumFrozen - 1 /\ MaxPoints + i \in Rows
          /\ MaxPoints + i # a /\ MaxPoints + i # b
      BY <1>1
    <3> QED
      BY <2>2, <2>3, <3>1
  <2> QED
    BY <2>4, <2>5, <2>6
<1>5. 0 .. NumFrozen \subseteq Good
  <2> HIDE DEF Good
  <2> QED
    BY <1>1, <1>3, <1>4, Rounds
<1>6. Moved(n)
  BY <1>5
<1> QED
  BY <1>6 DEF s

\* The move down: points stay, and the frozen rows follow them.
LEMMA MovedDownRows ==
    ASSUME config \in Configs, nd \in 0 .. MaxPoints, NEW rows
    PROVE  /\ \A r \in 0 .. nd - 1 : MovedDown(rows)[r] = rows[r]
           /\ \A i \in 0 .. NumFrozen - 1 : MovedDown(rows)[nd + i] = rows[MaxPoints + i]
<1>1. MaxPoints \in Nat /\ NumFrozen \in Nat
  BY ConfigType
<1>2. CASE nd = MaxPoints
  BY <1>2 DEF MovedDown
<1>3. CASE nd # MaxPoints
  <2>1. nd < MaxPoints /\ nd \in Nat /\ NumFrozen \in 0 .. NumFrozen
    BY <1>1, <1>3
  <2>2. MovedDown(rows) = Swapping(rows, DownPairs, NumFrozen)[NumFrozen]
    BY <1>3 DEF MovedDown, AfterSwaps
  <2> QED
    BY <2>1, <2>2, DownRounds
<1> QED
  BY <1>2, <1>3

\* The move up takes every round of the move down back, the last one first.
LEMMA MovedUpRestores ==
    ASSUME config \in Configs, nd \in 0 .. MaxPoints, NEW rows, rows = [r \in Rows |-> rows[r]]
    PROVE  MovedUp(MovedDown(rows)) = rows
<1>1. MaxPoints \in Nat /\ NumFrozen \in Nat /\ Rows = 0 .. MaxPoints + NumFrozen - 1
  BY ConfigType
<1>2. CASE nd = MaxPoints
  BY <1>2 DEF MovedDown, MovedUp
<1>3. CASE nd # MaxPoints
  <2> DEFINE d == Swapping(rows, DownPairs, NumFrozen)
             u == Swapping(d[NumFrozen], UpPairs, NumFrozen)
             Good == {n \in 0 .. NumFrozen : u[n] = d[NumFrozen - n]}
  <2>1. /\ d[0] = rows
        /\ \A n \in 1 .. NumFrozen : d[n] = Swapped(d[n - 1], nd + n - 1, MaxPoints + n - 1)
    BY <1>1, SwappingDown
  <2>2. /\ u[0] = d[NumFrozen]
        /\ \A n \in 1 .. NumFrozen :
              u[n] = Swapped(u[n - 1], MaxPoints + NumFrozen - n, nd + NumFrozen - n)
    <3> HIDE DEF d
    <3> QED
      BY <1>1, SwappingUp
  <2>3. MovedUp(MovedDown(rows)) = u[NumFrozen]
    BY <1>3 DEF MovedUp, MovedDown, AfterSwaps
  <2> HIDE DEF d, u
  <2>4. \A n \in 0 .. NumFrozen : d[n] = [r \in Rows |-> d[n][r]]
    <3>1. ASSUME NEW n \in 1 .. NumFrozen PROVE d[n] = [r \in Rows |-> d[n][r]]
      <4>1. d[n] = Swapped(d[n - 1], nd + n - 1, MaxPoints + n - 1)
        BY <2>1
      <4> QED
        BY <4>1 DEF Swapped
    <3>2. d[0] = [r \in Rows |-> d[0][r]]
      BY <2>1
    <3>3. \A n \in 0 .. NumFrozen : n = 0 \/ n \in 1 .. NumFrozen
      BY <1>1
    <3> QED
      BY <3>1, <3>2, <3>3, Zenon
  <2>5. 0 \in Good
    BY <1>1, <2>2
  <2>6. ASSUME NEW n \in 1 .. NumFrozen, n - 1 \in Good PROVE n \in Good
    <3> DEFINE k == NumFrozen - n
    <3>1. k \in 0 .. NumFrozen /\ k + 1 \in 1 .. NumFrozen /\ NumFrozen - (n - 1) = k + 1
          /\ nd + k \in Rows /\ MaxPoints + k \in Rows
      BY <1>1
    <3>2. d[k + 1] = Swapped(d[k], nd + k, MaxPoints + k)
      <4>1. (k + 1) - 1 = k /\ nd + (k + 1) - 1 = nd + k /\ MaxPoints + (k + 1) - 1 = MaxPoints + k
        BY <1>1
      <4> QED
        BY <2>1, <3>1, <4>1
    <3>3. u[n] = Swapped(u[n - 1], MaxPoints + k, nd + k)
      <4>1. MaxPoints + NumFrozen - n = MaxPoints + k /\ nd + NumFrozen - n = nd + k
        BY <1>1
      <4> QED
        BY <2>2, <4>1
    <3>4. u[n - 1] = d[k + 1]
      BY <2>6, <3>1
    <3>5. d[k] = [r \in Rows |-> d[k][r]]
      BY <2>4, <3>1
    <3> HIDE DEF k
    <3>6. u[n] = d[k]
      BY <3>1, <3>2, <3>3, <3>4, <3>5, SwappedBack
    <3> QED
      BY <3>6 DEF k
  <2>7. 0 .. NumFrozen \subseteq Good
    <3> HIDE DEF Good
    <3> QED
      BY <1>1, <2>5, <2>6, Rounds
  <2>8. u[NumFrozen] = d[0]
    BY <1>1, <2>7
  <2> QED
    BY <2>1, <2>3, <2>8
<1> QED
  BY <1>2, <1>3
\* The live locations as a set of numbers, and where compact_data puts them: in
\* the order they have, without gaps, and none of them up.
LEMMA LiveRanks ==
    ASSUME config \in Configs
    PROVE  /\ IsFiniteSet(Live) /\ Cardinality(Live) \in Nat /\ Live \subseteq Nat
           /\ \A k \in Live : NewLocation(k) \in 0 .. Cardinality(Live) - 1 /\ NewLocation(k) <= k
           /\ \A k, l \in Live : k < l => NewLocation(k) < NewLocation(l)
           /\ \A k, l \in Live : NewLocation(k) = NewLocation(l) => k = l
           /\ \A i \in 0 .. Cardinality(Live) - 1 : \E k \in Live : NewLocation(k) = i
<1>1. MaxPoints \in Nat
  BY ConfigType
<1>2. Live \in SUBSET (0 .. MaxPoints - 1)
  BY DEF Live, Slots
<1>3. IsFiniteSet(Live) /\ Cardinality(Live) \in Nat
  <2>1. IsFiniteSet(0 .. MaxPoints - 1)
    BY <1>1, FS_Interval
  <2>2. IsFiniteSet(Live)
    BY <1>2, <2>1, FS_Subset
  <2> QED
    BY <2>2, FS_CardinalityType
<1>4. Live \subseteq Nat
  BY <1>1, <1>2
<1>5. ASSUME NEW k \in Live
      PROVE  NewLocation(k) \in 0 .. Cardinality(Live) - 1 /\ NewLocation(k) <= k
  <2>1. Rank(k, Live) \in Nat
    BY <1>3, <1>4, RankType
  <2>2. Rank(k, Live) < Cardinality(Live)
    BY <1>3, <1>4, RankBelow
  <2>3. Rank(k, Live) <= k
    BY <1>3, <1>4, RankAtMost
  <2> QED
    BY <1>3, <2>1, <2>2, <2>3 DEF NewLocation
<1>6. ASSUME NEW k \in Live, NEW l \in Live, k < l PROVE NewLocation(k) < NewLocation(l)
  BY <1>3, <1>4, <1>6, RankLess DEF NewLocation
<1>7. ASSUME NEW k \in Live, NEW l \in Live, NewLocation(k) = NewLocation(l) PROVE k = l
  BY <1>3, <1>4, <1>7, RankInjective DEF NewLocation
<1>8. ASSUME NEW i \in 0 .. Cardinality(Live) - 1 PROVE \E k \in Live : NewLocation(k) = i
  BY <1>3, <1>4, RankOnto DEF NewLocation
<1> QED
  BY <1>3, <1>4, <1>5, <1>6, <1>7, <1>8

\* After n rounds of compact_data the points of the first n slots are where they
\* belong, and the rows from n on are as they were.
LEMMA CompactRounds ==
    ASSUME config \in Configs, NEW rows, NEW n \in 0 .. MaxPoints
    PROVE  LET s == Swapping(rows, CompactPairs, MaxPoints)
           IN  /\ \A k \in Live : k < n => s[n][NewLocation(k)] = rows[k]
               /\ \A r \in Rows : r >= n => s[n][r] = rows[r]
<1> DEFINE s == Swapping(rows, CompactPairs, MaxPoints)
           Moved(m) == /\ \A k \in Live : k < m => s[m][NewLocation(k)] = rows[k]
                       /\ \A r \in Rows : r >= m => s[m][r] = rows[r]
           Good == {m \in 0 .. MaxPoints : Moved(m)}
           Place(m) == IF m - 1 \in Live THEN NewLocation(m - 1) ELSE m - 1
<1>1. MaxPoints \in Nat /\ NumFrozen \in Nat /\ Rows = 0 .. MaxPoints + NumFrozen - 1
  BY ConfigType
<1>2. /\ s[0] = rows
      /\ \A m \in 1 .. MaxPoints : s[m] = Swapped(s[m - 1], Place(m), m - 1)
  <2>1. \A m \in 1 .. MaxPoints : CompactPairs[m][1] = Place(m) /\ CompactPairs[m][2] = m - 1
    BY DEF CompactPairs
  <2> HIDE DEF Place
  <2> QED
    BY <1>1, <2>1, SwappingRounds
<1> HIDE DEF s
<1>3. \A k \in Live : k \in Nat /\ k \in Rows
  BY <1>1 DEF Live, Slots
<1>4. 0 \in Good
  BY <1>1, <1>2, <1>3
<1>5. ASSUME NEW m \in 1 .. MaxPoints, m - 1 \in Good PROVE m \in Good
  <2>1. Place(m) \in 0 .. m - 1
    BY LiveRanks
  <2> DEFINE a == Place(m)
             b == m - 1
  <2>2. a \in Nat /\ a <= b /\ b \in Rows /\ a \in Rows
    BY <1>1, <2>1
  <2> HIDE DEF Place
  <2>3. \A r \in Rows : s[m][r] = s[m - 1][IF r = a THEN b ELSE IF r = b THEN a ELSE r]
    <3>1. s[m] = Swapped(s[m - 1], a, b)
      BY <1>2
    <3> HIDE DEF a, b
    <3> QED
      BY <3>1 DEF Swapped
  <2>4. /\ \A k \in Live : k < b => s[m - 1][NewLocation(k)] = rows[k]
        /\ \A r \in Rows : r >= b => s[m - 1][r] = rows[r]
    BY <1>5
  <2>5. ASSUME NEW k \in Live, k < m PROVE s[m][NewLocation(k)] = rows[k]
    <3>1. CASE k = b
      <4>1. a = NewLocation(k)
        BY <3>1 DEF Place
      <4>2. s[m][a] = s[m - 1][b] /\ s[m - 1][b] = rows[b]
        BY <2>2, <2>3, <2>4
      <4> QED
        BY <3>1, <4>1, <4>2
    <3>2. CASE k # b
      <4>1. k < b
        BY <1>3, <2>5, <3>2
      <4>2. NewLocation(k) # a
        <5>1. CASE b \in Live
          BY <4>1, <5>1, <2>2, LiveRanks DEF Place
        <5>2. CASE b \notin Live
          BY <4>1, <5>2, <2>2, LiveRanks DEF Place
        <5> QED
          BY <5>1, <5>2
      <4>3. NewLocation(k) # b /\ NewLocation(k) \in Rows
        BY <4>1, <1>1, <1>3, LiveRanks
      <4> QED
        BY <2>3, <2>4, <4>1, <4>2, <4>3
    <3> QED
      BY <3>1, <3>2
  <2>6. ASSUME NEW r \in Rows, r >= m PROVE s[m][r] = rows[r]
    <3>1. r # a /\ r # b /\ r >= b
      BY <1>1, <2>2, <2>6
    <3> QED
      BY <2>3, <2>4, <3>1
  <2> QED
    BY <2>5, <2>6
<1>6. 0 .. MaxPoints \subseteq Good
  <2> HIDE DEF Good
  <2> QED
    BY <1>1, <1>4, <1>5, Rounds
<1>7. Moved(n)
  BY <1>6
<1> QED
  BY <1>7 DEF s

\* compact_data as a whole: each point's list moves with it, and the frozen rows stay.
LEMMA CompactedRows ==
    ASSUME config \in Configs, nd \in Nat, Cardinality(Live) <= nd, NEW rows
    PROVE  /\ \A k \in Live : Compacted(rows)[NewLocation(k)] = rows[k]
           /\ \A i \in 0 .. NumFrozen - 1 : Compacted(rows)[MaxPoints + i] = rows[MaxPoints + i]
           /\ Compacted(rows) = [r \in Rows |-> Compacted(rows)[r]]
<1> DEFINE moved == AfterSwaps(rows, CompactPairs, MaxPoints)
<1>1. MaxPoints \in Nat /\ NumFrozen \in Nat /\ Rows = 0 .. MaxPoints + NumFrozen - 1
  BY ConfigType
<1>2. /\ \A k \in Live : k < MaxPoints => moved[NewLocation(k)] = rows[k]
      /\ \A r \in Rows : r >= MaxPoints => moved[r] = rows[r]
  <2>1. MaxPoints \in 0 .. MaxPoints
    BY <1>1
  <2> QED
    BY <2>1, CompactRounds DEF AfterSwaps
<1>3. Compacted(rows) = [r \in Rows |-> IF r \in nd .. MaxPoints - 1 THEN <<>> ELSE moved[r]]
  BY DEF Compacted
<1> HIDE DEF moved
<1>4. ASSUME NEW k \in Live PROVE Compacted(rows)[NewLocation(k)] = rows[k]
  <2>1. k \in Nat /\ k < MaxPoints /\ NewLocation(k) \in 0 .. Cardinality(Live) - 1
        /\ NewLocation(k) <= k /\ Cardinality(Live) \in Nat
    BY <1>1, LiveRanks DEF Live, Slots
  <2>2. NewLocation(k) \in Rows /\ NewLocation(k) \notin nd .. MaxPoints - 1
    BY <1>1, <2>1
  <2> QED
    BY <1>2, <1>3, <2>1, <2>2
<1>5. ASSUME NEW i \in 0 .. NumFrozen - 1
      PROVE  Compacted(rows)[MaxPoints + i] = rows[MaxPoints + i]
  <2>1. MaxPoints + i \in Rows /\ MaxPoints + i >= MaxPoints /\ MaxPoints + i \notin nd .. MaxPoints - 1
    BY <1>1
  <2> QED
    BY <1>2, <1>3, <2>1
<1> QED
  BY <1>3, <1>4, <1>5
-----------------------------------------------------------------------------
(* The inductive invariant.  The three properties that the runs check of a  *)
(* state lean on what the slots are: a slot is free, tagged, deleted, or    *)
(* reserved by an insertion that threw, and only the free ones are written. *)

LabelTypeOK ==
    /\ config \in Configs
    /\ location_to_tag \in [Slots -> Tags \cup {NoTag}]
    /\ empty_slots \subseteq Slots /\ delete_set \subseteq Slots
    /\ nd \in Nat /\ data_compacted \in BOOLEAN
    /\ location_to_labels = [r \in Rows |-> location_to_labels[r]]
    /\ IsFiniteSet(DOMAIN label_to_start_id) /\ DOMAIN label_to_start_id \subseteq AllLabels
    /\ frozen_pts_used \in 0 .. NumFrozen
    /\ given = [t \in Tags |-> given[t]]

SlotsApart ==
    /\ Live \cap empty_slots = {} /\ Live \cap delete_set = {} /\ delete_set \cap empty_slots = {}
    /\ nd + Cardinality(empty_slots) = MaxPoints
    /\ \A l, k \in Live : location_to_tag[l] = location_to_tag[k] => l = k

\* What a search without concurrent consolidation has found is not free, and has
\* the label.
FoundMatches ==
    search # None =>
        /\ search = [label |-> search.label, found |-> search.found]
        /\ search.found \subseteq Slots
        /\ ~config.conc => \A l \in search.found :
              l \notin empty_slots /\ Matches(location_to_labels[l], search.label)

\* The labels where they belong, without the saves that misplace them.
LabelsInPlace == \A l \in Live : location_to_labels[l] = given[location_to_tag[l]]
StartsInPlace ==
    /\ Cardinality(DOMAIN label_to_start_id) = frozen_pts_used
    /\ \A x \in DOMAIN label_to_start_id :
          /\ label_to_start_id[x] \in MaxPoints .. MaxPoints + frozen_pts_used - 1
          /\ location_to_labels[label_to_start_id[x]] = <<x>>

LabelInv ==
    LabelTypeOK /\ SlotsApart /\ LabelsInPlace /\ StartsInPlace /\ FoundMatches

\* A list of labels that may be offered.
IsOffer(offer) == offer \in Seq(AllLabels)

\* The points fit below nd.
LEMMA LiveBelow ==
    ASSUME LabelTypeOK, SlotsApart
    PROVE  nd \in 0 .. MaxPoints /\ Cardinality(Live) <= nd
<1>1. MaxPoints \in Nat
  BY ConfigType DEF LabelTypeOK
<1>2. IsFiniteSet(Slots) /\ Cardinality(Slots) = MaxPoints
  BY <1>1, FS_Interval DEF Slots
<1>3. IsFiniteSet(empty_slots) /\ Cardinality(empty_slots) \in Nat
      /\ Cardinality(empty_slots) <= MaxPoints
  <2>1. empty_slots \in SUBSET Slots
    BY DEF LabelTypeOK
  <2> QED
    BY <1>2, <2>1, FS_Subset, FS_CardinalityType
<1>4. IsFiniteSet(Slots \ empty_slots) /\ Cardinality(Slots \ empty_slots) = nd
  <2>1. Slots \cap empty_slots = empty_slots
    BY DEF LabelTypeOK
  <2>2. Cardinality(Slots \ empty_slots) = Cardinality(Slots) - Cardinality(Slots \cap empty_slots)
        /\ IsFiniteSet(Slots \ empty_slots)
    BY <1>2, FS_Difference
  <2>3. nd \in Nat /\ nd + Cardinality(empty_slots) = MaxPoints
    BY DEF LabelTypeOK, SlotsApart
  <2>4. Cardinality(Slots \ empty_slots) = MaxPoints - Cardinality(empty_slots)
    BY <1>2, <2>1, <2>2
  <2> QED
    BY <1>1, <1>3, <2>2, <2>3, <2>4
<1>5. Live \in SUBSET (Slots \ empty_slots)
  BY DEF Live, SlotsApart
<1>6. Cardinality(Live) <= nd
  BY <1>4, <1>5, FS_Subset
<1> QED
  BY <1>1, <1>3, <1>6 DEF LabelTypeOK, SlotsApart

-----------------------------------------------------------------------------
(* What an insertion writes.                                               *)

\* The labels an offer starts are numbers not started before, as many as there
\* are frozen points left at most, each with a frozen point of its own among those.
LEMMA StartedLabels ==
    ASSUME LabelTypeOK, NEW offer, IsOffer(offer)
    PROVE  /\ IsFiniteSet(Started(offer)) /\ Cardinality(Started(offer)) \in 0 .. Room
           /\ Started(offer) \subseteq AllLabels
           /\ Started(offer) \cap DOMAIN label_to_start_id = {}
           /\ \A x \in Started(offer) :
                 StartOf(x, offer) \in MaxPoints + frozen_pts_used ..
                                       MaxPoints + frozen_pts_used + Cardinality(Started(offer)) - 1
           /\ \A x, y \in Started(offer) : StartOf(x, offer) = StartOf(y, offer) => x = y
<1> DEFINE new == NewLabels(offer)
           f == [i \in 1 .. Len(offer) |-> offer[i]]
           T == {offer[i] : i \in 1 .. Len(offer)}
<1>1. MaxPoints \in Nat /\ NumFrozen \in Nat /\ frozen_pts_used \in Nat /\ Room \in Nat
  BY ConfigType DEF LabelTypeOK, Room
<1>2. Len(offer) \in Nat /\ \A i \in 1 .. Len(offer) : offer[i] \in AllLabels
  BY DEF IsOffer
<1>3. IsFiniteSet(T)
  <2>1. f \in Surjection(1 .. Len(offer), T)
    BY DEF Surjection
  <2>2. IsFiniteSet(1 .. Len(offer))
    BY <1>2, FS_Interval
  <2> QED
    BY <2>1, <2>2, FS_Surjection
<1>4. AllLabels \subseteq Nat
  BY LabelAssumption DEF AllLabels
<1>5. IsFiniteSet(new) /\ new \subseteq Nat /\ new \subseteq AllLabels
      /\ new \cap DOMAIN label_to_start_id = {}
  <2>1. new \in SUBSET T
    BY DEF NewLabels
  <2>2. T \subseteq AllLabels
    BY <1>2
  <2>3. IsFiniteSet(new)
    BY <1>3, <2>1, FS_Subset
  <2> QED
    BY <1>4, <2>1, <2>2, <2>3 DEF NewLabels
<1> HIDE DEF new
<1>6. Started(offer) = {x \in new : Rank(x, new) < Room}
  BY DEF Started, new
<1>7. IsFiniteSet(Started(offer)) /\ Cardinality(Started(offer)) \in Nat
  <2>1. Started(offer) \in SUBSET new
    BY <1>6
  <2> QED
    BY <1>5, <2>1, FS_Subset, FS_CardinalityType
<1>8. ASSUME NEW x \in Started(offer)
      PROVE  Rank(x, new) \in 0 .. Cardinality(Started(offer)) - 1 /\ Rank(x, new) < Room
  <2> DEFINE A == {z \in new : z < x}
  <2>1. x \in new /\ x \in Nat /\ Rank(x, new) \in Nat /\ Rank(x, new) < Room
    BY <1>5, <1>6, RankType
  <2>2. ASSUME NEW z \in A PROVE z \in Started(offer)
    <3>1. z \in new /\ z \in Nat /\ z < x /\ Rank(z, new) \in Nat
      BY <1>5, RankType
    <3>2. Rank(z, new) < Rank(x, new)
      BY <1>5, <2>1, <3>1, RankLess
    <3> QED
      BY <1>1, <1>6, <2>1, <3>1, <3>2
  <2>3. A \in SUBSET Started(offer) /\ x \notin A
    <3>1. ~(x < x)
      BY <2>1
    <3> QED
      BY <2>2, <3>1
  <2>4. Cardinality(A) <= Cardinality(Started(offer))
        /\ (Cardinality(Started(offer)) = Cardinality(A) => Started(offer) = A)
    BY <1>7, <2>3, FS_Subset
  <2>5. Rank(x, new) = Cardinality(A)
    BY DEF Rank
  <2>6. Cardinality(A) # Cardinality(Started(offer))
    BY <2>3, <2>4
  <2> QED
    BY <1>7, <2>1, <2>4, <2>5, <2>6
<1>9. ASSUME NEW x \in Started(offer), NEW y \in Started(offer), Rank(x, new) = Rank(y, new)
      PROVE  x = y
  BY <1>5, <1>6, <1>9, RankInjective
<1>10. Cardinality(Started(offer)) <= Room
  <2> DEFINE S == Started(offer)
             g == [x \in S |-> Rank(x, new)]
  <2>1. IsFiniteSet(0 .. Room - 1) /\ Cardinality(0 .. Room - 1) = Room
    BY <1>1, FS_Interval
  <2>2. g \in [S -> 0 .. Room - 1]
    BY <1>1, <1>7, <1>8
  <2>3. g \in Injection(S, 0 .. Room - 1)
    BY <2>2, <1>9 DEF Injection, IsInjective
  <2>4. Cardinality(S) <= Cardinality(0 .. Room - 1)
    BY <2>1, <2>3, FS_Injection
  <2> QED
    BY <2>1, <2>4
<1>11. \A x : StartOf(x, offer) = MaxPoints + frozen_pts_used + Rank(x, new)
  BY DEF StartOf, new
<1>12. ASSUME NEW x \in Started(offer)
       PROVE  StartOf(x, offer) \in MaxPoints + frozen_pts_used ..
                                    MaxPoints + frozen_pts_used + Cardinality(Started(offer)) - 1
  BY <1>1, <1>7, <1>8, <1>11
<1>13. ASSUME NEW x \in Started(offer), NEW y \in Started(offer),
              StartOf(x, offer) = StartOf(y, offer)
       PROVE  x = y
  <2>1. Rank(x, new) \in Nat /\ Rank(y, new) \in Nat
    BY <1>5, RankType
  <2> QED
    BY <1>1, <1>9, <1>11, <1>13, <2>1
<1>14. Started(offer) \subseteq AllLabels /\ Started(offer) \cap DOMAIN label_to_start_id = {}
  BY <1>5, <1>6
<1>15. Cardinality(Started(offer)) \in 0 .. Room
  BY <1>1, <1>7, <1>10
<1> QED
  BY <1>7, <1>12, <1>13, <1>14, <1>15
\* What WriteLabels changes: the row of the location, and rows of frozen points
\* that stood for no label; so each label still has a frozen point.
LEMMA WrittenLabels ==
    ASSUME LabelTypeOK, StartsInPlace, NEW offer, IsOffer(offer), NEW l \in Slots,
           WriteLabels(l, offer), config' = config
    PROVE  /\ location_to_labels' = [r \in Rows |-> location_to_labels'[r]]
           /\ location_to_labels'[l] = offer
           /\ \A r \in Slots \ {l} : location_to_labels'[r] = location_to_labels[r]
           /\ IsFiniteSet(DOMAIN label_to_start_id') /\ DOMAIN label_to_start_id' \subseteq AllLabels
           /\ frozen_pts_used' \in 0 .. NumFrozen
           /\ StartsInPlace'
<1> DEFINE new == Started(offer)
           frozen(x) == StartOf(x, offer)
           used == frozen_pts_used
           M == MaxPoints
<1>1. /\ M \in Nat /\ NumFrozen \in Nat /\ used \in 0 .. NumFrozen
      /\ Rows = 0 .. M + NumFrozen - 1 /\ Slots = 0 .. M - 1
  BY ConfigType DEF LabelTypeOK, Slots
<1>2. /\ IsFiniteSet(new) /\ Cardinality(new) \in 0 .. NumFrozen - used
      /\ new \subseteq AllLabels /\ new \cap DOMAIN label_to_start_id = {}
      /\ \A x \in new : frozen(x) \in M + used .. M + used + Cardinality(new) - 1
      /\ \A x, y \in new : frozen(x) = frozen(y) => x = y
  BY StartedLabels DEF Room
<1>3. /\ location_to_labels' =
             [r \in Rows |-> IF r = l THEN offer
                             ELSE IF \E x \in new : frozen(x) = r
                                  THEN <<CHOOSE x \in new : frozen(x) = r>>
                                  ELSE location_to_labels[r]]
      /\ label_to_start_id' =
             [x \in DOMAIN label_to_start_id \cup new |->
                 IF x \in DOMAIN label_to_start_id THEN label_to_start_id[x] ELSE frozen(x)]
      /\ frozen_pts_used' = used + Cardinality(new)
  BY Zenon DEF WriteLabels
<1>4. /\ IsFiniteSet(DOMAIN label_to_start_id) /\ DOMAIN label_to_start_id \subseteq AllLabels
      /\ Cardinality(DOMAIN label_to_start_id) = used
      /\ \A x \in DOMAIN label_to_start_id :
            /\ label_to_start_id[x] \in M .. M + used - 1
            /\ location_to_labels[label_to_start_id[x]] = <<x>>
  BY DEF LabelTypeOK, StartsInPlace
<1>5. MaxPoints' = M
  BY DEF MaxPoints
<1> HIDE DEF new, frozen, used, M
<1>6. location_to_labels' = [r \in Rows |-> location_to_labels'[r]]
  BY <1>3, Zenon
<1>7. l \in Rows /\ location_to_labels'[l] = offer
  BY <1>1, <1>3
<1>8. ASSUME NEW r \in Slots \ {l} PROVE location_to_labels'[r] = location_to_labels[r]
  <2>1. r \in Rows /\ r # l /\ \A x \in new : frozen(x) # r
    BY <1>1, <1>2
  <2> QED
    BY <1>3, <2>1
<1>9. DOMAIN label_to_start_id' = DOMAIN label_to_start_id \cup new
  BY <1>3
<1>10. IsFiniteSet(DOMAIN label_to_start_id') /\ DOMAIN label_to_start_id' \subseteq AllLabels
  <2> DEFINE D == DOMAIN label_to_start_id
  <2>1. IsFiniteSet(D) /\ D \subseteq AllLabels /\ DOMAIN label_to_start_id' = D \cup new
    BY <1>4, <1>9
  <2> HIDE DEF D
  <2>2. IsFiniteSet(D \cup new)
    BY <1>2, <2>1, FS_Union
  <2> QED
    BY <1>2, <2>1, <2>2
<1>11. frozen_pts_used' \in 0 .. NumFrozen
  BY <1>1, <1>2, <1>3
<1>12. Cardinality(DOMAIN label_to_start_id') = frozen_pts_used'
  <2> DEFINE D == DOMAIN label_to_start_id
  <2>1. IsFiniteSet(D) /\ Cardinality(D) = used /\ DOMAIN label_to_start_id' = D \cup new
        /\ D \cap new = {}
    BY <1>2, <1>4, <1>9
  <2> HIDE DEF D
  <2>2. Cardinality(D \cup new) = Cardinality(D) + Cardinality(new) - Cardinality(D \cap new)
    BY <1>2, <2>1, FS_Union
  <2>3. Cardinality(D \cap new) = 0
    BY <2>1, FS_EmptySet
  <2>4. used \in Int /\ Cardinality(new) \in Int
    BY <1>1, <1>2
  <2>5. Cardinality(D \cup new) = used + Cardinality(new)
    BY <2>1, <2>2, <2>3, <2>4
  <2>6. frozen_pts_used' = used + Cardinality(new)
    BY <1>3
  <2> QED
    BY <2>1, <2>5, <2>6
<1>13. ASSUME NEW x \in DOMAIN label_to_start_id'
       PROVE  /\ label_to_start_id'[x] \in M .. M + frozen_pts_used' - 1
              /\ location_to_labels'[label_to_start_id'[x]] = <<x>>
  <2>1. CASE x \in DOMAIN label_to_start_id
    <3> DEFINE r == label_to_start_id[x]
    <3>1. label_to_start_id'[x] = r /\ r \in M .. M + used - 1 /\ location_to_labels[r] = <<x>>
      BY <1>3, <1>4, <2>1
    <3> HIDE DEF r
    <3>2. r \in Rows /\ r # l /\ \A y \in new : frozen(y) # r
      BY <1>1, <1>2, <3>1
    <3>3. location_to_labels'[r] = location_to_labels[r]
      BY <1>3, <3>2
    <3>4. r \in M .. M + frozen_pts_used' - 1
      BY <1>1, <1>2, <1>3, <3>1
    <3> QED
      BY <3>1, <3>3, <3>4
  <2>2. CASE x \notin DOMAIN label_to_start_id
    <3>1. x \in new /\ label_to_start_id'[x] = frozen(x)
      BY <1>3, <1>9, <2>2
    <3>2. frozen(x) \in M + used .. M + used + Cardinality(new) - 1
      BY <1>2, <3>1
    <3>3. frozen(x) \in Rows /\ frozen(x) # l
      BY <1>1, <1>2, <3>2
    <3>4. (CHOOSE y \in new : frozen(y) = frozen(x)) = x
      BY <1>2, <3>1
    <3>5. location_to_labels'[frozen(x)] = <<x>>
      BY <1>3, <3>1, <3>3, <3>4
    <3>6. frozen(x) \in M .. M + frozen_pts_used' - 1
      BY <1>1, <1>2, <1>3, <3>2
    <3> QED
      BY <3>1, <3>5, <3>6
  <2> QED
    BY <2>1, <2>2
<1>14. StartsInPlace'
  BY <1>5, <1>12, <1>13 DEF StartsInPlace
<1> QED
  BY <1>6, <1>7, <1>8, <1>10, <1>11, <1>14

\* The sets that are functions of the configuration alone.
LEMMA SameConfig ==
    ASSUME config' = config
    PROVE  /\ MaxPoints' = MaxPoints /\ NumFrozen' = NumFrozen
           /\ Slots' = Slots /\ Frozen' = Frozen /\ Rows' = Rows
BY DEF MaxPoints, NumFrozen, Slots, Frozen, Rows

\* The conjuncts that an insertion leaves to its location: rows of other slots stay.
LEMMA FoundStays ==
    ASSUME LabelTypeOK, FoundMatches, UNCHANGED <<config, search>>, NEW l \in empty_slots,
           empty_slots' \subseteq empty_slots,
           \A r \in Slots \ {l} : location_to_labels'[r] = location_to_labels[r]
    PROVE  FoundMatches'
<1>1. Slots' = Slots /\ search' = search /\ config' = config
  BY SameConfig
<1>2. ASSUME search # None
      PROVE  /\ search = [label |-> search.label, found |-> search.found]
             /\ search.found \subseteq Slots
  BY <1>2 DEF FoundMatches
<1>3. ASSUME search # None, ~config.conc, NEW k \in search.found
      PROVE  k \notin empty_slots' /\ Matches(location_to_labels[k], search.label)'
  <2>1. k \notin empty_slots /\ Matches(location_to_labels[k], search.label) /\ k \in Slots
    BY <1>3 DEF FoundMatches
  <2>2. k # l /\ location_to_labels'[k] = location_to_labels[k]
    BY <2>1
  <2> QED
    BY <1>1, <2>1, <2>2 DEF Matches
<1> QED
  BY <1>1, <1>2, <1>3 DEF FoundMatches
-----------------------------------------------------------------------------
(* The operations keep the invariant.                                      *)

\* A free slot that is taken.
LEMMA SlotTaken ==
    ASSUME LabelTypeOK, SlotsApart, NEW l \in empty_slots
    PROVE  /\ l \in Slots /\ l \notin Live /\ l \notin delete_set
           /\ nd + 1 \in Nat /\ nd + 1 + Cardinality(empty_slots \ {l}) = MaxPoints
<1>1. IsFiniteSet(empty_slots)
  <2>1. MaxPoints \in Nat /\ empty_slots \in SUBSET (0 .. MaxPoints - 1)
    BY ConfigType DEF LabelTypeOK, Slots
  <2>2. IsFiniteSet(0 .. MaxPoints - 1)
    BY <2>1, FS_Interval
  <2> QED
    BY <2>1, <2>2, FS_Subset
<1>2. Cardinality(empty_slots \ {l}) = Cardinality(empty_slots) - 1 /\ Cardinality(empty_slots) \in Nat
  BY <1>1, FS_RemoveElement, FS_CardinalityType
<1>3. nd \in Nat /\ nd + Cardinality(empty_slots) = MaxPoints
  BY DEF LabelTypeOK, SlotsApart
<1>4. nd + 1 \in Nat /\ nd + 1 + Cardinality(empty_slots \ {l}) = MaxPoints
  BY <1>2, <1>3
<1> QED
  BY <1>4 DEF LabelTypeOK, SlotsApart

LEMMA InsertPointKeeps ==
    ASSUME LabelInv, NEW t \in Tags, NEW offer, IsOffer(offer), InsertPoint(t, offer)
    PROVE  LabelInv'
<1> USE DEF LabelInv
<1>1. PICK l \in empty_slots :
         /\ WriteLabels(l, offer)
         /\ location_to_tag' = [location_to_tag EXCEPT ![l] = t]
         /\ empty_slots' = empty_slots \ {l}
  BY DEF InsertPoint
<1>2. /\ nd' = nd + 1 /\ given' = [given EXCEPT ![t] = offer] /\ t \notin Present
      /\ config' = config /\ delete_set' = delete_set /\ data_compacted' = data_compacted
      /\ search' = search
  BY DEF InsertPoint, readerVars
<1>3. /\ l \in Slots /\ l \notin Live /\ l \notin delete_set
      /\ nd + 1 \in Nat /\ nd + 1 + Cardinality(empty_slots \ {l}) = MaxPoints
  BY SlotTaken
<1>4. /\ location_to_labels' = [r \in Rows |-> location_to_labels'[r]]
      /\ location_to_labels'[l] = offer
      /\ \A r \in Slots \ {l} : location_to_labels'[r] = location_to_labels[r]
      /\ IsFiniteSet(DOMAIN label_to_start_id') /\ DOMAIN label_to_start_id' \subseteq AllLabels
      /\ frozen_pts_used' \in 0 .. NumFrozen
      /\ StartsInPlace'
  BY <1>1, <1>2, <1>3, WrittenLabels
<1>5. MaxPoints' = MaxPoints /\ NumFrozen' = NumFrozen /\ Slots' = Slots /\ Rows' = Rows
  BY <1>2, SameConfig
<1>6. t # NoTag /\ location_to_tag \in [Slots -> Tags \cup {NoTag}]
  BY NoTagAssumption DEF LabelTypeOK
<1>7. LabelTypeOK'
  BY <1>1, <1>2, <1>3, <1>4, <1>5, <1>6 DEF LabelTypeOK
<1>8. /\ Live' = Live \cup {l}
      /\ location_to_tag'[l] = t
      /\ \A k \in Live : k # l /\ location_to_tag'[k] = location_to_tag[k] /\ location_to_tag[k] # t
  <2>1. \A k \in Slots : location_to_tag'[k] = IF k = l THEN t ELSE location_to_tag[k]
    BY <1>1, <1>6
  <2>2. \A k \in Live : location_to_tag[k] # t
    BY <1>2 DEF Present
  <2> QED
    BY <1>3, <1>5, <1>6, <2>1, <2>2 DEF Live
<1>9. SlotsApart'
  <2>1. /\ Live \cap empty_slots = {} /\ Live \cap delete_set = {} /\ delete_set \cap empty_slots = {}
        /\ \A i, k \in Live : location_to_tag[i] = location_to_tag[k] => i = k
    BY DEF SlotsApart
  <2>2. nd' + Cardinality(empty_slots') = MaxPoints'
    BY <1>1, <1>2, <1>3, <1>5
  <2>3. Live' \cap empty_slots' = {} /\ Live' \cap delete_set' = {} /\ delete_set' \cap empty_slots' = {}
    BY <1>1, <1>2, <1>3, <1>8, <2>1
  <2>4. \A i, k \in Live' : location_to_tag'[i] = location_to_tag'[k] => i = k
    BY <1>8, <2>1
  <2> QED
    BY <2>2, <2>3, <2>4 DEF SlotsApart
<1>10. LabelsInPlace'
  <2>1. given'[t] = offer /\ \A u \in Tags \ {t} : given'[u] = given[u]
    BY <1>2 DEF LabelTypeOK
  <2>2. ASSUME NEW k \in Live' PROVE location_to_labels'[k] = given'[location_to_tag'[k]]
    <3>1. CASE k = l
      BY <1>4, <1>8, <2>1, <3>1
    <3>2. CASE k # l
      <4>1. k \in Live /\ k \in Slots \ {l} /\ location_to_tag[k] \in Tags \ {t}
        BY <1>6, <1>8, <3>2 DEF Live
      <4>2. location_to_labels[k] = given[location_to_tag[k]]
        BY <4>1 DEF LabelsInPlace
      <4> QED
        BY <1>4, <1>8, <2>1, <4>1, <4>2
    <3> QED
      BY <3>1, <3>2
  <2> QED
    BY <2>2 DEF LabelsInPlace
<1>11. FoundMatches'
  BY <1>1, <1>2, <1>4, FoundStays
<1> QED
  BY <1>4, <1>7, <1>9, <1>10, <1>11

\* The labels that a refused insertion leaves at a free slot are nobody's.
LEMMA InsertDuplicateKeeps ==
    ASSUME LabelInv, NEW t \in Tags, NEW offer, IsOffer(offer), InsertDuplicate(t, offer)
    PROVE  LabelInv'
<1> USE DEF LabelInv
<1>1. PICK l \in empty_slots : WriteLabels(l, offer)
  BY DEF InsertDuplicate
<1>2. UNCHANGED <<config, location_to_tag, empty_slots, nd, delete_set, data_compacted, given, search>>
  BY DEF InsertDuplicate, slotVars, readerVars
<1>3. l \in Slots /\ l \notin Live
  BY SlotTaken
<1>4. /\ location_to_labels' = [r \in Rows |-> location_to_labels'[r]]
      /\ \A r \in Slots \ {l} : location_to_labels'[r] = location_to_labels[r]
      /\ IsFiniteSet(DOMAIN label_to_start_id') /\ DOMAIN label_to_start_id' \subseteq AllLabels
      /\ frozen_pts_used' \in 0 .. NumFrozen
      /\ StartsInPlace'
  BY <1>1, <1>2, <1>3, WrittenLabels
<1>5. /\ MaxPoints' = MaxPoints /\ NumFrozen' = NumFrozen /\ Slots' = Slots /\ Rows' = Rows
      /\ Live' = Live
  BY <1>2, SameConfig DEF Live
<1>6. LabelTypeOK'
  BY <1>2, <1>4, <1>5 DEF LabelTypeOK
<1>7. SlotsApart'
  BY <1>2, <1>5 DEF SlotsApart
<1>8. LabelsInPlace'
  <2>1. \A k \in Live : k \in Slots \ {l}
    BY <1>3 DEF Live
  <2> QED
    BY <1>2, <1>4, <1>5, <2>1 DEF LabelsInPlace
<1>9. FoundMatches'
  BY <1>1, <1>2, <1>4, FoundStays
<1> QED
  BY <1>4, <1>6, <1>7, <1>8, <1>9

LEMMA InsertThrowKeeps ==
    ASSUME LabelInv, NEW t \in Tags, NEW offer, IsOffer(offer), InsertThrow(t, offer)
    PROVE  LabelInv'
<1> USE DEF LabelInv
<1>1. PICK l \in empty_slots : WriteLabels(l, offer) /\ empty_slots' = empty_slots \ {l}
  BY DEF InsertThrow
<1>2. /\ nd' = nd + 1
      /\ UNCHANGED <<config, location_to_tag, delete_set, data_compacted, given, search>>
  BY DEF InsertThrow, readerVars
<1>3. /\ l \in Slots /\ l \notin Live
      /\ nd + 1 \in Nat /\ nd + 1 + Cardinality(empty_slots \ {l}) = MaxPoints
  BY SlotTaken
<1>4. /\ location_to_labels' = [r \in Rows |-> location_to_labels'[r]]
      /\ \A r \in Slots \ {l} : location_to_labels'[r] = location_to_labels[r]
      /\ IsFiniteSet(DOMAIN label_to_start_id') /\ DOMAIN label_to_start_id' \subseteq AllLabels
      /\ frozen_pts_used' \in 0 .. NumFrozen
      /\ StartsInPlace'
  BY <1>1, <1>2, <1>3, WrittenLabels
<1>5. /\ MaxPoints' = MaxPoints /\ NumFrozen' = NumFrozen /\ Slots' = Slots /\ Rows' = Rows
      /\ Live' = Live
  BY <1>2, SameConfig DEF Live
<1>6. LabelTypeOK'
  BY <1>1, <1>2, <1>3, <1>4, <1>5 DEF LabelTypeOK
<1>7. SlotsApart'
  <2>1. nd' + Cardinality(empty_slots') = MaxPoints'
    BY <1>1, <1>2, <1>3, <1>5
  <2> QED
    BY <1>1, <1>2, <1>5, <2>1 DEF SlotsApart
<1>8. LabelsInPlace'
  <2>1. \A k \in Live : k \in Slots \ {l}
    BY <1>3 DEF Live
  <2> QED
    BY <1>2, <1>4, <1>5, <2>1 DEF LabelsInPlace
<1>9. FoundMatches'
  BY <1>1, <1>2, <1>4, FoundStays
<1> QED
  BY <1>4, <1>6, <1>7, <1>8, <1>9
\* A deleted point is in the delete set, not free: a search keeps its labels.
LEMMA LazyDeleteKeeps ==
    ASSUME LabelInv, NEW t \in Tags, LazyDelete(t)
    PROVE  LabelInv'
<1> USE DEF LabelInv
<1>1. PICK l \in Live :
         /\ delete_set' = delete_set \cup {l}
         /\ location_to_tag' = [location_to_tag EXCEPT ![l] = NoTag]
  BY DEF LazyDelete
<1>2. /\ data_compacted' = FALSE
      /\ UNCHANGED <<config, empty_slots, nd, location_to_labels, label_to_start_id,
                     frozen_pts_used, given, search>>
  BY DEF LazyDelete, labelVars, readerVars
<1>3. MaxPoints' = MaxPoints /\ NumFrozen' = NumFrozen /\ Slots' = Slots /\ Rows' = Rows
  BY <1>2, SameConfig
<1>4. location_to_tag \in [Slots -> Tags \cup {NoTag}] /\ l \in Slots
  BY DEF LabelTypeOK, Live
<1>5. LabelTypeOK'
  BY <1>1, <1>2, <1>3, <1>4 DEF LabelTypeOK
<1>6. \A k \in Slots : location_to_tag'[k] = IF k = l THEN NoTag ELSE location_to_tag[k]
  BY <1>1, <1>4
<1>7. Live' = Live \ {l} /\ \A k \in Live' : location_to_tag'[k] = location_to_tag[k]
  BY <1>3, <1>6 DEF Live
<1>8. SlotsApart'
  <2>1. /\ Live \cap empty_slots = {} /\ Live \cap delete_set = {} /\ delete_set \cap empty_slots = {}
        /\ \A i, k \in Live : location_to_tag[i] = location_to_tag[k] => i = k
        /\ nd + Cardinality(empty_slots) = MaxPoints
    BY DEF SlotsApart
  <2>2. Live' \cap empty_slots' = {} /\ Live' \cap delete_set' = {} /\ delete_set' \cap empty_slots' = {}
    BY <1>1, <1>2, <1>7, <2>1
  <2>3. \A i, k \in Live' : location_to_tag'[i] = location_to_tag'[k] => i = k
    BY <1>7, <2>1
  <2> QED
    BY <1>2, <1>3, <2>1, <2>2, <2>3 DEF SlotsApart
<1>9. LabelsInPlace'
  BY <1>2, <1>7 DEF LabelsInPlace
<1>10. StartsInPlace'
  BY <1>2, <1>3 DEF StartsInPlace
<1>11. FoundMatches'
  BY <1>2, <1>3 DEF FoundMatches, Matches
<1> QED
  BY <1>5, <1>8, <1>9, <1>10, <1>11

LEMMA DeleteAbsentKeeps ==
    ASSUME LabelInv, NEW t, DeleteAbsent(t)
    PROVE  LabelInv'
<1> USE DEF LabelInv
<1>1. /\ data_compacted' = FALSE
      /\ UNCHANGED <<config, location_to_tag, empty_slots, nd, delete_set, location_to_labels,
                     label_to_start_id, frozen_pts_used, given, search>>
  BY DEF DeleteAbsent, labelVars, readerVars
<1>2. /\ MaxPoints' = MaxPoints /\ NumFrozen' = NumFrozen /\ Slots' = Slots /\ Rows' = Rows
      /\ Live' = Live
  BY <1>1, SameConfig DEF Live
<1>3. LabelTypeOK' /\ SlotsApart'
  BY <1>1, <1>2 DEF LabelTypeOK, SlotsApart
<1>4. LabelsInPlace' /\ StartsInPlace'
  BY <1>1, <1>2 DEF LabelsInPlace, StartsInPlace
<1>5. FoundMatches'
  BY <1>1, <1>2 DEF FoundMatches, Matches
<1> QED
  BY <1>3, <1>4, <1>5

\* The slots that become free are those of deleted points; without concurrent
\* consolidation no search is there to have found one.
LEMMA ConsolidateKeeps ==
    ASSUME LabelInv, Consolidate
    PROVE  LabelInv'
<1> USE DEF LabelInv
<1>1. /\ CountsAgree /\ (~config.conc => search = None)
      /\ empty_slots' = empty_slots \cup delete_set
      /\ nd' = nd - Cardinality(delete_set) /\ delete_set' = {}
      /\ UNCHANGED <<config, location_to_tag, data_compacted, location_to_labels,
                     label_to_start_id, frozen_pts_used, given, search>>
  BY DEF Consolidate, labelVars, readerVars
<1>2. /\ MaxPoints' = MaxPoints /\ NumFrozen' = NumFrozen /\ Slots' = Slots /\ Rows' = Rows
      /\ Live' = Live
  BY <1>1, SameConfig DEF Live
<1>3. /\ empty_slots \subseteq Slots /\ delete_set \subseteq Slots /\ nd \in Nat
      /\ Live \cap empty_slots = {} /\ Live \cap delete_set = {} /\ delete_set \cap empty_slots = {}
      /\ nd + Cardinality(empty_slots) = MaxPoints
  BY DEF LabelTypeOK, SlotsApart
<1>4. IsFiniteSet(empty_slots) /\ IsFiniteSet(delete_set)
  <2>1. MaxPoints \in Nat
    BY ConfigType DEF LabelTypeOK
  <2>2. IsFiniteSet(Slots)
    BY <2>1, FS_Interval DEF Slots
  <2> QED
    BY <1>3, <2>2, FS_Subset
<1>5. Cardinality(empty_slots) \in Nat /\ Cardinality(delete_set) \in Nat
      /\ Cardinality(Live) \in Nat
  BY <1>4, LiveRanks, FS_CardinalityType DEF LabelTypeOK
<1>6. Cardinality(empty_slots \cup delete_set) = Cardinality(empty_slots) + Cardinality(delete_set)
  <2>1. Cardinality(empty_slots \cup delete_set) =
           Cardinality(empty_slots) + Cardinality(delete_set) - Cardinality(empty_slots \cap delete_set)
    BY <1>4, FS_Union
  <2>2. Cardinality(empty_slots \cap delete_set) = 0
    BY <1>3, FS_EmptySet
  <2> QED
    BY <1>5, <2>1, <2>2
<1>7. nd' \in Nat /\ nd' + Cardinality(empty_slots') = MaxPoints'
  <2>1. nd - Cardinality(delete_set) = Cardinality(Live)
    BY <1>1, <1>3, <1>5 DEF CountsAgree
  <2>2. Cardinality(empty_slots') = Cardinality(empty_slots) + Cardinality(delete_set)
    BY <1>1, <1>6
  <2>3. nd' = nd - Cardinality(delete_set)
    BY <1>1
  <2> QED
    BY <1>2, <1>3, <1>5, <2>1, <2>2, <2>3
<1>8. LabelTypeOK'
  BY <1>1, <1>2, <1>3, <1>7 DEF LabelTypeOK
<1>9. SlotsApart'
  BY <1>1, <1>2, <1>3, <1>7 DEF SlotsApart
<1>10. LabelsInPlace' /\ StartsInPlace'
  BY <1>1, <1>2 DEF LabelsInPlace, StartsInPlace
<1>11. FoundMatches'
  <2>1. CASE config.conc
    BY <1>1, <1>2, <2>1 DEF FoundMatches
  <2>2. CASE ~config.conc
    BY <1>1, <2>2 DEF FoundMatches
  <2> QED
    BY <2>1, <2>2
<1> QED
  BY <1>8, <1>9, <1>10, <1>11

\* What a step that only reads leaves.
LEMMA ReadersKeep ==
    ASSUME LabelInv, FoundMatches', UNCHANGED <<config, slotVars, labelVars>>
    PROVE  LabelInv'
<1> USE DEF LabelInv, slotVars, labelVars
<1>1. /\ MaxPoints' = MaxPoints /\ NumFrozen' = NumFrozen /\ Slots' = Slots /\ Rows' = Rows
      /\ Live' = Live
  BY SameConfig DEF Live
<1>2. LabelTypeOK' /\ SlotsApart'
  BY <1>1 DEF LabelTypeOK, SlotsApart
<1>3. LabelsInPlace' /\ StartsInPlace'
  BY <1>1 DEF LabelsInPlace, StartsInPlace
<1> QED
  BY <1>2, <1>3

LEMMA SearchKeeps ==
    ASSUME LabelInv,
           \/ \E label \in Labels : SearchBegin(label)
           \/ \E l \in Slots : SearchVisit(l)
           \/ SearchEnd
    PROVE  LabelInv'
<1> USE DEF LabelInv
<1>1. ASSUME NEW label \in Labels, SearchBegin(label) PROVE LabelInv'
  <2>1. search' = [label |-> IF label_map THEN label ELSE Universal, found |-> {}]
        /\ UNCHANGED <<config, slotVars, labelVars>>
    BY <1>1 DEF SearchBegin
  <2>2. FoundMatches'
    BY <2>1 DEF FoundMatches
  <2> QED
    BY <2>1, <2>2, ReadersKeep
<1>2. ASSUME NEW l \in Slots, SearchVisit(l) PROVE LabelInv'
  <2>1. /\ search # None /\ l \in Live \cup delete_set
        /\ Matches(location_to_labels[l], search.label)
        /\ search' = [search EXCEPT !.found = search.found \cup {l}]
        /\ UNCHANGED <<config, slotVars, labelVars>>
    BY <1>2 DEF SearchVisit
  <2>2. Slots' = Slots
    BY <2>1, SameConfig
  <2>3. search' = [label |-> search.label, found |-> search.found \cup {l}]
    BY <2>1 DEF FoundMatches
  <2>4. l \notin empty_slots
    BY <2>1 DEF SlotsApart
  <2>5. search'.label = search.label /\ search'.found = search.found \cup {l}
    BY <2>3
  <2>6. \A k \in search'.found : ~config.conc =>
           k \notin empty_slots /\ Matches(location_to_labels[k], search.label)
    BY <2>1, <2>4, <2>5 DEF FoundMatches
  <2>7. search'.found \subseteq Slots
    BY <2>1, <2>5 DEF FoundMatches
  <2>8. FoundMatches'
    BY <2>1, <2>2, <2>3, <2>5, <2>6, <2>7 DEF FoundMatches, Matches, slotVars, labelVars
  <2> QED
    BY <2>1, <2>8, ReadersKeep
<1>3. ASSUME SearchEnd PROVE LabelInv'
  <2>1. search' = None /\ UNCHANGED <<config, slotVars, labelVars>>
    BY <1>3 DEF SearchEnd
  <2>2. FoundMatches'
    BY <2>1 DEF FoundMatches
  <2> QED
    BY <2>1, <2>2, ReadersKeep
<1> QED
  BY <1>1, <1>2, <1>3
-----------------------------------------------------------------------------
(* A save.                                                                 *)

\* The lists as compact_data leaves them.
SavedLists == IF data_compacted THEN location_to_labels ELSE Compacted(location_to_labels)

\* Every point is saved once, with its list, and nothing else has a tag; below nd,
\* unless the index counts as compacted; the lists of the frozen points are where they
\* were.
LEMMA SavedPoints ==
    ASSUME LabelInv, SaveAllowed
    PROVE  /\ SavedLists = [r \in Rows |-> SavedLists[r]]
           /\ SavedTags \in [Slots -> Tags \cup {NoTag}]
           /\ \A l \in Slots : SavedTags[l] # NoTag =>
                 /\ data_compacted \/ l < nd
                 /\ \E k \in Live : /\ SavedTags[l] = location_to_tag[k]
                                    /\ SavedLists[l] = location_to_labels[k]
           /\ \A k \in Live : (data_compacted => k < nd) =>
                 \E l \in 0 .. nd - 1 : SavedTags[l] = location_to_tag[k]
           /\ \A l, j \in Slots : SavedTags[l] # NoTag /\ SavedTags[l] = SavedTags[j] => l = j
           /\ \A i \in 0 .. NumFrozen - 1 :
                 SavedLists[MaxPoints + i] = location_to_labels[MaxPoints + i]
<1> USE DEF LabelInv
<1>1. MaxPoints \in Nat /\ config \in Configs
  BY ConfigType DEF LabelTypeOK
<1>2. nd \in 0 .. MaxPoints /\ Cardinality(Live) <= nd
  BY LiveBelow
<1>3. location_to_tag \in [Slots -> Tags \cup {NoTag}] /\ Live \subseteq Slots
      /\ \A l \in Slots : location_to_tag[l] # NoTag <=> l \in Live
  BY DEF LabelTypeOK, Live
<1>4. \A l, k \in Live : location_to_tag[l] = location_to_tag[k] => l = k
  BY DEF SlotsApart
<1>5. CASE data_compacted
  <2>2. SavedLists = location_to_labels /\ SavedTags = location_to_tag
    BY <1>5 DEF SavedLists, SavedTags
  <2>3. \A l \in Slots : location_to_tag[l] # NoTag =>
           \E k \in Live : /\ location_to_tag[l] = location_to_tag[k]
                           /\ location_to_labels[l] = location_to_labels[k]
    BY <1>3, Zenon
  <2>4. \A k \in Live : k < nd => \E l \in 0 .. nd - 1 : location_to_tag[l] = location_to_tag[k]
    BY <1>1, <1>2, <1>3 DEF Slots
  <2>5. \A l, j \in Slots :
           location_to_tag[l] # NoTag /\ location_to_tag[l] = location_to_tag[j] => l = j
    BY <1>3, <1>4
  <2>6. location_to_labels = [r \in Rows |-> location_to_labels[r]]
    BY DEF LabelTypeOK
  <2> QED
    BY <1>3, <1>5, <2>2, <2>3, <2>4, <2>5, <2>6
<1>6. CASE ~data_compacted
  <2> DEFINE n == Cardinality(Live)
             Old(l) == CHOOSE k \in Live : NewLocation(k) = l
  <2>1. n \in Nat /\ n <= nd /\ nd \in Nat /\ nd <= MaxPoints
    BY <1>1, <1>2, LiveRanks
  <2>2. \A l \in 0 .. n - 1 : Old(l) \in Live /\ NewLocation(Old(l)) = l
    BY <1>1, LiveRanks
  <2>3. \A k \in Live : NewLocation(k) \in 0 .. n - 1 /\ Old(NewLocation(k)) = k
    BY <1>1, LiveRanks
  <2>4. SavedTags = [l \in Slots |-> IF l < n THEN location_to_tag[Old(l)] ELSE NoTag]
    BY <1>6 DEF SavedTags
  <2>5. SavedLists = Compacted(location_to_labels)
    BY <1>6 DEF SavedLists
  <2>6. /\ \A k \in Live : SavedLists[NewLocation(k)] = location_to_labels[k]
        /\ \A i \in 0 .. NumFrozen - 1 :
              SavedLists[MaxPoints + i] = location_to_labels[MaxPoints + i]
        /\ SavedLists = [r \in Rows |-> SavedLists[r]]
    BY <1>1, <2>1, <2>5, CompactedRows
  <2> HIDE DEF n, Old
  <2>7. ASSUME NEW l \in Slots
        PROVE  /\ l \in 0 .. n - 1 => SavedTags[l] = location_to_tag[Old(l)]
                                      /\ SavedTags[l] \in Tags \cup {NoTag}
                                      /\ SavedLists[l] = location_to_labels[Old(l)]
               /\ l \notin 0 .. n - 1 => SavedTags[l] = NoTag
    <3>1. l \in Nat
      BY <1>1 DEF Slots
    <3>2. SavedTags[l] = IF l < n THEN location_to_tag[Old(l)] ELSE NoTag
      BY <2>4
    <3>3. l < n <=> l \in 0 .. n - 1
      BY <2>1, <3>1
    <3>4. CASE l \in 0 .. n - 1
      <4>1. Old(l) \in Live /\ NewLocation(Old(l)) = l
        BY <2>2, <3>4
      <4>2. SavedLists[NewLocation(Old(l))] = location_to_labels[Old(l)]
        BY <2>6, <4>1
      <4>3. location_to_tag[Old(l)] \in Tags \cup {NoTag}
        BY <1>3, <4>1
      <4> QED
        BY <3>2, <3>3, <3>4, <4>1, <4>2, <4>3
    <3>5. CASE l \notin 0 .. n - 1
      BY <3>2, <3>3, <3>5
    <3> QED
      BY <3>4, <3>5
  <2>8. SavedTags \in [Slots -> Tags \cup {NoTag}]
    <3>1. \A l \in Slots : SavedTags[l] \in Tags \cup {NoTag}
      BY <2>7
    <3>2. SavedTags = [l \in Slots |-> SavedTags[l]]
      BY <2>4
    <3> QED
      BY <3>1, <3>2
  <2>9. ASSUME NEW l \in Slots, SavedTags[l] # NoTag
        PROVE  /\ l < nd
               /\ \E k \in Live : /\ SavedTags[l] = location_to_tag[k]
                                  /\ SavedLists[l] = location_to_labels[k]
    <3>1. l \in 0 .. n - 1
      BY <2>7, <2>9
    <3>2. l < nd
      BY <2>1, <3>1
    <3> QED
      BY <2>2, <2>7, <3>1, <3>2
  <2>10. ASSUME NEW k \in Live
         PROVE  \E l \in 0 .. nd - 1 : SavedTags[l] = location_to_tag[k]
    <3>1. NewLocation(k) \in 0 .. n - 1 /\ Old(NewLocation(k)) = k
      BY <2>3
    <3>2. 0 .. n - 1 \subseteq Slots /\ 0 .. n - 1 \subseteq 0 .. nd - 1
      BY <1>1, <2>1 DEF Slots
    <3> QED
      BY <2>7, <3>1, <3>2
  <2>11. ASSUME NEW l \in Slots, NEW j \in Slots, SavedTags[l] # NoTag, SavedTags[l] = SavedTags[j]
         PROVE  l = j
    <3>1. l \in 0 .. n - 1 /\ j \in 0 .. n - 1
      BY <2>7, <2>11
    <3>2. Old(l) \in Live /\ Old(j) \in Live /\ location_to_tag[Old(l)] = location_to_tag[Old(j)]
      BY <2>2, <2>7, <2>11, <3>1
    <3>3. Old(l) = Old(j)
      BY <1>4, <3>2
    <3> QED
      BY <2>2, <3>1, <3>3
  <2> QED
    BY <1>6, <2>6, <2>8, <2>9, <2>10, <2>11
<1> QED
  BY <1>5, <1>6 DEF LabelTypeOK

\* After a save every list is where compact_data left it.
LEMMA SaveKeeps ==
    ASSUME LabelInv, Save
    PROVE  LabelInv'
<1> USE DEF LabelInv
<1>1. /\ SaveAllowed
      /\ location_to_labels' = MovedUp(SavedRows) /\ location_to_tag' = SavedTags
      /\ empty_slots' = IF data_compacted THEN empty_slots ELSE nd .. MaxPoints - 1
      /\ data_compacted' = TRUE
      /\ UNCHANGED <<config, nd, delete_set, label_to_start_id, frozen_pts_used, given, search>>
  BY DEF Save
<1>2. /\ MaxPoints' = MaxPoints /\ NumFrozen' = NumFrozen /\ Slots' = Slots /\ Rows' = Rows
  BY <1>1, SameConfig
<1>3. MaxPoints \in Nat /\ NumFrozen \in Nat /\ nd \in 0 .. MaxPoints /\ config \in Configs
      /\ Cardinality(Live) <= nd /\ Cardinality(Live) \in Nat
  BY ConfigType, LiveBelow, LiveRanks DEF LabelTypeOK
<1>4. /\ SavedLists = [r \in Rows |-> SavedLists[r]]
      /\ SavedTags \in [Slots -> Tags \cup {NoTag}]
      /\ \A l \in Slots : SavedTags[l] # NoTag =>
            /\ data_compacted \/ l < nd
            /\ \E k \in Live : /\ SavedTags[l] = location_to_tag[k]
                               /\ SavedLists[l] = location_to_labels[k]
      /\ \A l, j \in Slots : SavedTags[l] # NoTag /\ SavedTags[l] = SavedTags[j] => l = j
      /\ \A i \in 0 .. NumFrozen - 1 :
            SavedLists[MaxPoints + i] = location_to_labels[MaxPoints + i]
  BY <1>1, SavedPoints
<1>5. location_to_labels' = SavedLists
  <2>1. SavedRows = MovedDown(SavedLists)
    BY DEF SavedRows, SavedLists
  <2> QED
    BY <1>1, <1>3, <1>4, <2>1, MovedUpRestores
<1>6. empty_slots' \subseteq Slots /\ nd + Cardinality(empty_slots') = MaxPoints
      /\ (data_compacted => empty_slots' = empty_slots)
      /\ (~data_compacted => empty_slots' = nd .. MaxPoints - 1)
  <2>1. CASE data_compacted
    BY <1>1, <2>1 DEF LabelTypeOK, SlotsApart
  <2>2. CASE ~data_compacted
    <3>1. empty_slots' = nd .. MaxPoints - 1
      BY <1>1, <2>2
    <3>2. Cardinality(nd .. MaxPoints - 1) = MaxPoints - nd
      <4>1. nd \in Int /\ MaxPoints - 1 \in Int
        BY <1>3
      <4>2. Cardinality(nd .. MaxPoints - 1) =
               IF nd > MaxPoints - 1 THEN 0 ELSE MaxPoints - 1 - nd + 1
        BY <4>1, FS_Interval
      <4> QED
        BY <1>3, <4>2
    <3> QED
      BY <1>3, <2>2, <3>1, <3>2 DEF Slots
  <2> QED
    BY <2>1, <2>2
<1>7. LabelTypeOK'
  BY <1>1, <1>2, <1>4, <1>5, <1>6 DEF LabelTypeOK
<1>8. \A l \in Slots : l \in Live' <=> SavedTags[l] # NoTag
  BY <1>1, <1>2 DEF Live
<1>9. Live' \subseteq Slots /\ Live' \cap empty_slots' = {}
  <2>1. Live' \subseteq Slots
    BY <1>2 DEF Live
  <2>2. CASE data_compacted
    <3>1. SavedTags = location_to_tag
      BY <2>2 DEF SavedTags
    <3>2. Live' = Live
      BY <1>1, <1>2, <3>1 DEF Live
    <3> QED
      BY <1>6, <2>1, <2>2, <3>2 DEF SlotsApart
  <2>3. CASE ~data_compacted
    <3>1. \A l \in Live' : l < nd /\ l \in Nat
      BY <1>3, <1>4, <1>8, <2>1, <2>3 DEF Slots
    <3>2. \A l \in nd .. MaxPoints - 1 : ~(l < nd)
      BY <1>3
    <3> QED
      BY <1>6, <2>1, <2>3, <3>1, <3>2
  <2> QED
    BY <2>2, <2>3
<1>10. SlotsApart'
  <2>1. delete_set' = {}
    BY <1>1 DEF SaveAllowed
  <2>2. \A l, j \in Live' : location_to_tag'[l] = location_to_tag'[j] => l = j
    BY <1>1, <1>4, <1>8, <1>9
  <2>3. nd' + Cardinality(empty_slots') = MaxPoints'
    BY <1>1, <1>2, <1>6
  <2> QED
    BY <1>9, <2>1, <2>2, <2>3 DEF SlotsApart
<1>11. LabelsInPlace'
  <2>1. ASSUME NEW l \in Live' PROVE location_to_labels'[l] = given'[location_to_tag'[l]]
    <3>1. PICK k \in Live : /\ SavedTags[l] = location_to_tag[k]
                            /\ SavedLists[l] = location_to_labels[k]
      BY <1>4, <1>8, <1>9
    <3>2. location_to_labels[k] = given[location_to_tag[k]]
      BY DEF LabelsInPlace
    <3> QED
      BY <1>1, <1>5, <3>1, <3>2
  <2> QED
    BY <2>1 DEF LabelsInPlace
<1>12. StartsInPlace'
  <2>1. \A r \in MaxPoints .. MaxPoints + frozen_pts_used - 1 :
           location_to_labels'[r] = location_to_labels[r]
    <3>1. frozen_pts_used \in 0 .. NumFrozen
      BY DEF LabelTypeOK
    <3>2. ASSUME NEW r \in MaxPoints .. MaxPoints + frozen_pts_used - 1
          PROVE  location_to_labels'[r] = location_to_labels[r]
      <4>1. r - MaxPoints \in 0 .. NumFrozen - 1 /\ MaxPoints + (r - MaxPoints) = r
        BY <1>3, <3>1
      <4> QED
        BY <1>4, <1>5, <4>1
    <3> QED
      BY <3>2
  <2> QED
    BY <1>1, <1>2, <2>1 DEF StartsInPlace
<1>13. FoundMatches'
  BY <1>1 DEF FoundMatches, SaveAllowed
<1> QED
  BY <1>7, <1>10, <1>11, <1>12, <1>13
-----------------------------------------------------------------------------
(* The theorems.                                                           *)

LEMMA LabelInvInit ==
    ASSUME IndexInit PROVE LabelInv
<1> USE DEF IndexInit
<1>1. MaxPoints \in Nat /\ NumFrozen \in Nat /\ config \in Configs
  BY ConfigType
<1>2. \A l \in Slots : location_to_tag[l] = NoTag
  OBVIOUS
<1>3. Live = {}
  BY <1>2 DEF Live
<1>4. DOMAIN label_to_start_id = {}
  OBVIOUS
<1>5. IsFiniteSet({}) /\ Cardinality({}) = 0
  BY FS_EmptySet
<1>6. LabelTypeOK
  <2>1. location_to_tag \in [Slots -> Tags \cup {NoTag}]
    OBVIOUS
  <2>2. location_to_labels = [r \in Rows |-> location_to_labels[r]]
    OBVIOUS
  <2>3. IsFiniteSet(DOMAIN label_to_start_id) /\ DOMAIN label_to_start_id \subseteq AllLabels
    BY <1>4, <1>5
  <2>4. frozen_pts_used \in 0 .. NumFrozen
    BY <1>1
  <2>5. given = [t \in Tags |-> given[t]]
    OBVIOUS
  <2> QED
    BY <2>1, <2>2, <2>3, <2>4, <2>5 DEF LabelTypeOK
<1>7. SlotsApart
  <2>1. Cardinality(Slots) = MaxPoints
    BY <1>1, FS_Interval DEF Slots
  <2>2. nd + Cardinality(empty_slots) = MaxPoints
    BY <1>1, <2>1
  <2> QED
    BY <1>3, <2>2 DEF SlotsApart
<1>8. LabelsInPlace
  BY <1>3 DEF LabelsInPlace
<1>9. StartsInPlace
  BY <1>4, <1>5 DEF StartsInPlace
<1>10. FoundMatches
  BY DEF FoundMatches
<1> QED
  BY <1>6, <1>7, <1>8, <1>9, <1>10 DEF LabelInv

LEMMA LabelInvNext ==
    ASSUME LabelInv, [IndexNext]_indexVars PROVE LabelInv'
<1>1. config.tags \subseteq Tags /\ \A offer \in config.offers : IsOffer(offer)
  BY ConfigType, LabelAssumption DEF LabelInv, LabelTypeOK, IsOffer, AllLabels
<1>2. ASSUME NEW t \in config.tags, NEW offer \in config.offers,
             InsertPoint(t, offer) \/ InsertDuplicate(t, offer) \/ InsertThrow(t, offer)
      PROVE  LabelInv'
  BY <1>1, <1>2, InsertPointKeeps, InsertDuplicateKeeps, InsertThrowKeeps
<1>3. ASSUME NEW t \in Tags, LazyDelete(t) PROVE LabelInv'
  BY <1>3, LazyDeleteKeeps
<1>4. ASSUME NEW t \in config.tags, DeleteAbsent(t) PROVE LabelInv'
  BY <1>4, DeleteAbsentKeeps
<1>5. CASE Consolidate
  BY <1>5, ConsolidateKeeps
<1>6. CASE \/ \E label \in Labels : SearchBegin(label)
           \/ \E l \in Slots : SearchVisit(l)
           \/ SearchEnd
  BY <1>6, SearchKeeps
<1>7. CASE Save
  BY <1>7, SaveKeeps
<1>8. CASE UNCHANGED indexVars
  <2>1. FoundMatches' /\ UNCHANGED <<config, slotVars, labelVars>>
    <3>1. UNCHANGED <<config, slotVars, labelVars, search>>
      BY <1>8 DEF indexVars, readerVars
    <3>2. Slots' = Slots
      BY <3>1, SameConfig
    <3> QED
      BY <3>1, <3>2 DEF LabelInv, FoundMatches, Matches, slotVars, labelVars
  <2> QED
    BY <2>1, ReadersKeep
<1> QED
  BY <1>2, <1>3, <1>4, <1>5, <1>6, <1>7, <1>8 DEF IndexNext

\* The slots are free, live or deleted and no two at once, the counts add up, every
\* tag is at one location, and the labels are where the other theorems say, whatever
\* callers do to the index (insert_point, lazy_delete, consolidate_deletes, filtered
\* searches and save of src/src/index.cpp).
THEOREM LabelInvHolds == IndexSpec => []LabelInv
<1>1. IndexInit => LabelInv
  BY LabelInvInit
<1>2. LabelInv /\ [IndexNext]_indexVars => LabelInv'
  BY LabelInvNext
<1> QED
  BY <1>1, <1>2, PTL DEF IndexSpec

\* A live location has the labels its tag was inserted with, whatever refused
\* insertions wrote to free locations and however saves moved the points.
THEOREM LabelsFollowTagsHolds == IndexSpec => []LabelsFollowTags
<1>1. LabelInv => LabelsFollowTags
  BY DEF LabelInv, LabelsInPlace, LabelsFollowTags
<1> QED
  BY <1>1, LabelInvHolds, PTL

\* Every label that was offered has a frozen point of its own, with that label and
\* no other, also after an insertion threw half-way through its labels.
THEOREM EveryLabelHasAStartHolds == IndexSpec => []EveryLabelHasAStart
<1>1. LabelInv => EveryLabelHasAStart
  BY DEF LabelInv, StartsInPlace, EveryLabelHasAStart
<1> QED
  BY <1>1, LabelInvHolds, PTL

\* Where consolidation waits for searches, the tags that a filtered search answers
\* have the label asked for: a location found earlier still has its labels when it
\* is turned into a tag, as it cannot have been freed and given away.
THEOREM AnswersHaveLabelHolds == IndexSpec => []AnswersHaveLabel
<1>1. LabelInv => AnswersHaveLabel
  <2> SUFFICES ASSUME LabelInv, search # None, ~config.conc, NEW t \in Answer
               PROVE  Matches(given[t], search.label)
    BY DEF AnswersHaveLabel
  <2>1. PICK l \in search.found \cap Live : t = location_to_tag[l]
    BY DEF Answer
  <2>2. Matches(location_to_labels[l], search.label)
    BY <2>1 DEF LabelInv, FoundMatches
  <2>3. location_to_labels[l] = given[t]
    BY <2>1 DEF LabelInv, LabelsInPlace
  <2> QED
    BY <2>2, <2>3
<1> QED
  BY <1>1, LabelInvHolds, PTL

\* What a save with compaction writes, whatever callers have done to the index before: a
\* tag in the files is there once, with the labels it was given; every label has a row
\* behind the points that has it alone; and no point is left out but from rows from _nd
\* on of an index that counts as compacted.  An assertion of load takes the label file
\* for shorter than it is (index.cpp:597), so that it is builds without assertions
\* that come to read all this.
THEOREM LoadKeepsLabelsHolds == IndexSpec => []LoadKeepsLabels
<1>1. ASSUME LabelInv, SaveAllowed
      PROVE  /\ \A l \in Live : (data_compacted => l < nd) =>
                   \E k \in DOMAIN LoadedTags : LoadedTags[k] = location_to_tag[l]
             /\ \A l, k \in DOMAIN LoadedTags :
                   LoadedTags[l] # HiddenTag =>
                       /\ Files.labels[l] = given[LoadedTags[l]]
                       /\ LoadedTags[k] = LoadedTags[l] => k = l
             /\ \A x \in DOMAIN label_to_start_id :
                   /\ Files.labels_to_medoids[x] \in nd .. nd + NumFrozen - 1
                   /\ Files.labels[Files.labels_to_medoids[x]] = <<x>>
  <2>1. MaxPoints \in Nat /\ NumFrozen \in Nat /\ nd \in 0 .. MaxPoints /\ config \in Configs
        /\ 0 .. nd - 1 \subseteq Slots
    BY <1>1, ConfigType, LiveBelow DEF LabelInv, LabelTypeOK, Slots
  <2>2. /\ SavedTags \in [Slots -> Tags \cup {NoTag}]
        /\ \A l \in Slots : SavedTags[l] # NoTag =>
              \E k \in Live : /\ SavedTags[l] = location_to_tag[k]
                              /\ SavedLists[l] = location_to_labels[k]
        /\ \A k \in Live : (data_compacted => k < nd) =>
              \E l \in 0 .. nd - 1 : SavedTags[l] = location_to_tag[k]
        /\ \A l, j \in Slots : SavedTags[l] # NoTag /\ SavedTags[l] = SavedTags[j] => l = j
        /\ \A i \in 0 .. NumFrozen - 1 :
              SavedLists[MaxPoints + i] = location_to_labels[MaxPoints + i]
    BY <1>1, SavedPoints
  <2>3. /\ \A r \in 0 .. nd - 1 : SavedRows[r] = SavedLists[r]
        /\ \A i \in 0 .. NumFrozen - 1 : SavedRows[nd + i] = SavedLists[MaxPoints + i]
    BY <2>1, MovedDownRows DEF SavedRows, SavedLists
  <2>4. /\ Files.tags = [l \in 0 .. nd - 1 |-> SavedTags[l]]
        /\ Files.labels = [x \in 0 .. nd + NumFrozen - 1 |-> SavedRows[x]]
        /\ Files.labels_to_medoids = StartsInFile
    BY DEF Files
  <2>5. LoadedTags = [l \in 0 .. nd - 1 |->
                        IF SavedTags[l] = NoTag THEN HiddenTag ELSE SavedTags[l]]
    BY <2>4 DEF LoadedTags
  <2>6. HiddenTag \notin Tags \cup {NoTag} /\ NoTag \notin Tags
    BY NoTagAssumption
  <2>7. \A l \in 0 .. nd - 1 :
           /\ LoadedTags[l] # HiddenTag <=> SavedTags[l] # NoTag
           /\ SavedTags[l] # NoTag => LoadedTags[l] = SavedTags[l]
    BY <2>1, <2>2, <2>5, <2>6
  <2>8. ASSUME NEW l \in Live, data_compacted => l < nd
        PROVE  \E k \in DOMAIN LoadedTags : LoadedTags[k] = location_to_tag[l]
    <3>1. PICK k \in 0 .. nd - 1 : SavedTags[k] = location_to_tag[l]
      BY <2>2, <2>8
    <3>2. location_to_tag[l] # NoTag
      BY DEF Live
    <3> QED
      BY <2>5, <2>7, <3>1, <3>2
  <2>9. ASSUME NEW l \in DOMAIN LoadedTags, NEW k \in DOMAIN LoadedTags, LoadedTags[l] # HiddenTag
        PROVE  /\ Files.labels[l] = given[LoadedTags[l]]
               /\ LoadedTags[k] = LoadedTags[l] => k = l
    <3>1. l \in 0 .. nd - 1 /\ k \in 0 .. nd - 1 /\ l \in Slots /\ k \in Slots
      BY <2>1, <2>5
    <3>2. SavedTags[l] # NoTag /\ LoadedTags[l] = SavedTags[l]
      BY <2>7, <2>9, <3>1
    <3>3. PICK m \in Live : SavedTags[l] = location_to_tag[m] /\ SavedLists[l] = location_to_labels[m]
      BY <2>2, <3>1, <3>2
    <3>4. location_to_labels[m] = given[location_to_tag[m]]
      BY <1>1 DEF LabelInv, LabelsInPlace
    <3>5. l \in 0 .. nd + NumFrozen - 1
      BY <2>1, <3>1
    <3>6. Files.labels[l] = SavedLists[l]
      BY <2>3, <2>4, <3>1, <3>5
    <3>7. ASSUME LoadedTags[k] = LoadedTags[l] PROVE k = l
      BY <2>2, <2>7, <2>9, <3>1, <3>2, <3>7
    <3> QED
      BY <3>2, <3>3, <3>4, <3>6, <3>7
  <2>10. ASSUME NEW x \in DOMAIN label_to_start_id
         PROVE  /\ Files.labels_to_medoids[x] \in nd .. nd + NumFrozen - 1
                /\ Files.labels[Files.labels_to_medoids[x]] = <<x>>
    <3> DEFINE i == label_to_start_id[x] - MaxPoints
    <3>1. /\ frozen_pts_used \in 0 .. NumFrozen
          /\ label_to_start_id[x] \in MaxPoints .. MaxPoints + frozen_pts_used - 1
          /\ location_to_labels[label_to_start_id[x]] = <<x>>
      BY <1>1 DEF LabelInv, LabelTypeOK, StartsInPlace
    <3>2. i \in 0 .. NumFrozen - 1 /\ label_to_start_id[x] = MaxPoints + i
      BY <2>1, <3>1
    <3> HIDE DEF i
    <3>3. Files.labels_to_medoids[x] = nd + i
      <4>1. StartsInFile[x] =
              IF nd = MaxPoints THEN label_to_start_id[x] ELSE nd + (label_to_start_id[x] - MaxPoints)
        BY DEF StartsInFile
      <4> QED
        BY <2>1, <2>4, <3>2, <4>1
    <3>4. nd + i \in nd .. nd + NumFrozen - 1 /\ nd + i \in 0 .. nd + NumFrozen - 1
      BY <2>1, <3>2
    <3>5. Files.labels[nd + i] = <<x>>
      BY <2>2, <2>3, <2>4, <3>1, <3>2, <3>4
    <3> QED
      BY <3>3, <3>4, <3>5
  <2> QED
    BY <2>8, <2>9, <2>10
<1>2. LabelInv => LoadKeepsLabels
  BY <1>1, Zenon DEF LoadKeepsLabels
<1> QED
  BY <1>2, LabelInvHolds, PTL

-----------------------------------------------------------------------------
(* Tags.                                                                   *)

\* Every live location has a tag of its own.
TagsOnce ==
    /\ location_to_tag \in [Slots -> Tags \cup {NoTag}]
    /\ \A l, k \in Live : location_to_tag[l] = location_to_tag[k] => l = k

\* The live locations are finitely many.
LEMMA LiveFinite ==
    ASSUME config \in Configs
    PROVE  IsFiniteSet(Live) /\ Cardinality(Live) \in Nat
<1>1. IsFiniteSet(Slots)
  BY ConfigType, FS_Interval DEF Slots
<1>2. Live \subseteq Slots
  BY DEF Live
<1> QED
  BY <1>1, <1>2, FS_Subset, FS_CardinalityType

\* An insertion that takes no live location adds its tag to those present.
LEMMA TagInserted ==
    ASSUME TagsOnce, config \in Configs, empty_slots \subseteq Slots,
           NEW t \in Tags, NEW offer, InsertPoint(t, offer),
           \A l \in Live : location_to_tag'[l] = location_to_tag[l]
    PROVE  /\ TagsOnce' /\ Present' = Present \cup {t}
           /\ Cardinality(Live') = Cardinality(Live) + 1
           /\ nd' = nd + 1 /\ empty_slots' \subseteq Slots'
           /\ UNCHANGED <<config, delete_set, data_compacted, search>>
<1>1. PICK l \in empty_slots :
         /\ location_to_tag' = [location_to_tag EXCEPT ![l] = t]
         /\ empty_slots' = empty_slots \ {l}
  BY DEF InsertPoint
<1>2. t \notin Present /\ nd' = nd + 1 /\ UNCHANGED <<config, delete_set, data_compacted, search>>
  BY DEF InsertPoint, readerVars
<1>3. t # NoTag /\ l \in Slots /\ Slots' = Slots
  BY <1>2, NoTagAssumption, SameConfig
<1>4. \A k \in Slots : location_to_tag'[k] = IF k = l THEN t ELSE location_to_tag[k]
  BY <1>1 DEF TagsOnce
<1>5. \A k \in Live : location_to_tag[k] # t
  BY <1>2 DEF Present
<1>6. l \notin Live
  BY <1>3, <1>4, <1>5
<1>7. Live' = Live \cup {l}
  BY <1>3, <1>4 DEF Live
<1>8. Present' = Present \cup {t}
  <2>1. \A k \in Live : k \in Slots /\ k # l
    BY <1>6 DEF Live
  <2> QED
    BY <1>3, <1>4, <1>7, <2>1 DEF Present
<1>9. TagsOnce'
  <2>1. location_to_tag' \in [Slots' -> Tags \cup {NoTag}]
    BY <1>1, <1>3 DEF TagsOnce
  <2>2. \A k \in Live : k \in Slots /\ k # l /\ location_to_tag'[k] = location_to_tag[k]
    BY <1>4, <1>6 DEF Live
  <2>3. location_to_tag'[l] = t
    BY <1>3, <1>4
  <2>4. \A i, k \in Live' : location_to_tag'[i] = location_to_tag'[k] => i = k
    BY <1>5, <1>7, <2>2, <2>3 DEF TagsOnce
  <2> QED
    BY <2>1, <2>4 DEF TagsOnce
<1>10. Cardinality(Live') = Cardinality(Live) + 1
  BY <1>6, <1>7, LiveFinite, FS_AddElement
<1> QED
  BY <1>1, <1>2, <1>3, <1>8, <1>9, <1>10

\* A deletion takes its tag from those present, and nothing else.
LEMMA TagDeleted ==
    ASSUME TagsOnce, NEW t, LazyDelete(t)
    PROVE  /\ TagsOnce' /\ Present' = Present \ {t}
           /\ \E l \in Live : delete_set' = delete_set \cup {l}
           /\ data_compacted' = FALSE /\ Live' \subseteq Live
           /\ UNCHANGED <<config, empty_slots, nd, search>>
<1>1. PICK l \in Live :
         /\ location_to_tag[l] = t
         /\ delete_set' = delete_set \cup {l}
         /\ location_to_tag' = [location_to_tag EXCEPT ![l] = NoTag]
  BY DEF LazyDelete
<1>2. data_compacted' = FALSE /\ UNCHANGED <<config, empty_slots, nd, search>>
  BY DEF LazyDelete, readerVars
<1>3. Slots' = Slots /\ l \in Slots
  BY <1>2, SameConfig DEF Live
<1>4. \A k \in Slots : location_to_tag'[k] = IF k = l THEN NoTag ELSE location_to_tag[k]
  BY <1>1 DEF TagsOnce
<1>5. Live' = Live \ {l} /\ \A k \in Live' : location_to_tag'[k] = location_to_tag[k]
  BY <1>3, <1>4 DEF Live
<1>6. Present' = Present \ {t}
  <2>1. \A k \in Live : location_to_tag[k] = t <=> k = l
    BY <1>1 DEF TagsOnce
  <2> QED
    BY <1>5, <2>1 DEF Present
<1>7. TagsOnce'
  <2>1. location_to_tag' \in [Slots' -> Tags \cup {NoTag}]
    BY <1>1, <1>3 DEF TagsOnce
  <2> QED
    BY <1>5, <2>1 DEF TagsOnce
<1> QED
  BY <1>1, <1>2, <1>5, <1>6, <1>7

\* What leaves the tags alone leaves those present.
LEMMA TagsUntouched ==
    ASSUME UNCHANGED <<config, location_to_tag>>
    PROVE  /\ Live' = Live /\ Present' = Present /\ Slots' = Slots
           /\ TagsOnce => TagsOnce'
<1>1. Slots' = Slots
  BY SameConfig
<1>2. Live' = Live
  BY <1>1 DEF Live
<1> QED
  BY <1>1, <1>2 DEF Present, TagsOnce

\* The tags in the file are a matter of the tags and the counts.
LEMMA FileStays ==
    ASSUME UNCHANGED <<config, location_to_tag, nd, data_compacted>>
    PROVE  TagsInFile' = TagsInFile
<1>1. TagsInFile = {SavedTags[l] : l \in 0 .. nd - 1} \ {NoTag}
  <2>1. Files.tags = [l \in 0 .. nd - 1 |-> SavedTags[l]]
    BY DEF Files
  <2> QED
    BY <2>1 DEF TagsInFile
<1>2. TagsInFile' = {SavedTags'[l] : l \in 0 .. nd' - 1} \ {NoTag}
  <2>1. Files'.tags = [l \in 0 .. nd' - 1 |-> SavedTags'[l]]
    BY DEF Files
  <2> QED
    BY <2>1 DEF TagsInFile
<1>3. SavedTags' = SavedTags
  <2>1. Live' = Live /\ Slots' = Slots
    BY TagsUntouched
  <2> QED
    BY <2>1 DEF SavedTags, NewLocation
<1> QED
  BY <1>1, <1>2, <1>3

\* The tags in the file are those of the points, where save compacts the index or they
\* lie below nd.
LEMMA TagsWritten ==
    ASSUME TagsOnce, config \in Configs, nd \in 0 .. MaxPoints, Cardinality(Live) <= nd,
           data_compacted => Live \subseteq 0 .. nd - 1
    PROVE  TagsInFile = Present
<1> DEFINE n == Cardinality(Live)
           Old(l) == CHOOSE k \in Live : NewLocation(k) = l
<1>1. TagsInFile = {SavedTags[l] : l \in 0 .. nd - 1} \ {NoTag}
  <2>1. Files.tags = [l \in 0 .. nd - 1 |-> SavedTags[l]]
    BY DEF Files
  <2> QED
    BY <2>1 DEF TagsInFile
<1>2. MaxPoints \in Nat /\ n \in Nat /\ nd \in Nat /\ n <= nd /\ 0 .. nd - 1 \subseteq Slots
  BY ConfigType, LiveRanks DEF Slots
<1>3. \A l \in Slots : location_to_tag[l] # NoTag <=> l \in Live
  BY DEF Live
<1>4. CASE data_compacted
  <2>1. SavedTags = location_to_tag
    BY <1>4 DEF SavedTags
  <2>2. \A l \in Live : l \in 0 .. nd - 1
    BY <1>4
  <2> HIDE DEF n, Old
  <2> QED
    BY <1>1, <1>2, <1>3, <2>1, <2>2 DEF Present
<1>5. CASE ~data_compacted
  <2>1. \A l \in 0 .. n - 1 : Old(l) \in Live /\ NewLocation(Old(l)) = l
    BY LiveRanks
  <2>2. \A k \in Live : NewLocation(k) \in 0 .. n - 1 /\ Old(NewLocation(k)) = k
    BY LiveRanks
  <2>3. SavedTags = [l \in Slots |-> IF l < n THEN location_to_tag[Old(l)] ELSE NoTag]
    BY <1>5 DEF SavedTags
  <2> HIDE DEF n, Old
  <2>4. \A l \in 0 .. nd - 1 :
           /\ l \in 0 .. n - 1 => SavedTags[l] = location_to_tag[Old(l)]
           /\ l \notin 0 .. n - 1 => SavedTags[l] = NoTag
    BY <1>2, <2>3
  <2>5. ASSUME NEW k \in Live PROVE location_to_tag[k] \in TagsInFile
    <3>1. NewLocation(k) \in 0 .. n - 1 /\ NewLocation(k) \in 0 .. nd - 1
      BY <1>2, <2>2
    <3>2. SavedTags[NewLocation(k)] = location_to_tag[k]
      BY <2>2, <2>4, <3>1
    <3>3. location_to_tag[k] # NoTag
      BY DEF Live
    <3> QED
      BY <1>1, <3>1, <3>2, <3>3
  <2>6. ASSUME NEW t \in TagsInFile PROVE t \in Present
    <3>1. PICK l \in 0 .. nd - 1 : t = SavedTags[l] /\ t # NoTag
      BY <1>1, <2>6
    <3>2. l \in 0 .. n - 1 /\ t = location_to_tag[Old(l)]
      BY <2>4, <3>1
    <3> QED
      BY <2>1, <3>2 DEF Present
  <2> QED
    BY <2>5, <2>6 DEF Present
<1> QED
  BY <1>4, <1>5

\* A save keeps the points that are present; and its file has them all if it compacts
\* the index.
LEMMA TagsSaved ==
    ASSUME LabelInv, Save
    PROVE  /\ Present' = Present /\ UNCHANGED <<config, nd, delete_set>>
           /\ ~data_compacted => TagsInFile' = Present'
<1>1. location_to_tag' = SavedTags /\ SaveAllowed /\ UNCHANGED <<config, nd, delete_set>>
  BY DEF Save
<1>2. Slots' = Slots
  BY <1>1, SameConfig
<1>3. nd \in 0 .. MaxPoints /\ MaxPoints \in Nat
  BY LiveBelow, ConfigType DEF LabelInv, LabelTypeOK
<1>4. 0 .. nd - 1 \subseteq Slots
  BY <1>3 DEF Slots
<1>5. \A l \in Slots : SavedTags[l] # NoTag =>
         (data_compacted \/ l < nd) /\ \E k \in Live : SavedTags[l] = location_to_tag[k]
  BY <1>1, SavedPoints
<1>6. \A k \in Live : \E l \in Slots : SavedTags[l] = location_to_tag[k]
  <2>1. CASE data_compacted
    <3>1. SavedTags = location_to_tag /\ Live \subseteq Slots
      BY <2>1 DEF SavedTags, Live
    <3> QED
      BY <3>1
  <2>2. CASE ~data_compacted
    BY <1>1, <1>4, <2>2, SavedPoints
  <2> QED
    BY <2>1, <2>2
<1>7. Live' = {l \in Slots : SavedTags[l] # NoTag}
  BY <1>1, <1>2 DEF Live
<1>8. Present' = {SavedTags[l] : l \in Live'}
  BY <1>1 DEF Present
<1>9. \A k \in Live : location_to_tag[k] # NoTag
  BY DEF Live
<1>10. Present' = Present
  <2>1. Present = {location_to_tag[k] : k \in Live}
    BY DEF Present
  <2>2. \A t \in Present' : t \in Present
    BY <1>5, <1>7, <1>8, <2>1
  <2>3. \A t \in Present : t \in Present'
    BY <1>6, <1>7, <1>8, <1>9, <2>1
  <2> QED
    BY <2>2, <2>3
<1>11. ASSUME ~data_compacted PROVE TagsInFile' = Present'
  <2>1. data_compacted' = TRUE /\ nd' = nd
    BY DEF Save
  <2>2. SavedTags' = SavedTags
    <3>1. SavedTags' = location_to_tag'
      BY <2>1 DEF SavedTags
    <3> QED
      BY <1>1, <3>1
  <2>3. Files.tags' = [l \in 0 .. nd - 1 |-> SavedTags[l]]
    <3>1. Files.tags' = [l \in 0 .. nd' - 1 |-> SavedTags'[l]]
      BY DEF Files
    <3> QED
      BY <2>1, <2>2, <3>1
  <2>4. TagsInFile' = {SavedTags[l] : l \in 0 .. nd - 1} \ {NoTag}
    BY <2>3 DEF TagsInFile
  <2>5. \A l \in Slots : SavedTags[l] # NoTag => l \in 0 .. nd - 1
    BY <1>3, <1>5, <1>11 DEF Slots
  <2> QED
    BY <1>4, <1>7, <1>8, <2>4, <2>5
<1> QED
  BY <1>1, <1>10, <1>11

-----------------------------------------------------------------------------
(* The window.                                                             *)

\* Points inserted so far, points the tasks have come to, and points whose slots
\* were given back; points are numbered from 0 in the file.
Inserted == IF main = "start" THEN {} ELSE (0 .. BatchEnd - 1) \ pending
Erased == IF task = None THEN 0 ELSE task.first
Reclaimed ==
    IF task = None THEN 0
    ELSE IF task.step = "over" THEN task.last ELSE task.last - ConsolidateInterval

Proper == KnownArguments /\ RangeFits

StreamTypeOK ==
    /\ config.max_points = Capacity /\ config.call.max_points \in Nat
    /\ main \in {"start", "insert", "launch", "in_block", "next", "last_wait", "save", "end"}
    /\ start \in Nat /\ pending \subseteq Nat /\ lost \in BOOLEAN
    /\ task \in {None} \cup [first : Int, last : Int, step : {"launched", "delete", "over"}]

\* The batch is within the file, and nothing of it is left when it is over.
BatchInv ==
    /\ start = 0 \/ start = ActiveWindow \/ start >= ActiveWindow + ConsolidateInterval
    /\ main = "start" => start = 0 /\ task = None
    /\ main # "start" => BatchEnd <= MaxPointsToInsert
    /\ main = "insert" => pending \subseteq start .. BatchEnd - 1
    /\ main \notin {"insert", "end"} => pending = {}

\* The task deletes a range of one interval.
TaskInv ==
    task # None =>
        /\ task.last - ConsolidateInterval <= task.first /\ task.first <= task.last
        /\ ConsolidateInterval <= task.last /\ task.last <= start
        /\ task.step = "launched" => task.first = task.last - ConsolidateInterval
        /\ task.step = "over" => task.first = task.last

\* The task there is after so many batches.
NoTaskYet(b) == b < ActiveWindow + ConsolidateInterval
LaunchInv ==
    /\ main = "insert" =>
          IF start <= ActiveWindow + ConsolidateInterval THEN task = None
          ELSE task # None /\ task.last = start - ConsolidateInterval - ActiveWindow
    /\ main = "launch" =>
          /\ ~NoTaskYet(start)
          /\ IF start = ActiveWindow + ConsolidateInterval THEN task = None
             ELSE /\ task # None /\ task.step = "over"
                  /\ task.last = start - ConsolidateInterval - ActiveWindow
    /\ main = "in_block" => ~NoTaskYet(start) /\ task # None /\ task.last = start - ActiveWindow
    /\ main \in {"next", "last_wait", "save", "end"} =>
          IF NoTaskYet(start) THEN task = None
          ELSE task # None /\ task.last = start - ActiveWindow
    /\ main \in {"save", "end"} => TaskOver /\ pending = {}

\* Who is present, and what slots are taken.
WindowInv ==
    /\ Present = {j + 1 : j \in {k \in Inserted : Erased <= k}}
    /\ nd + Reclaimed = Cardinality(Inserted)
    /\ Cardinality(delete_set) = Erased - Reclaimed

\* Once a task has taken a point away the index does not count as compacted, until
\* the last save, which leaves its points as they are in the file.
FileInv ==
    Proper /\ ~lost /\ Erased > 0 =>
        IF main = "end" THEN delete_set = {} /\ TagsInFile = Present ELSE ~data_compacted

StreamInv ==
    /\ StreamTypeOK
    /\ main \notin {"start", "end"} => Proper
    /\ Proper => BatchInv
    /\ Proper /\ ~lost => TaskInv /\ LaunchInv /\ WindowInv

-----------------------------------------------------------------------------
(* The steps of the window.                                                *)

\* What the arguments are.
LEMMA StreamNumbers ==
    ASSUME config \in Configs, config.user = "streaming"
    PROVE  /\ ActiveWindow \in Nat \ {0} /\ ConsolidateInterval \in Nat \ {0}
           /\ Len(FileLabels) \in Nat /\ MaxPointsToInsert \in Nat
           /\ \A n \in 1 .. Len(FileLabels) : n \in Tags /\ IsOffer(FileLabels[n])
           /\ Proper => /\ MaxPointsToInsert <= Len(FileLabels)
                        /\ ActiveWindow + ConsolidateInterval <= MaxPointsToInsert
<1>1. /\ ActiveWindow \in Nat \ {0} /\ ConsolidateInterval \in Nat \ {0}
      /\ FileLabels \in Seq(Offers) /\ Tags = 1 .. Len(FileLabels)
      /\ config.call.max_points \in Nat
  BY StreamAssumption
<1>2. Len(FileLabels) \in Nat /\ MaxPointsToInsert \in Nat
  BY <1>1 DEF MaxPointsToInsert
<1>3. ASSUME NEW n \in 1 .. Len(FileLabels) PROVE n \in Tags /\ IsOffer(FileLabels[n])
  <2>1. FileLabels[n] \in Offers
    BY <1>1
  <2> QED
    BY <1>1, <2>1, LabelAssumption DEF IsOffer, AllLabels
<1> QED
  BY <1>1, <1>2, <1>3 DEF Proper, RangeFits

\* The arguments do not change.
LEMMA SameCall ==
    ASSUME config' = config
    PROVE  /\ MaxPointsToInsert' = MaxPointsToInsert /\ (Proper' <=> Proper)
           /\ MaxPoints' = MaxPoints
BY DEF MaxPointsToInsert, Proper, KnownArguments, RangeFits, MaxPoints

\* A task is a record.
LEMMA TaskRecord ==
    ASSUME NEW f \in Int, NEW l \in Int, NEW s \in {"launched", "delete", "over"}
    PROVE  /\ [first |-> f, last |-> l, step |-> s] # None
           /\ [first |-> f, last |-> l, step |-> s] \in
                 [first : Int, last : Int, step : {"launched", "delete", "over"}]
BY StreamAssumption

\* Steps of the main thread that neither insert nor save.
LEMMA WindowSame ==
    ASSUME WindowInv, UNCHANGED indexVars,
           Inserted' = Inserted, Erased' = Erased, Reclaimed' = Reclaimed
    PROVE  WindowInv'
<1>1. Present' = Present /\ nd' = nd /\ delete_set' = delete_set
  BY TagsUntouched DEF indexVars, slotVars
<1> QED
  BY <1>1 DEF WindowInv

StreamFacts == StreamInv /\ config \in Configs /\ config.user = "streaming"

LEMMA StartKeepsStream ==
    ASSUME StreamFacts, LabelInv, RefuseStream \/ StartStream
    PROVE  StreamInv'
<1> USE DEF StreamFacts
<1>1. config' = config /\ UNCHANGED <<indexVars, start, task, lost>> /\ main = "start"
  BY DEF RefuseStream, StartStream, indexVars
<1>2. /\ ActiveWindow \in Nat \ {0} /\ ConsolidateInterval \in Nat \ {0}
      /\ Proper => ActiveWindow + ConsolidateInterval <= MaxPointsToInsert
  BY StreamNumbers
<1>3. CASE RefuseStream
  <2>1. ~Proper' /\ main' = "end" /\ UNCHANGED pending
    BY <1>1, <1>3, SameCall DEF RefuseStream, Proper
  <2> QED
    BY <1>1, <2>1 DEF StreamInv, StreamTypeOK
<1>4. CASE StartStream
  <2>1. main' = "insert" /\ pending' = 0 .. ActiveWindow - 1
    BY <1>4 DEF StartStream
  <2>2. StreamTypeOK'
    BY <1>1, <1>2, <2>1 DEF StreamInv, StreamTypeOK
  <2>3. Proper /\ Proper' /\ BatchInv /\ MaxPointsToInsert' = MaxPointsToInsert /\ MaxPointsToInsert \in Nat
    BY <1>1, <1>4, SameCall, StreamNumbers DEF StreamInv, StartStream, Proper
  <2>4. start = 0 /\ task = None /\ BatchEnd' = ActiveWindow /\ start' = 0 /\ task' = None
    BY <1>1, <2>3 DEF BatchEnd, BatchInv
  <2>5. BatchInv'
    BY <1>2, <2>1, <2>3, <2>4 DEF BatchInv
  <2>6. ASSUME ~lost' PROVE TaskInv' /\ LaunchInv' /\ WindowInv'
    <3>1. WindowInv
      BY <1>1, <2>3, <2>6 DEF StreamInv
    <3>2. Inserted = {} /\ Inserted' = {}
      BY <1>1, <2>1, <2>4 DEF Inserted
    <3>3. WindowInv'
      BY <1>1, <2>4, <3>1, <3>2, WindowSame DEF Erased, Reclaimed
    <3>4. TaskInv' /\ LaunchInv'
      BY <1>2, <2>1, <2>4 DEF TaskInv, LaunchInv
    <3> QED
      BY <3>3, <3>4
  <2> QED
    BY <2>2, <2>3, <2>5, <2>6 DEF StreamInv
<1> QED
  BY <1>3, <1>4

LEMMA MainKeepsStream ==
    ASSUME StreamFacts, LabelInv, AfterBatch \/ LeaveBlock \/ LastWait
    PROVE  StreamInv'
<1> USE DEF StreamFacts
<1>1. config' = config /\ UNCHANGED <<indexVars, start, pending, task, lost>>
  BY DEF AfterBatch, LeaveBlock, LastWait, indexVars
<1>2. ActiveWindow \in Nat \ {0} /\ ConsolidateInterval \in Nat \ {0}
  BY StreamNumbers
<1>3. main # "start" /\ main' \in {"launch", "next", "save"}
  BY DEF AfterBatch, LeaveBlock, LastWait
<1>4. StreamTypeOK'
  BY <1>1, <1>3 DEF StreamInv, StreamTypeOK
<1>5. Proper /\ Proper' /\ BatchInv /\ MaxPointsToInsert' = MaxPointsToInsert /\ start \in Nat
  BY <1>1, SameCall DEF StreamInv, StreamTypeOK, AfterBatch, LeaveBlock, LastWait
<1>6. BatchEnd' = BatchEnd /\ pending = {}
  BY <1>1, <1>5 DEF BatchEnd, BatchInv, AfterBatch, LeaveBlock, LastWait
<1>7. BatchInv'
  BY <1>1, <1>3, <1>5, <1>6 DEF BatchInv
<1>8. ASSUME ~lost' PROVE TaskInv' /\ LaunchInv' /\ WindowInv'
  <2>1. TaskInv /\ LaunchInv /\ WindowInv
    BY <1>1, <1>5, <1>8 DEF StreamInv
  <2>2. WindowInv'
    BY <1>1, <1>3, <1>6, <2>1, WindowSame DEF Erased, Reclaimed, Inserted
  <2>3. TaskInv'
    BY <1>1, <2>1 DEF TaskInv
  <2>4. LaunchInv'
    <3>1. CASE AfterBatch
      <4>1. main = "insert" /\ (start = 0 \/ TaskOver)
            /\ main' = IF start >= ActiveWindow + ConsolidateInterval THEN "launch" ELSE "next"
        BY <3>1 DEF AfterBatch
      <4> QED
        BY <1>1, <1>2, <1>5, <1>6, <2>1, <4>1 DEF LaunchInv, NoTaskYet, TaskOver
    <3>2. CASE LeaveBlock
      BY <1>1, <1>2, <1>5, <1>6, <2>1, <3>2 DEF LaunchInv, NoTaskYet, TaskOver, LeaveBlock
    <3>3. CASE LastWait
      BY <1>1, <1>2, <1>5, <1>6, <2>1, <3>3 DEF LaunchInv, NoTaskYet, TaskOver, LastWait
    <3> QED
      BY <3>1, <3>2, <3>3
  <2> QED
    BY <2>2, <2>3, <2>4
<1> QED
  BY <1>4, <1>5, <1>7, <1>8 DEF StreamInv

\* The next batch begins where the last one ended.
LEMMA NextBatchKeepsStream ==
    ASSUME StreamFacts, LabelInv, NextBatch
    PROVE  StreamInv'
<1> USE DEF StreamFacts
<1>1. config' = config /\ UNCHANGED <<indexVars, task, lost>> /\ main = "next"
  BY DEF NextBatch, indexVars
<1>2. ActiveWindow \in Nat \ {0} /\ ConsolidateInterval \in Nat \ {0} /\ start \in Nat
  BY StreamNumbers DEF StreamInv, StreamTypeOK
<1>3. BatchEnd \in Nat \ {0} /\ BatchEnd >= start
  BY <1>2 DEF BatchEnd
<1> DEFINE Rest == TaskInv /\ LaunchInv /\ WindowInv
<1>4. /\ Proper /\ Proper' /\ BatchInv
      /\ MaxPointsToInsert' = MaxPointsToInsert /\ MaxPointsToInsert \in Nat
  BY <1>1, SameCall, StreamNumbers DEF StreamInv
<1>5. CASE BatchEnd + ConsolidateInterval <= MaxPointsToInsert
  <2>1. /\ start' = BatchEnd /\ pending' = BatchEnd .. BatchEnd + ConsolidateInterval - 1
        /\ main' = "insert"
    BY <1>5 DEF NextBatch
  <2>2. StreamTypeOK'
    <3>1. pending' \subseteq Nat /\ start' \in Nat
      BY <1>2, <1>3, <2>1
    <3> QED
      BY <1>1, <2>1, <3>1 DEF StreamInv, StreamTypeOK
  <2>3. BatchEnd' = BatchEnd + ConsolidateInterval
    BY <1>3, <2>1 DEF BatchEnd
  <2>4. start' = ActiveWindow \/ start' >= ActiveWindow + ConsolidateInterval
    BY <1>2, <1>4, <2>1 DEF BatchEnd, BatchInv
  <2>5. BatchInv'
    BY <1>2, <1>3, <1>5, <1>4, <2>1, <2>3, <2>4 DEF BatchInv
  <2>6. ASSUME ~lost' PROVE Rest'
    <3>1. TaskInv /\ LaunchInv /\ WindowInv
      BY <1>1, <1>4, <2>6 DEF StreamInv
    <3>2. Inserted' = Inserted
      <4>1. Inserted = 0 .. BatchEnd - 1
        BY <1>1, <1>4 DEF Inserted, BatchInv
      <4>2. Inserted' = (0 .. BatchEnd + ConsolidateInterval - 1) \ (BatchEnd .. BatchEnd + ConsolidateInterval - 1)
        <5>1. Inserted' = (0 .. BatchEnd' - 1) \ pending'
          BY <2>1 DEF Inserted
        <5> QED
          BY <1>2, <1>3, <2>1, <2>3, <5>1
      <4> QED
        BY <1>2, <1>3, <4>1, <4>2
    <3>3. WindowInv'
      BY <1>1, <3>1, <3>2, WindowSame DEF Erased, Reclaimed
    <3>4. TaskInv'
      <4>1. task # None => task.last \in Int
        BY DEF StreamInv, StreamTypeOK
      <4> QED
        BY <1>1, <1>2, <1>3, <2>1, <3>1, <4>1 DEF TaskInv
    <3>5. LaunchInv'
      <4>1. start = 0 \/ start = ActiveWindow \/ start >= ActiveWindow + ConsolidateInterval
        BY <1>4 DEF BatchInv
      <4>2. start' = IF start = 0 THEN ActiveWindow ELSE start + ConsolidateInterval
        BY <2>1 DEF BatchEnd
      <4>3. IF start < ActiveWindow + ConsolidateInterval THEN task = None
            ELSE task # None /\ task.last = start - ActiveWindow
        BY <1>1, <3>1 DEF LaunchInv, NoTaskYet
      <4>4. IF start' <= ActiveWindow + ConsolidateInterval THEN task' = None
            ELSE task' # None /\ task'.last = start' - ConsolidateInterval - ActiveWindow
        BY <1>1, <1>2, <4>1, <4>2, <4>3
      <4> QED
        BY <2>1, <4>4 DEF LaunchInv
    <3> QED
      BY <3>3, <3>4, <3>5
  <2> QED
    BY <1>4, <2>2, <2>5, <2>6 DEF StreamInv
<1>6. CASE ~(BatchEnd + ConsolidateInterval <= MaxPointsToInsert)
  <2>1. main' = "last_wait" /\ UNCHANGED <<start, pending>>
    BY <1>6 DEF NextBatch
  <2>2. StreamTypeOK'
    BY <1>1, <2>1 DEF StreamInv, StreamTypeOK
  <2>3. BatchEnd' = BatchEnd
    BY <2>1 DEF BatchEnd
  <2>4. BatchInv'
    BY <1>1, <1>4, <2>1, <2>3 DEF BatchInv
  <2>5. ASSUME ~lost' PROVE Rest'
    <3>1. TaskInv /\ LaunchInv /\ WindowInv
      BY <1>1, <1>4, <2>5 DEF StreamInv
    <3>2. WindowInv'
      BY <1>1, <2>1, <2>3, <3>1, WindowSame DEF Erased, Reclaimed, Inserted
    <3>3. TaskInv' /\ LaunchInv'
      BY <1>1, <2>1, <3>1 DEF TaskInv, LaunchInv, NoTaskYet
    <3> QED
      BY <3>2, <3>3
  <2> QED
    BY <1>4, <2>2, <2>4, <2>5 DEF StreamInv
<1> QED
  BY <1>5, <1>6

\* A tag that is present is a tag.
LEMMA PresentTags ==
    ASSUME TagsOnce
    PROVE  Present \subseteq Tags
BY DEF TagsOnce, Present, Live

\* What the index's invariant says of the tags.
LEMMA LabelledTagsOnce ==
    ASSUME LabelInv
    PROVE  /\ TagsOnce /\ config \in Configs
           /\ empty_slots \subseteq Slots /\ IsFiniteSet(delete_set) /\ nd \in Nat
           /\ Live \cap delete_set = {}
<1>1. IsFiniteSet(Slots)
  <2>1. config \in Configs
    BY DEF LabelInv, LabelTypeOK
  <2>2. MaxPoints - 1 \in Int /\ 0 \in Int
    BY <2>1, ConfigType
  <2> QED
    BY <2>2, FS_Interval DEF Slots
<1> QED
  BY <1>1, FS_Subset DEF LabelInv, LabelTypeOK, SlotsApart, TagsOnce

\* The points inserted are finitely many.
LEMMA InsertedFinite ==
    ASSUME start \in Nat, config \in Configs, config.user = "streaming"
    PROVE  IsFiniteSet(Inserted) /\ Cardinality(Inserted) \in Nat /\ BatchEnd \in Nat
<1>1. BatchEnd \in Nat
  BY StreamNumbers DEF BatchEnd
<1>2. IsFiniteSet(0 .. BatchEnd - 1)
  BY <1>1, FS_Interval
<1>3. Inserted \subseteq 0 .. BatchEnd - 1
  BY DEF Inserted
<1> QED
  BY <1>1, <1>2, <1>3, FS_Subset, FS_CardinalityType

\* A point of the batch gets a slot that is free.
LEMMA InsertKeepsStream ==
    ASSUME StreamFacts, LabelInv, NEW j \in pending, InsertNext(j)
    PROVE  LabelInv' /\ StreamInv'
<1> USE DEF StreamFacts
<1>1. /\ main = "insert" /\ InsertPoint(j + 1, LabelsOf(j)) /\ pending' = pending \ {j}
      /\ UNCHANGED <<main, start, task, lost>>
  BY DEF InsertNext
<1>2. config' = config
  BY <1>1 DEF InsertPoint
<1>3. /\ Proper /\ Proper' /\ BatchInv /\ start \in Nat /\ pending \subseteq Nat
      /\ MaxPointsToInsert' = MaxPointsToInsert
  BY <1>1, <1>2, SameCall DEF StreamInv, StreamTypeOK
<1>4. /\ ActiveWindow \in Nat \ {0} /\ ConsolidateInterval \in Nat \ {0}
      /\ MaxPointsToInsert \in Nat /\ Len(FileLabels) \in Nat
      /\ MaxPointsToInsert <= Len(FileLabels)
  BY <1>3, StreamNumbers
<1>5. /\ BatchEnd \in Nat /\ BatchEnd <= MaxPointsToInsert /\ j \in start .. BatchEnd - 1
      /\ BatchEnd' = BatchEnd
  BY <1>1, <1>3, <1>4 DEF BatchInv, BatchEnd
<1>6. j + 1 \in Tags /\ IsOffer(LabelsOf(j))
  <2>1. j + 1 \in 1 .. Len(FileLabels) /\ j - start + 1 \in 1 .. Len(FileLabels)
    BY <1>3, <1>4, <1>5
  <2> QED
    BY <2>1, StreamNumbers DEF LabelsOf
<1>7. LabelInv'
  BY <1>1, <1>6, InsertPointKeeps
<1>8. \A l \in Live : location_to_tag'[l] = location_to_tag[l]
  <2>1. PICK l \in empty_slots : location_to_tag' = [location_to_tag EXCEPT ![l] = j + 1]
    BY <1>1 DEF InsertPoint
  <2>2. Live \cap empty_slots = {} /\ Live \subseteq Slots
    BY DEF LabelInv, SlotsApart, Live
  <2>3. location_to_tag \in [Slots -> Tags \cup {NoTag}]
    BY DEF LabelInv, LabelTypeOK
  <2> QED
    BY <2>1, <2>2, <2>3
<1>9. Present' = Present \cup {j + 1} /\ nd' = nd + 1 /\ delete_set' = delete_set
  BY <1>1, <1>6, <1>8, LabelledTagsOnce, TagInserted
<1>10. StreamTypeOK' /\ BatchInv'
  <2>1. StreamTypeOK'
    BY <1>1, <1>2 DEF StreamInv, StreamTypeOK
  <2>2. BatchInv'
    BY <1>1, <1>3, <1>5 DEF BatchInv
  <2> QED
    BY <2>1, <2>2
<1>11. ASSUME ~lost' PROVE TaskInv' /\ LaunchInv' /\ WindowInv'
  <2>1. TaskInv /\ LaunchInv /\ WindowInv
    BY <1>1, <1>3, <1>11 DEF StreamInv
  <2>2. TaskInv' /\ LaunchInv'
    BY <1>1, <2>1 DEF TaskInv, LaunchInv, NoTaskYet
  <2>3. Inserted' = Inserted \cup {j} /\ j \notin Inserted
    BY <1>1, <1>3, <1>5 DEF Inserted
  <2>4. Cardinality(Inserted') = Cardinality(Inserted) + 1 /\ Cardinality(Inserted) \in Nat
    BY <1>3, <2>3, InsertedFinite, FS_AddElement
  <2>5. Erased' = Erased /\ Reclaimed' = Reclaimed
    BY <1>1 DEF Erased, Reclaimed
  <2>6. Erased \in Int /\ Reclaimed \in Int /\ Erased <= j
    <3>1. task # None => task \in [first : Int, last : Int, step : {"launched", "delete", "over"}]
      BY DEF StreamInv, StreamTypeOK
    <3> QED
      BY <1>3, <1>4, <1>5, <2>1, <3>1 DEF Erased, Reclaimed, TaskInv
  <2>7. Present' = {i + 1 : i \in {k \in Inserted' : Erased' <= k}}
    BY <1>9, <2>1, <2>3, <2>5, <2>6 DEF WindowInv
  <2>8. nd' + Reclaimed' = Cardinality(Inserted')
    BY <1>9, <2>1, <2>4, <2>5, <2>6, LabelledTagsOnce DEF WindowInv
  <2>9. Cardinality(delete_set') = Erased' - Reclaimed'
    BY <1>9, <2>1, <2>5 DEF WindowInv
  <2> QED
    BY <2>2, <2>7, <2>8, <2>9 DEF WindowInv
<1> QED
  BY <1>1, <1>3, <1>7, <1>10, <1>11 DEF StreamInv

\* The index is never full when a point is inserted: the slots of all but the last
\* three intervals have come back.
LEMMA NeverFull ==
    ASSUME StreamFacts, LabelInv, Proper, ~lost, NEW j \in pending,
           main = "insert", nd = MaxPoints
    PROVE  FALSE
<1> USE DEF StreamFacts
<1>1. main = "insert" /\ nd = MaxPoints /\ ~lost /\ Proper
  OBVIOUS
<1>2. BatchInv /\ start \in Nat /\ pending \subseteq Nat
  BY <1>1 DEF StreamInv, StreamTypeOK
<1>3. TaskInv /\ LaunchInv /\ WindowInv
  BY <1>1, <1>2 DEF StreamInv
<1>4. ActiveWindow \in Nat \ {0} /\ ConsolidateInterval \in Nat \ {0} /\ BatchEnd \in Nat
  BY <1>2, StreamNumbers, InsertedFinite
<1>5. j \in 0 .. BatchEnd - 1
  BY <1>1, <1>2, <1>4 DEF BatchInv
<1>6. Cardinality(Inserted) < BatchEnd /\ Cardinality(Inserted) \in Nat
  <2>1. Inserted \subseteq 0 .. BatchEnd - 1 /\ j \notin Inserted
    BY <1>1 DEF Inserted
  <2>2. IsFiniteSet(0 .. BatchEnd - 1) /\ Cardinality(0 .. BatchEnd - 1) = BatchEnd
    BY <1>4, FS_Interval
  <2>3. /\ Cardinality(Inserted) <= BatchEnd
        /\ Cardinality(Inserted) = BatchEnd => Inserted = 0 .. BatchEnd - 1
    BY <2>1, <2>2, FS_Subset
  <2> QED
    BY <1>2, <1>4, <1>5, <2>1, <2>3, InsertedFinite
<1>7. nd = ActiveWindow + 4 * ConsolidateInterval
  BY <1>1 DEF StreamInv, StreamTypeOK, MaxPoints, Capacity
<1>8. nd + Reclaimed = Cardinality(Inserted)
  BY <1>3 DEF WindowInv
<1>9. CASE task = None
  <2>1. BatchEnd <= ActiveWindow + 2 * ConsolidateInterval
    BY <1>1, <1>2, <1>3, <1>4, <1>9 DEF LaunchInv, BatchEnd
  <2>2. Reclaimed = 0
    BY <1>9 DEF Reclaimed
  <2> QED
    BY <1>4, <1>6, <1>7, <1>8, <2>1, <2>2
<1>10. CASE task # None
  <2>1. start > ActiveWindow + ConsolidateInterval
        /\ task.last = start - ConsolidateInterval - ActiveWindow
    BY <1>1, <1>2, <1>3, <1>4, <1>10 DEF LaunchInv
  <2>2. BatchEnd = start + ConsolidateInterval
    BY <1>2, <1>4, <2>1 DEF BatchEnd
  <2>3. Reclaimed \in Int /\ Reclaimed >= start - 2 * ConsolidateInterval - ActiveWindow
    BY <1>2, <1>4, <1>10, <2>1 DEF Reclaimed
  <2> QED
    BY <1>2, <1>4, <1>6, <1>7, <1>8, <2>2, <2>3
<1> QED
  BY <1>9, <1>10

\* So the step that finds it full is one of a run that has lost a range.
LEMMA FullKeepsStream ==
    ASSUME StreamFacts, LabelInv, NEW j \in pending, InsertFull(j)
    PROVE  StreamInv'
<1> USE DEF StreamFacts
<1>1. /\ main = "insert" /\ nd = MaxPoints /\ main' = "end"
      /\ UNCHANGED <<indexVars, start, pending, task, lost>>
  BY DEF InsertFull
<1>2. config' = config
  BY <1>1 DEF indexVars
<1>3. /\ Proper /\ Proper' /\ BatchInv /\ start \in Nat /\ pending \subseteq Nat
      /\ MaxPointsToInsert' = MaxPointsToInsert /\ BatchEnd' = BatchEnd
  BY <1>1, <1>2, SameCall DEF StreamInv, StreamTypeOK, BatchEnd
<1>4. StreamTypeOK' /\ BatchInv'
  BY <1>1, <1>2, <1>3 DEF StreamInv, StreamTypeOK, BatchInv
<1>5. ASSUME ~lost PROVE FALSE
  BY <1>1, <1>3, <1>5, NeverFull
<1> QED
  BY <1>1, <1>3, <1>4, <1>5 DEF StreamInv

\* A task gets the range before the window; the task before it is over.
LEMMA LaunchKeepsStream ==
    ASSUME StreamFacts, LabelInv, Launch
    PROVE  StreamInv'
<1> USE DEF StreamFacts
<1>1. /\ main = "launch" /\ main' = "in_block" /\ UNCHANGED <<indexVars, start, pending, lost>>
      /\ task' = [first |-> start - ActiveWindow - ConsolidateInterval,
                  last |-> start - ActiveWindow, step |-> "launched"]
  BY DEF Launch
<1>2. config' = config
  BY <1>1 DEF indexVars
<1>3. /\ Proper /\ Proper' /\ BatchInv /\ start \in Nat
      /\ MaxPointsToInsert' = MaxPointsToInsert /\ BatchEnd' = BatchEnd
      /\ ActiveWindow \in Nat \ {0} /\ ConsolidateInterval \in Nat \ {0}
  BY <1>1, <1>2, SameCall, StreamNumbers DEF StreamInv, StreamTypeOK, BatchEnd
<1>4. /\ task' # None
      /\ task' \in [first : Int, last : Int, step : {"launched", "delete", "over"}]
  BY <1>1, <1>3, TaskRecord
<1>5. StreamTypeOK' /\ BatchInv'
  BY <1>1, <1>2, <1>3, <1>4 DEF StreamInv, StreamTypeOK, BatchInv
<1>6. ASSUME ~lost' PROVE TaskInv' /\ LaunchInv' /\ WindowInv'
  <2>1. TaskInv /\ LaunchInv /\ WindowInv
    BY <1>1, <1>3, <1>6 DEF StreamInv
  <2>2. start >= ActiveWindow + ConsolidateInterval
    BY <1>1, <1>3, <2>1 DEF LaunchInv, NoTaskYet
  <2>3. /\ Erased' = start - ActiveWindow - ConsolidateInterval
        /\ Reclaimed' = start - ActiveWindow - ConsolidateInterval
    BY <1>1, <1>3, <1>4 DEF Erased, Reclaimed
  <2>4. Erased = Erased' /\ Reclaimed = Reclaimed'
    BY <1>1, <1>3, <2>1, <2>3 DEF LaunchInv, TaskInv, Erased, Reclaimed
  <2>5. Inserted' = Inserted
    BY <1>1, <1>3 DEF Inserted
  <2>6. WindowInv'
    BY <1>1, <2>1, <2>4, <2>5, WindowSame
  <2>7. TaskInv'
    BY <1>1, <1>3, <2>2 DEF TaskInv
  <2>8. LaunchInv'
    BY <1>1, <1>3, <1>4, <2>2 DEF LaunchInv, NoTaskYet
  <2> QED
    BY <2>6, <2>7, <2>8
<1> QED
  BY <1>1, <1>3, <1>5, <1>6 DEF StreamInv

\* A task that has kept its range begins with it.
LEMMA BeginKeepsStream ==
    ASSUME StreamFacts, LabelInv, TaskBegin
    PROVE  StreamInv'
<1> USE DEF StreamFacts
<1>1. PICK range \in {<<task.first, task.last>>, <<0, 0>>, <<0, MaxPointsToInsert>>} :
         /\ task' = [first |-> range[1], last |-> range[2], step |-> "delete"]
         /\ lost' = (lost \/ range # <<task.first, task.last>>)
  BY DEF TaskBegin
<1>2. /\ task # None /\ task.step = "launched" /\ UNCHANGED <<indexVars, main, start, pending>>
      /\ config' = config
  BY DEF TaskBegin, indexVars
<1>3. /\ task.first \in Int /\ task.last \in Int /\ start \in Nat /\ lost \in BOOLEAN
      /\ MaxPointsToInsert \in Nat /\ ActiveWindow \in Nat \ {0} /\ ConsolidateInterval \in Nat \ {0}
  BY <1>2, StreamNumbers DEF StreamInv, StreamTypeOK
<1>4. range[1] \in Int /\ range[2] \in Int /\ lost' \in BOOLEAN
  BY <1>1, <1>3
<1>5. /\ task' # None
      /\ task' \in [first : Int, last : Int, step : {"launched", "delete", "over"}]
  BY <1>1, <1>4, TaskRecord
<1>6. /\ (Proper' <=> Proper) /\ MaxPointsToInsert' = MaxPointsToInsert /\ BatchEnd' = BatchEnd
  BY <1>2, SameCall DEF BatchEnd
<1>7. StreamTypeOK'
  BY <1>2, <1>4, <1>5 DEF StreamInv, StreamTypeOK
<1>8. ASSUME Proper PROVE BatchInv'
  BY <1>2, <1>6, <1>8 DEF StreamInv, BatchInv
<1>9. ASSUME Proper, ~lost' PROVE TaskInv' /\ LaunchInv' /\ WindowInv'
  <2>1. TaskInv /\ LaunchInv /\ WindowInv /\ range = <<task.first, task.last>>
    BY <1>1, <1>3, <1>9 DEF StreamInv
  <2>2. task' = [first |-> task.first, last |-> task.last, step |-> "delete"]
    BY <1>1, <2>1
  <2>3. Inserted' = Inserted
    BY <1>2, <1>6 DEF Inserted
  <2>4. Erased' = Erased /\ Reclaimed' = Reclaimed
    BY <1>2, <1>5, <2>2 DEF Erased, Reclaimed
  <2>5. WindowInv'
    BY <1>2, <2>1, <2>3, <2>4, WindowSame
  <2>6. TaskInv'
    BY <1>2, <2>1, <2>2 DEF TaskInv
  <2>7. LaunchInv'
    BY <1>2, <1>5, <2>1, <2>2 DEF LaunchInv, NoTaskYet, TaskOver
  <2> QED
    BY <2>5, <2>6, <2>7
<1> QED
  BY <1>2, <1>6, <1>7, <1>8, <1>9 DEF StreamInv

\* What the task deletes has been inserted, so it is there.
LEMMA DeleteKeepsStream ==
    ASSUME StreamFacts, LabelInv, TaskDelete
    PROVE  LabelInv' /\ StreamInv'
<1> USE DEF StreamFacts
<1>1. /\ task # None /\ task.step = "delete" /\ task.first < task.last
      /\ LazyDelete(task.first + 1) \/ DeleteAbsent(task.first + 1)
      /\ task' = [task EXCEPT !.first = @ + 1]
      /\ UNCHANGED <<main, start, pending, lost>>
  BY DEF TaskDelete
<1>2. config' = config
  BY <1>1 DEF LazyDelete, DeleteAbsent
<1>3. LabelInv'
  <2>1. LazyDelete(task.first + 1) => task.first + 1 \in Tags
    BY LabelledTagsOnce, PresentTags DEF LazyDelete
  <2> QED
    BY <1>1, <2>1, LazyDeleteKeeps, DeleteAbsentKeeps
<1>4. /\ task = [first |-> task.first, last |-> task.last, step |-> "delete"]
      /\ task.first \in Int /\ task.last \in Int /\ start \in Nat /\ pending \subseteq Nat
      /\ ActiveWindow \in Nat \ {0} /\ ConsolidateInterval \in Nat \ {0}
  BY <1>1, StreamNumbers DEF StreamInv, StreamTypeOK
<1>5. task' = [first |-> task.first + 1, last |-> task.last, step |-> "delete"]
  BY <1>1, <1>4
<1>6. /\ task' # None
      /\ task' \in [first : Int, last : Int, step : {"launched", "delete", "over"}]
  BY <1>4, <1>5, TaskRecord
<1>7. /\ (Proper' <=> Proper) /\ MaxPointsToInsert' = MaxPointsToInsert /\ BatchEnd' = BatchEnd
  BY <1>1, <1>2, SameCall DEF BatchEnd
<1>8. StreamTypeOK'
  BY <1>1, <1>2, <1>6 DEF StreamInv, StreamTypeOK
<1>9. ASSUME Proper PROVE BatchInv'
  BY <1>1, <1>7, <1>9 DEF StreamInv, BatchInv
<1>10. ASSUME Proper, ~lost' PROVE TaskInv' /\ LaunchInv' /\ WindowInv'
  <2>1. BatchInv /\ TaskInv /\ LaunchInv /\ WindowInv
    BY <1>1, <1>10 DEF StreamInv
  <2>2. TaskInv'
    BY <1>1, <1>4, <1>5, <2>1 DEF TaskInv
  <2>3. LaunchInv'
    BY <1>1, <1>5, <1>6, <2>1 DEF LaunchInv, NoTaskYet, TaskOver
  <2>4. Inserted' = Inserted
    BY <1>1, <1>7 DEF Inserted
  <2>5. /\ Erased = task.first /\ Erased' = task.first + 1
        /\ Reclaimed = task.last - ConsolidateInterval /\ Reclaimed' = Reclaimed
    BY <1>1, <1>4, <1>5, <1>6 DEF Erased, Reclaimed
  <2>6. task.first \in Inserted
    <3>1. BatchEnd \in Nat /\ BatchEnd >= start
      BY <1>4 DEF BatchEnd
    <3>2. task.first \in 0 .. BatchEnd - 1 /\ task.first < start
      BY <1>1, <1>4, <2>1, <3>1 DEF TaskInv
    <3>3. task.first \notin pending
      BY <1>1, <1>4, <2>1, <3>1, <3>2 DEF BatchInv, LaunchInv
    <3> QED
      BY <1>1, <2>1, <3>2, <3>3 DEF Inserted, BatchInv
  <2>7. task.first + 1 \in Present
    BY <1>4, <2>1, <2>5, <2>6 DEF WindowInv
  <2>8. LazyDelete(task.first + 1)
    BY <1>1, <2>7 DEF DeleteAbsent
  <2>9. /\ Present' = Present \ {task.first + 1} /\ nd' = nd
        /\ \E l \in Live : delete_set' = delete_set \cup {l}
    BY <2>8, LabelledTagsOnce, TagDeleted
  <2>10. Present' = {i + 1 : i \in {k \in Inserted' : Erased' <= k}}
    <3>1. Inserted \subseteq Int
      BY <1>4, StreamNumbers DEF Inserted, BatchEnd
    <3> QED
      BY <1>4, <2>1, <2>4, <2>5, <2>9, <3>1 DEF WindowInv
  <2>11. nd' + Reclaimed' = Cardinality(Inserted')
    BY <2>1, <2>4, <2>5, <2>9 DEF WindowInv
  <2>12. Cardinality(delete_set') = Erased' - Reclaimed'
    <3>1. PICK l \in Live : delete_set' = delete_set \cup {l}
      BY <2>9
    <3>2. l \notin delete_set /\ IsFiniteSet(delete_set)
      BY LabelledTagsOnce
    <3>3. Cardinality(delete_set') = Cardinality(delete_set) + 1
      BY <3>1, <3>2, FS_AddElement
    <3> QED
      BY <1>4, <2>1, <2>5, <3>3 DEF WindowInv
  <2> QED
    BY <2>2, <2>3, <2>10, <2>11, <2>12 DEF WindowInv
<1> QED
  BY <1>1, <1>3, <1>7, <1>8, <1>9, <1>10 DEF StreamInv

\* The consolidation gives back the slots of the whole interval.
LEMMA ReclaimKeepsStream ==
    ASSUME StreamFacts, LabelInv, TaskConsolidate
    PROVE  LabelInv' /\ StreamInv'
<1> USE DEF StreamFacts
<1>1. /\ task # None /\ task.step = "delete" /\ task.first = task.last
      /\ task' = [task EXCEPT !.step = "over"]
      /\ IF delete_set = {} THEN UNCHANGED indexVars ELSE Consolidate
      /\ UNCHANGED <<main, start, pending, lost>>
  BY DEF TaskConsolidate
<1>2. UNCHANGED <<config, location_to_tag>>
  BY <1>1 DEF Consolidate, indexVars, slotVars
<1>3. LabelInv'
  <2>1. CASE UNCHANGED indexVars
    BY <2>1, LabelInvNext
  <2>2. CASE Consolidate
    BY <2>2, ConsolidateKeeps
  <2> QED
    BY <1>1, <2>1, <2>2
<1>4. /\ task = [first |-> task.first, last |-> task.last, step |-> "delete"]
      /\ task.first \in Int /\ task.last \in Int /\ start \in Nat
      /\ ActiveWindow \in Nat \ {0} /\ ConsolidateInterval \in Nat \ {0}
  BY <1>1, StreamNumbers DEF StreamInv, StreamTypeOK
<1>5. task' = [first |-> task.first, last |-> task.last, step |-> "over"]
  BY <1>1, <1>4
<1>6. /\ task' # None
      /\ task' \in [first : Int, last : Int, step : {"launched", "delete", "over"}]
  BY <1>4, <1>5, TaskRecord
<1>7. /\ (Proper' <=> Proper) /\ MaxPointsToInsert' = MaxPointsToInsert /\ BatchEnd' = BatchEnd
  BY <1>1, <1>2, SameCall DEF BatchEnd
<1>8. StreamTypeOK'
  BY <1>1, <1>2, <1>6 DEF StreamInv, StreamTypeOK
<1>9. ASSUME Proper PROVE BatchInv'
  BY <1>1, <1>7, <1>9 DEF StreamInv, BatchInv
<1>10. ASSUME Proper, ~lost' PROVE TaskInv' /\ LaunchInv' /\ WindowInv'
  <2>1. TaskInv /\ LaunchInv /\ WindowInv
    BY <1>1, <1>10 DEF StreamInv
  <2>2. TaskInv'
    BY <1>1, <1>4, <1>5, <2>1 DEF TaskInv
  <2>3. LaunchInv'
    BY <1>1, <1>5, <1>6, <2>1 DEF LaunchInv, NoTaskYet, TaskOver
  <2>4. Inserted' = Inserted
    BY <1>1, <1>7 DEF Inserted
  <2>5. /\ Erased = task.last /\ Erased' = task.last
        /\ Reclaimed = task.last - ConsolidateInterval /\ Reclaimed' = task.last
    BY <1>1, <1>4, <1>5, <1>6 DEF Erased, Reclaimed
  <2>6. Cardinality(delete_set) = ConsolidateInterval
    BY <1>4, <2>1, <2>5 DEF WindowInv
  <2>7. delete_set # {}
    BY <1>4, <2>6, FS_EmptySet
  <2>8. nd' = nd - ConsolidateInterval /\ delete_set' = {}
    BY <1>1, <2>6, <2>7 DEF Consolidate
  <2>9. Present' = Present
    BY <1>2, TagsUntouched
  <2>10. nd' + Reclaimed' = Cardinality(Inserted')
    BY <1>4, <2>1, <2>4, <2>5, <2>8, LabelledTagsOnce DEF WindowInv
  <2>11. Cardinality(delete_set') = Erased' - Reclaimed'
    BY <1>4, <2>5, <2>8, FS_EmptySet
  <2> QED
    BY <2>1, <2>2, <2>3, <2>4, <2>5, <2>9, <2>10, <2>11 DEF WindowInv
<1> QED
  BY <1>1, <1>3, <1>7, <1>8, <1>9, <1>10 DEF StreamInv

\* The last save keeps the points.
LEMMA SaveKeepsStream ==
    ASSUME StreamFacts, LabelInv, SaveWindow
    PROVE  LabelInv' /\ StreamInv'
<1> USE DEF StreamFacts
<1>1. /\ main = "save" /\ main' = "end" /\ UNCHANGED <<start, pending, task, lost>>
      /\ Save \/ UNCHANGED indexVars
  BY DEF SaveWindow
<1>2. LabelInv'
  BY <1>1, SaveKeeps, LabelInvNext
<1>3. Present' = Present /\ UNCHANGED <<config, nd, delete_set>>
  <2>1. CASE Save
    BY <2>1, TagsSaved
  <2>2. CASE UNCHANGED indexVars
    BY <2>2, TagsUntouched DEF indexVars, slotVars
  <2> QED
    BY <1>1, <2>1, <2>2
<1>4. /\ Proper /\ Proper' /\ BatchInv /\ MaxPointsToInsert' = MaxPointsToInsert /\ BatchEnd' = BatchEnd
  BY <1>1, <1>3, SameCall DEF StreamInv, BatchEnd
<1>5. StreamTypeOK' /\ BatchInv'
  BY <1>1, <1>3, <1>4 DEF StreamInv, StreamTypeOK, BatchInv
<1>6. ASSUME ~lost' PROVE TaskInv' /\ LaunchInv' /\ WindowInv'
  <2>1. TaskInv /\ LaunchInv /\ WindowInv
    BY <1>1, <1>4, <1>6 DEF StreamInv
  <2>2. TaskInv' /\ LaunchInv'
    BY <1>1, <2>1 DEF TaskInv, LaunchInv, NoTaskYet, TaskOver
  <2>3. Inserted' = Inserted /\ Erased' = Erased /\ Reclaimed' = Reclaimed
    BY <1>1, <1>4 DEF Inserted, Erased, Reclaimed
  <2> QED
    BY <1>3, <2>1, <2>2, <2>3 DEF WindowInv
<1> QED
  BY <1>1, <1>2, <1>4, <1>5, <1>6 DEF StreamInv

\* The window before the first step.
LEMMA StreamInvInit ==
    ASSUME FilteredInit, config.user = "streaming"
    PROVE  LabelInv /\ StreamInv
<1>1. /\ StreamInit /\ IndexInit /\ config.max_points = Capacity /\ config \in Configs
  BY DEF FilteredInit, Init, StreamInit, IndexInit
<1>2. LabelInv
  BY <1>1, LabelInvInit
<1>3. /\ main = "start" /\ start = 0 /\ pending = {} /\ task = None /\ lost = FALSE
  BY <1>1 DEF StreamInit
<1>4. config.call.max_points \in Nat
  BY <1>1, StreamAssumption
<1>5. StreamTypeOK
  BY <1>1, <1>3, <1>4 DEF StreamTypeOK
<1>6. BatchInv /\ TaskInv /\ LaunchInv
  BY <1>3 DEF BatchInv, TaskInv, LaunchInv
<1>7. WindowInv
  <2>1. Present = {} /\ nd = 0 /\ delete_set = {}
    BY <1>1 DEF IndexInit, Present, Live
  <2>2. Inserted = {} /\ Erased = 0 /\ Reclaimed = 0
    BY <1>3 DEF Inserted, Erased, Reclaimed
  <2> QED
    BY <2>1, <2>2, FS_EmptySet DEF WindowInv
<1> QED
  BY <1>2, <1>3, <1>5, <1>6, <1>7 DEF StreamInv

LEMMA StreamInvNext ==
    ASSUME StreamFacts, LabelInv, StreamNext
    PROVE  LabelInv' /\ StreamInv'
<1>1. ASSUME UNCHANGED indexVars PROVE LabelInv'
  BY <1>1, LabelInvNext
<1>2. CASE RefuseStream \/ StartStream
  BY <1>1, <1>2, StartKeepsStream DEF RefuseStream, StartStream
<1>3. ASSUME NEW j \in pending, InsertNext(j) PROVE LabelInv' /\ StreamInv'
  BY <1>3, InsertKeepsStream
<1>4. ASSUME NEW j \in pending, InsertFull(j) PROVE LabelInv' /\ StreamInv'
  BY <1>1, <1>4, FullKeepsStream DEF InsertFull
<1>5. CASE AfterBatch \/ LeaveBlock \/ LastWait
  BY <1>1, <1>5, MainKeepsStream DEF AfterBatch, LeaveBlock, LastWait
<1>6. CASE Launch
  BY <1>1, <1>6, LaunchKeepsStream DEF Launch
<1>7. CASE NextBatch
  BY <1>1, <1>7, NextBatchKeepsStream DEF NextBatch
<1>8. CASE SaveWindow
  BY <1>8, SaveKeepsStream
<1>9. CASE TaskBegin
  BY <1>1, <1>9, BeginKeepsStream DEF TaskBegin
<1>10. CASE TaskDelete
  BY <1>10, DeleteKeepsStream
<1>11. CASE TaskConsolidate
  BY <1>11, ReclaimKeepsStream
<1> QED
  BY <1>2, <1>3, <1>4, <1>5, <1>6, <1>7, <1>8, <1>9, <1>10, <1>11 DEF StreamNext

\* The steps that neither end the run nor save leave an index that does not count as
\* compacted as such.
LEMMA FileInvNext ==
    ASSUME StreamFacts, LabelInv, FileInv, StreamInv', StreamNext
    PROVE  FileInv'
<1> USE DEF StreamFacts
<1>1. SUFFICES ASSUME Proper', ~lost', Erased' > 0
               PROVE  IF main' = "end" THEN delete_set' = {} /\ TagsInFile' = Present'
                      ELSE ~data_compacted'
  BY DEF FileInv
<1>2. config' = config
  BY DEF StreamNext, RefuseStream, StartStream, InsertNext, InsertFull, InsertPoint,
         AfterBatch, Launch, LeaveBlock, NextBatch, LastWait, SaveWindow, Save, TaskBegin,
         TaskDelete, LazyDelete, DeleteAbsent, TaskConsolidate, Consolidate, indexVars
<1>3. Proper
  BY <1>1, <1>2, SameCall
<1>4. ASSUME ~lost PROVE TaskInv /\ LaunchInv /\ WindowInv /\ start \in Nat
  BY <1>3, <1>4 DEF StreamInv, StreamTypeOK
<1>5. ASSUME ~lost, data_compacted' = data_compacted, Erased' = Erased, main # "end", main' # "end"
      PROVE  ~data_compacted'
  BY <1>1, <1>3, <1>5 DEF FileInv
<1>6. CASE StartStream \/ AfterBatch \/ LeaveBlock \/ NextBatch \/ LastWait
  <2>1. UNCHANGED <<data_compacted, lost, task>> /\ main # "end" /\ main' # "end"
    BY <1>6 DEF StartStream, AfterBatch, LeaveBlock, NextBatch, LastWait, indexVars, slotVars
  <2>2. Erased' = Erased
    BY <2>1 DEF Erased
  <2> QED
    BY <1>1, <1>5, <2>1, <2>2
<1>7. ASSUME NEW j \in pending, InsertNext(j)
      PROVE  ~data_compacted' /\ main' # "end"
  <2>1. UNCHANGED <<data_compacted, lost, task>> /\ main # "end" /\ main' # "end"
    BY <1>7 DEF InsertNext, InsertPoint
  <2>2. Erased' = Erased
    BY <2>1 DEF Erased
  <2> QED
    BY <1>1, <1>5, <2>1, <2>2
<1>8. ASSUME NEW j \in pending, InsertFull(j) PROVE FALSE
  BY <1>1, <1>3, <1>8, NeverFull DEF InsertFull
<1>9. CASE Launch
  <2>1. /\ main = "launch" /\ main' # "end" /\ UNCHANGED <<data_compacted, lost>>
        /\ task' = [first |-> start - ActiveWindow - ConsolidateInterval,
                    last |-> start - ActiveWindow, step |-> "launched"]
    BY <1>9 DEF Launch, indexVars, slotVars
  <2>2. TaskInv /\ LaunchInv /\ start \in Nat /\ ActiveWindow \in Nat /\ ConsolidateInterval \in Nat
    BY <1>1, <1>4, <2>1, StreamAssumption
  <2>3. task' # None /\ task'.first = start - ActiveWindow - ConsolidateInterval
    <3>1. start - ActiveWindow - ConsolidateInterval \in Int /\ start - ActiveWindow \in Int
      BY <2>2
    <3> QED
      BY <2>1, <3>1, TaskRecord
  <2>4. Erased' = start - ActiveWindow - ConsolidateInterval
    BY <2>3 DEF Erased
  <2>5. task # None /\ task.last = start - ConsolidateInterval - ActiveWindow /\ task.step = "over"
    BY <1>1, <2>1, <2>2, <2>4 DEF LaunchInv
  <2>6. task.first = task.last
    BY <2>2, <2>5 DEF TaskInv
  <2>7. Erased' = Erased
    BY <2>2, <2>4, <2>5, <2>6 DEF Erased
  <2> QED
    BY <1>1, <1>5, <2>1, <2>7
<1>10. CASE TaskBegin
  <2>1. /\ task # None /\ task.step = "launched" /\ UNCHANGED <<data_compacted, main>>
        /\ \E range \in {<<task.first, task.last>>, <<0, 0>>, <<0, MaxPointsToInsert>>} :
              /\ task' = [first |-> range[1], last |-> range[2], step |-> "delete"]
              /\ lost' = (lost \/ range # <<task.first, task.last>>)
    BY <1>10 DEF TaskBegin, indexVars, slotVars
  <2>2. ~lost /\ task' = [first |-> task.first, last |-> task.last, step |-> "delete"]
    <3>1. PICK range \in {<<task.first, task.last>>, <<0, 0>>, <<0, MaxPointsToInsert>>} :
             /\ task' = [first |-> range[1], last |-> range[2], step |-> "delete"]
             /\ lost' = (lost \/ range # <<task.first, task.last>>)
      BY <2>1
    <3>2. range = <<task.first, task.last>> /\ ~lost
      BY <1>1, <3>1
    <3>3. range[1] = task.first /\ range[2] = task.last
      BY <3>2
    <3> QED
      BY <1>1, <3>1, <3>2, <3>3
  <2>3. task' # None /\ task'.first = task.first
    BY <2>1, <2>2, TaskRecord DEF StreamInv, StreamTypeOK
  <2>4. Erased' = Erased
    BY <2>1, <2>3 DEF Erased
  <2>5. main # "end"
    BY <1>1, <1>4, <2>1, <2>2 DEF LaunchInv, TaskOver
  <2> QED
    BY <1>1, <1>5, <2>1, <2>2, <2>4, <2>5
<1>11. CASE TaskDelete
  <2>1. /\ task # None /\ task.step = "delete" /\ UNCHANGED <<main, lost>> /\ data_compacted' = FALSE
    BY <1>11 DEF TaskDelete, LazyDelete, DeleteAbsent
  <2>2. main # "end"
    BY <1>1, <1>4, <2>1 DEF LaunchInv, TaskOver
  <2> QED
    BY <2>1, <2>2
<1>12. CASE TaskConsolidate
  <2>1. /\ task # None /\ task.step = "delete" /\ UNCHANGED <<main, lost, data_compacted>>
        /\ task' = [task EXCEPT !.step = "over"]
    BY <1>12 DEF TaskConsolidate, Consolidate, indexVars, slotVars
  <2>2. task' = [first |-> task.first, last |-> task.last, step |-> "over"]
    BY <2>1 DEF StreamInv, StreamTypeOK
  <2>3. task' # None /\ task'.first = task.first
    BY <2>1, <2>2, TaskRecord DEF StreamInv, StreamTypeOK
  <2>4. Erased' = Erased
    BY <2>1, <2>3 DEF Erased
  <2>5. main # "end"
    BY <1>1, <1>4, <2>1 DEF LaunchInv, TaskOver
  <2> QED
    BY <1>1, <1>5, <2>1, <2>4, <2>5
<1>13. CASE SaveWindow
  <2>1. main = "save" /\ main' = "end" /\ UNCHANGED <<task, lost>>
    BY <1>13 DEF SaveWindow
  <2>2. Erased > 0 /\ ~data_compacted
    BY <1>1, <1>3, <2>1 DEF FileInv, Erased
  <2>3. delete_set = {}
    <3>1. TaskInv /\ LaunchInv /\ WindowInv
      BY <1>1, <1>4, <2>1
    <3>2. Erased = Reclaimed /\ Erased \in Int
      BY <2>1, <2>2, <3>1 DEF StreamInv, StreamTypeOK, Erased, Reclaimed, LaunchInv, TaskOver, TaskInv
    <3>3. Cardinality(delete_set) = 0
      BY <3>1, <3>2 DEF WindowInv
    <3>4. IsFiniteSet(delete_set)
      <4>1. MaxPoints \in Nat /\ delete_set \subseteq Slots
        BY ConfigType DEF LabelInv, LabelTypeOK
      <4>2. IsFiniteSet(Slots)
        BY <4>1, FS_Interval DEF Slots
      <4> QED
        BY <4>1, <4>2, FS_Subset
    <3> QED
      BY <3>3, <3>4, FS_EmptySet
  <2>4. Save
    BY <1>13, <2>3 DEF SaveWindow
  <2> QED
    BY <2>1, <2>2, <2>3, <2>4, TagsSaved
<1>14. CASE RefuseStream
  BY <1>3, <1>14 DEF RefuseStream, Proper
<1> QED
  BY <1>6, <1>7, <1>8, <1>9, <1>10, <1>11, <1>12, <1>13, <1>14
     DEF StreamNext, StartStream, AfterBatch, LeaveBlock, NextBatch, LastWait, Launch, TaskBegin,
         TaskDelete, TaskConsolidate

\* The invariant at the end of a run.
LEMMA StreamSaves ==
    ASSUME LabelInv, StreamInv, FileInv, config.user = "streaming"
    PROVE  WindowSaved
<1> DEFINE moved == start >= ActiveWindow + ConsolidateInterval
           first == IF moved THEN start - ActiveWindow ELSE 0
<1>1. SUFFICES ASSUME main = "end", Proper, ~lost
               PROVE  /\ Present = {j + 1 : j \in first .. BatchEnd - 1}
                      /\ moved => delete_set = {} /\ TagsInFile = Present
  BY DEF WindowSaved, Proper
<1>2. BatchInv /\ TaskInv /\ LaunchInv /\ WindowInv /\ start \in Nat
  BY <1>1 DEF StreamInv, StreamTypeOK
<1>3. /\ ActiveWindow \in Nat \ {0} /\ ConsolidateInterval \in Nat \ {0} /\ BatchEnd \in Nat
  BY <1>2, StreamNumbers, InsertedFinite DEF LabelInv, LabelTypeOK
<1>4. Inserted = 0 .. BatchEnd - 1
  BY <1>1, <1>2 DEF Inserted, LaunchInv
<1>5. Erased = first /\ first \in Nat
  BY <1>1, <1>2, <1>3 DEF Erased, LaunchInv, NoTaskYet, TaskInv, TaskOver
<1>6. {k \in Inserted : Erased <= k} = first .. BatchEnd - 1
  BY <1>3, <1>4, <1>5
<1>7. ASSUME moved PROVE delete_set = {} /\ TagsInFile = Present
  <2>1. Erased > 0
    BY <1>2, <1>3, <1>5, <1>7
  <2> QED
    BY <1>1, <2>1 DEF FileInv
<1> QED
  BY <1>2, <1>6, <1>7 DEF WindowInv
-----------------------------------------------------------------------------
(* The range.                                                              *)

\* A run on a file that has all the rows.
Whole == Call.data_type = "float" /\ Call.max_points > 0 /\ LastThreshold <= FileRows

\* Rows inserted so far, and the row the eraser comes to next.
RowsIn ==
    IF At("begin") THEN {}
    ELSE IF At("insert") THEN (Call.skip .. BatchEndRow - 1) \ driver.pending
    ELSE Call.skip .. LeastOf(driver.start, LastThreshold) - 1
NextErased == IF eraser = None THEN Call.skip ELSE eraser.next

DriverTypeOK ==
    /\ driver \in [at : {"begin", "next", "insert", "wait", "save", "end"}, start : Nat,
                   pending : SUBSET Nat, till_snapshot : Nat, exit : {Absent, 0, -1}]
    /\ eraser \in {None} \cup [next : Int, step : {"delete", "over", "failed"}]

\* The places of the main thread, and what the eraser may do by then.
EraserInv ==
    /\ Call.skip <= NextErased /\ NextErased <= DeleteEnd
    /\ eraser # None =>
          /\ Call.skip .. DeleteEnd - 1 \subseteq RowsIn
          /\ ~Deleting => eraser.next = DeleteEnd
    /\ At("begin") \/ (~Call.do_concurrent /\ (At("next") \/ At("insert"))) => eraser = None
    /\ At("begin") => data_compacted
    /\ At("wait") => eraser # None
    /\ At("insert") => driver.pending \subseteq driver.start .. BatchEndRow - 1
                       /\ Call.skip <= driver.start
    /\ At("next") => Call.skip <= driver.start
    /\ At("wait") \/ At("save") => driver.start >= LastThreshold
    /\ At("save") => ~Deleting /\ NextErased = DeleteEnd

\* _nd counts the points, those that are still present and maybe deleted ones.
Counted == nd \in 0 .. MaxPoints /\ Cardinality(Live) <= nd

\* Who is present; an index that counts as compacted has had no deletion.
RangeInv ==
    /\ Counted
    /\ TagsOnce /\ empty_slots \subseteq Slots /\ delete_set \subseteq Slots /\ search = None
    /\ Present = {TagOfRow(j) : j \in {k \in RowsIn : NextErased <= k}}
    /\ data_compacted =>
          delete_set = {} /\ nd = Cardinality(Live) /\ NextErased = Call.skip

DriverInv ==
    /\ config \in Configs /\ config.max_points = IF Call.max_points = 0 THEN 1 ELSE Call.max_points
    /\ DriverTypeOK
    /\ Whole /\ ~At("end") => EraserInv /\ RangeInv
    /\ RangeSaved

-----------------------------------------------------------------------------
(* The steps of the range.                                                 *)

DriverFacts == DriverInv /\ config.user = "insert_deletes"

\* What the arguments are.
LEMMA DriverNumbers ==
    ASSUME config \in Configs, config.user = "insert_deletes"
    PROVE  /\ Call.skip \in Nat /\ Call.max_points \in Nat /\ Call.per \in Nat \ {0}
           /\ Call.beginning \in Nat /\ Call.delete \in Nat /\ Call.do_concurrent \in BOOLEAN
           /\ Call.per_snapshot \in Nat
           /\ FileRows \in Nat /\ \A j \in 0 .. FileRows - 1 : TagOfRow(j) \in Tags
           /\ LastThreshold = Call.skip + Call.max_points
           /\ Whole => /\ ToInsert = Call.max_points
                       /\ DeleteEnd = Call.skip + LeastOf(Call.delete, Call.max_points)
                       /\ Beginning \in 0 .. Call.max_points
<1>1. /\ Call.skip \in Nat /\ Call.max_points \in Nat /\ Call.per \in Nat \ {0}
      /\ Call.beginning \in Nat /\ Call.delete \in Nat /\ Call.do_concurrent \in BOOLEAN
      /\ Call.per_snapshot \in Nat
      /\ DataLabels \in Seq(Offers) /\ 1 .. Len(DataLabels) \subseteq Tags
  BY DriverAssumption DEF Call
<1>2. FileRows \in Nat
  BY <1>1 DEF FileRows
<1>3. ASSUME NEW j \in 0 .. FileRows - 1 PROVE TagOfRow(j) \in Tags
  <2>1. j + 1 \in 1 .. Len(DataLabels)
    BY <1>2 DEF FileRows
  <2> QED
    BY <1>1, <2>1 DEF TagOfRow
<1>4. LastThreshold = Call.skip + Call.max_points
  BY DEF LastThreshold
<1>5. ASSUME Whole
      PROVE  /\ ToInsert = Call.max_points
             /\ DeleteEnd = Call.skip + LeastOf(Call.delete, Call.max_points)
             /\ Beginning \in 0 .. Call.max_points
  <2>1. ToInsert = Call.max_points
    BY <1>1, <1>2, <1>4, <1>5 DEF ToInsert, LeastOf, Whole
  <2>2. LeastOf(Call.beginning, Call.max_points) \in 0 .. Call.max_points
    BY <1>1 DEF LeastOf
  <2>3. Beginning \in 0 .. Call.max_points
    BY <1>1, <2>1, <2>2 DEF Beginning, LeastOf
  <2> QED
    BY <2>1, <2>3 DEF DeleteEnd
<1> QED
  BY <1>1, <1>2, <1>3, <1>4, <1>5

\* The arguments do not change.
LEMMA SameArguments ==
    ASSUME config' = config
    PROVE  /\ Call' = Call /\ LastThreshold' = LastThreshold /\ ToInsert' = ToInsert
           /\ Beginning' = Beginning /\ DeleteEnd' = DeleteEnd /\ (Whole' <=> Whole)
           /\ MaxPoints' = MaxPoints
BY DEF Call, LastThreshold, ToInsert, Beginning, DeleteEnd, Whole, FileRows, LeastOf, MaxPoints

\* The eraser is a record.
LEMMA EraserRecord ==
    ASSUME NEW n \in Int, NEW s \in {"delete", "over", "failed"}
    PROVE  /\ [next |-> n, step |-> s] # None
           /\ [next |-> n, step |-> s] \in [next : Int, step : {"delete", "over", "failed"}]
BY DriverAssumption

\* The batch at work is within the range.
LEMMA BatchRow ==
    ASSUME DriverFacts
    PROVE  /\ driver.start \in Nat /\ BatchEndRow \in Nat /\ BatchEndRow <= LastThreshold
           /\ LastThreshold \in Nat
           /\ BatchEndRow = LeastOf(driver.start + Call.per, LastThreshold)
<1>1. driver.start \in Nat
  BY DEF DriverFacts, DriverInv, DriverTypeOK
<1> QED
  BY <1>1, DriverNumbers DEF DriverFacts, DriverInv, BatchEndRow, LeastOf

\* Steps that leave the tags, the slots and the rows alone.
LEMMA RangeSame ==
    ASSUME RangeInv, UNCHANGED <<config, slotVars, search>>,
           RowsIn' = RowsIn, NextErased' = NextErased
    PROVE  RangeInv'
<1>1. UNCHANGED <<config, location_to_tag, nd, empty_slots, delete_set, data_compacted, search>>
  BY DEF slotVars
<1>2. Live' = Live /\ Present' = Present /\ Slots' = Slots /\ (TagsOnce => TagsOnce')
  BY <1>1, TagsUntouched
<1>3. Call' = Call /\ MaxPoints' = MaxPoints
  BY <1>1, SameConfig DEF Call
<1>4. Counted'
  BY <1>1, <1>2, <1>3 DEF RangeInv, Counted
<1> QED
  BY <1>1, <1>2, <1>3, <1>4 DEF RangeInv

LEMMA IndexStays ==
    ASSUME UNCHANGED indexVars PROVE UNCHANGED <<config, slotVars, search>>
BY DEF indexVars, readerVars

\* Steps that neither begin nor end a run.
LEMMA WithinRun ==
    ASSUME DriverInv, config' = config, DriverTypeOK', ~At("end")',
           Whole => EraserInv' /\ RangeInv'
    PROVE  DriverInv'
<1>1. RangeSaved'
  BY DEF RangeSaved, At
<1> QED
  BY <1>1, SameArguments DEF DriverInv

\* A run that ends without success.
LEMMA RunFails ==
    ASSUME DriverInv, config' = config, DriverTypeOK', At("end")', driver'.exit = -1
    PROVE  DriverInv'
<1>1. RangeSaved'
  BY DEF RangeSaved
<1> QED
  BY <1>1, SameArguments DEF DriverInv

\* The fields of the driver's record.
LEMMA DriverFields ==
    ASSUME DriverTypeOK
    PROVE  /\ driver.at \in {"begin", "next", "insert", "wait", "save", "end"}
           /\ driver.start \in Nat /\ driver.pending \in SUBSET Nat
           /\ driver.till_snapshot \in Nat /\ driver.exit \in {Absent, 0, -1}
           /\ eraser \in {None} \cup [next : Int, step : {"delete", "over", "failed"}]
BY DEF DriverTypeOK

\* A step of the main thread gives a record again.
LEMMA DriverSteps ==
    ASSUME DriverTypeOK, NEW at \in {"begin", "next", "insert", "wait", "save", "end"},
           eraser' \in {None} \cup [next : Int, step : {"delete", "over", "failed"}]
    PROVE  /\ GoTo(at) => /\ DriverTypeOK' /\ driver'.at = at
                          /\ driver'.start = driver.start /\ driver'.pending = driver.pending
                          /\ driver'.exit = driver.exit
           /\ \A code \in {0, -1} : Exit(code) =>
                 DriverTypeOK' /\ driver'.at = "end" /\ driver'.exit = code
BY DEF DriverTypeOK, GoTo, Exit

\* The index that build makes has the first rows, in order.
LEMMA BeginningBuilt ==
    ASSUME config \in Configs, config.user = "insert_deletes", Whole, BuildBeginning,
           delete_set = {}, search = None, empty_slots \subseteq Slots
    PROVE  /\ TagsOnce' /\ empty_slots' \subseteq Slots' /\ delete_set' = {} /\ search' = None
           /\ Present' = {TagOfRow(j) : j \in Call.skip .. Call.skip + Beginning - 1}
           /\ nd' = Cardinality(Live') /\ Counted'
<1>1. /\ Beginning <= MaxPoints /\ nd' = Beginning
      /\ location_to_tag' = [l \in Slots |-> IF l < Beginning THEN TagOfRow(Call.skip + l) ELSE NoTag]
      /\ UNCHANGED <<config, empty_slots, delete_set, search>>
  BY DEF BuildBeginning, readerVars
<1>2. /\ Call.skip \in Nat /\ Call.max_points \in Nat /\ Beginning \in 0 .. Call.max_points
      /\ FileRows \in Nat /\ MaxPoints \in Nat /\ Slots' = Slots
      /\ Call.skip + Call.max_points <= FileRows
  BY <1>1, DriverNumbers, ConfigType, SameConfig DEF Whole
<1>3. ASSUME NEW l \in 0 .. Beginning - 1
      PROVE  /\ l \in Slots /\ TagOfRow(Call.skip + l) \in Tags
             /\ location_to_tag'[l] = TagOfRow(Call.skip + l)
  <2>1. l \in Slots /\ Call.skip + l \in 0 .. FileRows - 1
    BY <1>1, <1>2 DEF Slots
  <2> QED
    BY <1>1, <2>1, DriverNumbers
<1>4. \A l \in Slots \ (0 .. Beginning - 1) : location_to_tag'[l] = NoTag
  BY <1>1, <1>2 DEF Slots
<1>5. Live' = 0 .. Beginning - 1
  BY <1>2, <1>3, <1>4, NoTagAssumption DEF Live
<1>6. Cardinality(Live') = Beginning
  BY <1>2, <1>5, FS_Interval
<1>7. TagsOnce'
  <2>1. \A l \in Slots : location_to_tag'[l] \in Tags \cup {NoTag}
    BY <1>3, <1>4
  <2>2. location_to_tag' \in [Slots' -> Tags \cup {NoTag}]
    BY <1>1, <1>2, <2>1
  <2>3. \A l, k \in Live' : location_to_tag'[l] = location_to_tag'[k] => l = k
    BY <1>2, <1>3, <1>5 DEF TagOfRow
  <2> QED
    BY <2>2, <2>3 DEF TagsOnce
<1>8. Present' = {TagOfRow(j) : j \in Call.skip .. Call.skip + Beginning - 1}
  <2>1. Present' = {location_to_tag'[l] : l \in 0 .. Beginning - 1}
    BY <1>5 DEF Present
  <2>2. \A j \in Call.skip .. Call.skip + Beginning - 1 :
           j - Call.skip \in 0 .. Beginning - 1 /\ Call.skip + (j - Call.skip) = j
    BY <1>2
  <2>3. \A l \in 0 .. Beginning - 1 : Call.skip + l \in Call.skip .. Call.skip + Beginning - 1
    BY <1>2
  <2> QED
    BY <1>3, <2>1, <2>2, <2>3
<1>9. Counted'
  <2>1. MaxPoints' = MaxPoints
    BY <1>1, SameArguments
  <2> QED
    BY <1>1, <1>2, <1>6, <2>1 DEF Counted
<1> QED
  BY <1>1, <1>2, <1>6, <1>7, <1>8, <1>9

LEMMA BeginKeepsDriver ==
    ASSUME DriverFacts, RefuseDriver \/ UnknownType \/ Begin
    PROVE  DriverInv'
<1> USE DEF DriverFacts
<1>1. At("begin") /\ UNCHANGED <<eraser, saved>> /\ config' = config
  BY DEF RefuseDriver, UnknownType, Begin, BuildBeginning, indexVars
<1>2. /\ config \in Configs /\ DriverTypeOK /\ driver.at = "begin"
      /\ eraser' \in {None} \cup [next : Int, step : {"delete", "over", "failed"}]
  BY <1>1, DriverFields DEF DriverInv, At
<1>3. ASSUME NEW code \in {0, -1}, Exit(code)
      PROVE  DriverTypeOK' /\ driver'.at = "end" /\ driver'.exit = code
  BY <1>2, <1>3, DriverSteps
<1>4. CASE Exit(-1)
  BY <1>1, <1>3, <1>4, RunFails DEF At
<1>5. CASE UnknownType
  <2>1. Exit(0) /\ Call.data_type # "float"
    BY <1>5 DEF UnknownType
  <2>2. RangeSaved'
    BY <1>1, <2>1, SameArguments DEF RangeSaved
  <2>3. DriverTypeOK' /\ At("end")'
    BY <1>3, <2>1 DEF At
  <2> QED
    BY <1>1, <2>2, <2>3, SameArguments DEF DriverInv
<1>6. CASE Begin /\ ~Exit(-1)
  <2>1. /\ driver' = [driver EXCEPT !.at = "next", !.start = Call.skip + Beginning,
                                    !.till_snapshot = Call.per_snapshot]
        /\ IF Beginning > 0 THEN BuildBeginning ELSE UNCHANGED indexVars
        /\ Call.skip <= FileRows
    BY <1>6, DriverNumbers, <1>2 DEF Begin
  <2>2. Call.skip \in Nat /\ Call.max_points \in Nat /\ Call.beginning \in Nat /\ Call.delete \in Nat
        /\ FileRows \in Nat /\ Call.per \in Nat \ {0} /\ Call.per_snapshot \in Nat
    BY <1>2, DriverNumbers
  <2>3. Beginning \in Nat
    BY <2>1, <2>2 DEF Beginning, ToInsert, LeastOf
  <2>4. Call.skip + Beginning \in Nat
    BY <2>2, <2>3
  <2>5. DriverTypeOK' /\ driver'.at = "next" /\ driver'.start = Call.skip + Beginning
    BY <1>2, <2>1, <2>2, <2>4 DEF DriverTypeOK
  <2>6. ASSUME Whole PROVE EraserInv' /\ RangeInv'
    <3>1. EraserInv /\ RangeInv /\ eraser = None /\ eraser' = None /\ data_compacted
      BY <1>1, <1>2, <2>6 DEF DriverInv, At, EraserInv
    <3>2. /\ Call' = Call /\ LastThreshold' = LastThreshold /\ DeleteEnd' = DeleteEnd
          /\ LastThreshold = Call.skip + Call.max_points /\ Beginning \in 0 .. Call.max_points
          /\ DeleteEnd = Call.skip + LeastOf(Call.delete, Call.max_points)
      BY <1>1, <1>2, <2>6, SameArguments, DriverNumbers
    <3>3. NextErased' = Call.skip /\ NextErased = Call.skip
      BY <3>1, <3>2 DEF NextErased
    <3>4. RowsIn' = Call.skip .. Call.skip + Beginning - 1
      <4>1. RowsIn' = Call.skip .. LeastOf(Call.skip + Beginning, LastThreshold) - 1
        BY <2>5, <3>2 DEF RowsIn, At
      <4>2. LeastOf(Call.skip + Beginning, LastThreshold) = Call.skip + Beginning
        BY <2>2, <2>3, <3>2 DEF LeastOf
      <4> QED
        BY <2>2, <2>3, <4>1, <4>2
    <3>5. RowsIn = {}
      BY <1>1 DEF RowsIn
    <3>6. EraserInv'
      BY <2>2, <2>3, <2>5, <3>1, <3>2, <3>3 DEF EraserInv, At, Deleting, LeastOf
    <3>7. {TagOfRow(j) : j \in {k \in RowsIn' : NextErased' <= k}}
             = {TagOfRow(j) : j \in Call.skip .. Call.skip + Beginning - 1}
      BY <2>2, <2>3, <3>3, <3>4
    <3>8. CASE Beginning > 0
      <4>1. data_compacted' = data_compacted /\ BuildBeginning
        BY <2>1, <3>8 DEF BuildBeginning
      <4>2. delete_set = {} /\ search = None /\ empty_slots \subseteq Slots
        BY <3>1 DEF RangeInv
      <4>3. /\ TagsOnce' /\ empty_slots' \subseteq Slots' /\ delete_set' = {} /\ search' = None
            /\ Present' = {TagOfRow(j) : j \in Call.skip .. Call.skip + Beginning - 1}
            /\ nd' = Cardinality(Live') /\ Counted'
        BY <1>2, <2>6, <4>1, <4>2, BeginningBuilt
      <4> QED
        BY <3>2, <3>3, <3>5, <3>6, <3>7, <4>1, <4>3 DEF RangeInv
    <3>9. CASE ~(Beginning > 0)
      <4>1. UNCHANGED indexVars /\ RowsIn' = RowsIn
        BY <2>1, <2>2, <2>3, <3>4, <3>5, <3>9
      <4> QED
        BY <3>1, <3>3, <4>1, <3>6, RangeSame, IndexStays
    <3> QED
      BY <3>6, <3>8, <3>9
  <2>7. ~At("end")'
    BY <2>5 DEF At
  <2> QED
    BY <1>1, <2>5, <2>6, <2>7, WithinRun
<1> QED
  BY <1>4, <1>5, <1>6 DEF RefuseDriver

LEMMA NextInsertsKeepsDriver ==
    ASSUME DriverFacts, NextInserts
    PROVE  DriverInv'
<1> USE DEF DriverFacts
<1>1. /\ At("next") /\ driver.start < LastThreshold
      /\ UNCHANGED indexVars /\ UNCHANGED <<eraser, saved>> /\ config' = config
  BY DEF NextInserts, indexVars
<1>2. DriverTypeOK /\ config \in Configs
      /\ eraser' \in {None} \cup [next : Int, step : {"delete", "over", "failed"}]
  BY <1>1, DriverFields DEF DriverInv
<1>3. /\ driver.start \in Nat /\ BatchEndRow \in Nat /\ BatchEndRow <= LastThreshold
      /\ LastThreshold \in Nat /\ BatchEndRow = LeastOf(driver.start + Call.per, LastThreshold)
  BY BatchRow
<1>4. /\ Call' = Call /\ LastThreshold' = LastThreshold /\ DeleteEnd' = DeleteEnd
      /\ Call.skip \in Nat /\ Call.per \in Nat \ {0}
  BY <1>1, <1>2, SameArguments, DriverNumbers
<1>5. CASE Exit(-1)
  BY <1>1, <1>2, <1>5, DriverSteps, RunFails DEF At
<1>6. CASE ~(BatchEndRow <= FileRows) /\ GoTo("insert")
  <2>1. DriverTypeOK' /\ ~At("end")'
    BY <1>2, <1>6, DriverSteps DEF At
  <2>2. ~Whole
    BY <1>2, <1>3, <1>6, DriverNumbers DEF Whole
  <2> QED
    BY <1>1, <2>1, <2>2, WithinRun
<1>7. CASE driver' = [driver EXCEPT !.at = "insert", !.pending = driver.start .. BatchEndRow - 1]
  <2>1. /\ DriverTypeOK' /\ driver'.at = "insert" /\ driver'.start = driver.start
        /\ driver'.pending = driver.start .. BatchEndRow - 1
    <3>1. driver.start .. BatchEndRow - 1 \in SUBSET Nat
      BY <1>3
    <3> QED
      BY <1>2, <1>7, <3>1 DEF DriverTypeOK
  <2>2. BatchEndRow' = BatchEndRow
    BY <1>4, <2>1 DEF BatchEndRow
  <2>3. ASSUME Whole PROVE EraserInv' /\ RangeInv'
    <3>1. EraserInv /\ RangeInv
      BY <1>1, <2>3 DEF DriverInv, At
    <3>2. Call.skip <= driver.start
      BY <1>1, <3>1 DEF EraserInv
    <3>3. NextErased' = NextErased
      BY <1>1, <1>4 DEF NextErased
    <3>4. RowsIn' = RowsIn
      <4>1. RowsIn = Call.skip .. driver.start - 1
        BY <1>1, <1>3 DEF RowsIn, At, LeastOf
      <4>2. RowsIn' = (Call.skip .. BatchEndRow - 1) \ (driver.start .. BatchEndRow - 1)
        BY <1>4, <2>1, <2>2 DEF RowsIn, At
      <4>3. driver.start <= BatchEndRow
        BY <1>1, <1>3, <1>4 DEF LeastOf
      <4> QED
        BY <1>3, <1>4, <3>2, <4>1, <4>2, <4>3
    <3>5. EraserInv'
      BY <1>1, <1>4, <2>1, <2>2, <3>1, <3>2, <3>3, <3>4 DEF EraserInv, At, Deleting
    <3> QED
      BY <1>1, <3>1, <3>3, <3>4, <3>5, RangeSame, IndexStays
  <2>4. ~At("end")'
    BY <2>1 DEF At
  <2> QED
    BY <1>1, <2>1, <2>3, <2>4, WithinRun
<1> QED
  BY <1>5, <1>6, <1>7 DEF NextInserts

\* The row comes in; the eraser is not past it, or it was launched for other rows.
LEMMA InsertRowKeepsDriver ==
    ASSUME DriverFacts, NEW j \in driver.pending, InsertRow(j)
    PROVE  DriverInv'
<1> USE DEF DriverFacts
<1> DEFINE offer == OfferOf(j)
<1>1. /\ At("insert") /\ InsertPoint(TagOfRow(j), offer)
      /\ \A l \in Live : location_to_tag'[l] = location_to_tag[l]
      /\ driver' = [driver EXCEPT !.pending = @ \ {j}]
      /\ UNCHANGED <<eraser, saved>>
  BY DEF InsertRow, Handing
<1>2. config' = config /\ nd < MaxPoints
  BY <1>1 DEF InsertPoint
<1>3. DriverTypeOK /\ config \in Configs /\ j \in Nat
  BY DriverFields DEF DriverInv
<1>4. /\ driver.start \in Nat /\ BatchEndRow \in Nat /\ BatchEndRow <= LastThreshold
      /\ LastThreshold \in Nat
  BY BatchRow
<1>5. /\ Call' = Call /\ LastThreshold' = LastThreshold /\ DeleteEnd' = DeleteEnd
      /\ Call.skip \in Nat /\ Call.per \in Nat \ {0} /\ FileRows \in Nat
  BY <1>2, <1>3, SameArguments, DriverNumbers
<1>6. /\ DriverTypeOK' /\ driver'.at = "insert" /\ driver'.start = driver.start
      /\ driver'.pending = driver.pending \ {j} /\ ~At("end")'
  BY <1>1, <1>3 DEF DriverTypeOK, At
<1>7. BatchEndRow' = BatchEndRow
  BY <1>5, <1>6 DEF BatchEndRow
<1>8. ASSUME Whole PROVE EraserInv' /\ RangeInv'
  <2>1. EraserInv /\ RangeInv
    BY <1>1, <1>8 DEF DriverInv, At
  <2>2. /\ j \in driver.start .. BatchEndRow - 1 /\ Call.skip <= driver.start
        /\ driver.pending \subseteq driver.start .. BatchEndRow - 1
    BY <1>1, <2>1 DEF EraserInv
  <2>3. TagOfRow(j) \in Tags
    BY <1>3, <1>4, <1>5, <1>8, <2>2, DriverNumbers DEF Whole
  <2>4. /\ TagsOnce' /\ Present' = Present \cup {TagOfRow(j)}
        /\ Cardinality(Live') = Cardinality(Live) + 1
        /\ nd' = nd + 1 /\ empty_slots' \subseteq Slots'
        /\ UNCHANGED <<config, delete_set, data_compacted, search>>
    <3> HIDE DEF offer
    <3> QED
      BY <1>1, <1>3, <2>1, <2>3, TagInserted DEF RangeInv
  <2>5. RowsIn = (Call.skip .. BatchEndRow - 1) \ driver.pending
        /\ RowsIn' = (Call.skip .. BatchEndRow - 1) \ (driver.pending \ {j})
    BY <1>1, <1>5, <1>6, <1>7 DEF RowsIn, At
  <2>6. RowsIn' = RowsIn \cup {j} /\ j \notin RowsIn /\ j \in Call.skip .. BatchEndRow - 1
    BY <1>3, <1>4, <1>5, <2>2, <2>5
  <2>7. NextErased' = NextErased
    BY <1>1, <1>5 DEF NextErased
  <2>8. NextErased <= j
    <3>1. CASE eraser = None
      BY <1>3, <1>4, <1>5, <2>2, <3>1 DEF NextErased
    <3>2. CASE eraser # None
      <4>1. Call.skip .. DeleteEnd - 1 \subseteq RowsIn /\ NextErased <= DeleteEnd
        BY <2>1, <3>2 DEF EraserInv
      <4>2. j \notin Call.skip .. DeleteEnd - 1 /\ Call.skip <= j
        BY <1>4, <2>6, <4>1
      <4>3. DeleteEnd \in Nat
        BY <1>3, <1>8, DriverNumbers DEF LeastOf
      <4>4. NextErased \in Int
        BY <1>3, <3>2, DriverFields DEF NextErased
      <4> QED
        BY <1>3, <1>5, <4>1, <4>2, <4>3, <4>4
    <3> QED
      BY <3>1, <3>2
  <2>9. EraserInv'
    BY <1>1, <1>5, <1>6, <1>7, <2>1, <2>2, <2>6, <2>7 DEF EraserInv, At, Deleting
  <2>10. Present' = {TagOfRow(i) : i \in {k \in RowsIn' : NextErased' <= k}}
    <3>1. Present = {TagOfRow(i) : i \in {k \in RowsIn : NextErased <= k}}
      BY <2>1 DEF RangeInv
    <3>2. {k \in RowsIn' : NextErased' <= k} = {k \in RowsIn : NextErased <= k} \cup {j}
      BY <2>6, <2>7, <2>8
    <3> QED
      BY <2>4, <3>1, <3>2
  <2>11. delete_set' \subseteq Slots' /\ search' = None
    BY <2>1, <2>4, SameConfig DEF RangeInv
  <2>12. data_compacted' => delete_set' = {} /\ nd' = Cardinality(Live')
                            /\ NextErased' = Call'.skip
    BY <1>5, <2>1, <2>4, <2>7 DEF RangeInv
  <2>13. Counted'
    <3>1. MaxPoints' = MaxPoints /\ MaxPoints \in Nat /\ Cardinality(Live) \in Nat
      BY <1>2, <1>3, SameArguments, ConfigType, LiveFinite
    <3> QED
      BY <1>2, <2>1, <2>4, <3>1 DEF RangeInv, Counted
  <2> QED
    BY <2>4, <2>9, <2>10, <2>11, <2>12, <2>13 DEF RangeInv
<1> QED
  BY <1>2, <1>6, <1>8, WithinRun

\* The batch is over; the eraser is launched when its rows are there.
LEMMA LaunchKeepsDriver ==
    ASSUME DriverFacts, LaunchDeletes \/ Snapshot
    PROVE  DriverInv'
<1> USE DEF DriverFacts
<1>1. /\ At("insert") /\ driver.pending = {} /\ saved' = saved
      /\ UNCHANGED <<config, slotVars, search>>
  BY IndexStays DEF LaunchDeletes, Snapshot, MoveFrozenUp, readerVars
<1>2. DriverTypeOK /\ config \in Configs
  BY DEF DriverInv
<1>3. /\ driver.start \in Nat /\ BatchEndRow \in Nat /\ BatchEndRow <= LastThreshold
      /\ LastThreshold \in Nat /\ BatchEndRow = LeastOf(driver.start + Call.per, LastThreshold)
  BY BatchRow
<1>4. /\ Call' = Call /\ LastThreshold' = LastThreshold /\ DeleteEnd' = DeleteEnd
      /\ Call.skip \in Nat /\ Call.per \in Nat \ {0} /\ Call.per_snapshot \in Nat
  BY <1>1, <1>2, SameArguments, DriverNumbers
<1>5. \/ Call.do_concurrent /\ eraser = None /\ MayDelete
         /\ eraser' = [next |-> Call.skip, step |-> "delete"]
      \/ eraser' = eraser
  BY DEF LaunchDeletes, Snapshot
<1>6. eraser' \in {None} \cup [next : Int, step : {"delete", "over", "failed"}]
  BY <1>2, <1>4, <1>5, DriverFields, EraserRecord
<1>7. \E till \in Nat : driver' = [driver EXCEPT !.at = "next", !.start = @ + Call.per,
                                                 !.till_snapshot = till]
  <2>1. driver.till_snapshot \in Nat
    BY <1>2, DriverFields
  <2>2. CASE LaunchDeletes
    <3>1. driver' = [driver EXCEPT !.at = "next", !.start = @ + Call.per,
                                   !.till_snapshot = driver.till_snapshot]
      BY <1>2, <2>2 DEF LaunchDeletes, Advance, DriverTypeOK
    <3> QED
      BY <2>1, <3>1
  <2>3. CASE Snapshot /\ driver.till_snapshot = 1
    BY <1>4, <2>3 DEF Snapshot
  <2>4. CASE Snapshot /\ driver.till_snapshot # 1
    <3>1. (IF driver.till_snapshot = 0 THEN 0 ELSE driver.till_snapshot - 1) \in Nat
      BY <2>1
    <3> QED
      BY <2>4, <3>1 DEF Snapshot
  <2> QED
    BY <2>2, <2>3, <2>4
<1>8. /\ DriverTypeOK' /\ driver'.at = "next" /\ driver'.start = driver.start + Call.per
      /\ ~At("end")'
  <2>1. driver.start + Call.per \in Nat
    BY <1>3, <1>4
  <2> QED
    BY <1>2, <1>6, <1>7, <2>1 DEF DriverTypeOK, At
<1>9. ASSUME Whole PROVE EraserInv' /\ RangeInv'
  <2>1. EraserInv /\ RangeInv
    BY <1>1, <1>9 DEF DriverInv, At
  <2>2. RowsIn = Call.skip .. BatchEndRow - 1 /\ RowsIn' = RowsIn
    BY <1>1, <1>3, <1>4, <1>8 DEF RowsIn, At
  <2>3. Call.skip <= driver.start
    BY <1>1, <2>1 DEF EraserInv
  <2>4. NextErased' = NextErased
    BY <1>4, <1>5, EraserRecord DEF NextErased
  <2>5. eraser' # None => Call.skip .. DeleteEnd - 1 \subseteq RowsIn
    <3>1. CASE eraser' = eraser
      BY <2>1, <3>1 DEF EraserInv
    <3>2. CASE MayDelete
      <4>1. DeleteEnd <= BatchEndRow /\ DeleteEnd \in Nat
        BY <1>2, <1>3, <1>9, <3>2, DriverNumbers DEF MayDelete, LeastOf
      <4> QED
        BY <1>3, <1>4, <2>2, <4>1
    <3> QED
      BY <1>5, <3>1, <3>2
  <2>6. eraser' # None /\ ~Deleting' => eraser'.next = DeleteEnd
    BY <1>5, <2>1 DEF EraserInv, Deleting
  <2>7. ~Call.do_concurrent => eraser' = None
    BY <1>1, <1>5, <2>1 DEF EraserInv
  <2>8. Call.skip <= driver'.start
    BY <1>3, <1>4, <1>8, <2>3
  <2>9. EraserInv'
    BY <1>4, <1>8, <2>1, <2>2, <2>4, <2>5, <2>6, <2>7, <2>8 DEF EraserInv, At
  <2> QED
    BY <1>1, <2>1, <2>2, <2>4, <2>9, RangeSame
<1> QED
  BY <1>1, <1>8, <1>9, WithinRun

\* All rows are in: the deletions begin, or are over.
LEMMA JoinKeepsDriver ==
    ASSUME DriverFacts, StartDeletes \/ JoinDeletes \/ AfterDeletes
    PROVE  DriverInv'
<1> USE DEF DriverFacts
<1>1. UNCHANGED indexVars /\ saved' = saved /\ config' = config
  BY DEF StartDeletes, JoinDeletes, AfterDeletes, indexVars
<1>2. DriverTypeOK /\ config \in Configs
  BY DEF DriverInv
<1>3. driver.start \in Nat /\ LastThreshold \in Nat
  BY BatchRow
<1>4. /\ Call' = Call /\ LastThreshold' = LastThreshold /\ DeleteEnd' = DeleteEnd
      /\ Call.skip \in Nat /\ Call.delete \in Nat /\ Call.max_points \in Nat
  BY <1>1, <1>2, SameArguments, DriverNumbers
<1>5. \/ eraser' = eraser
      \/ StartDeletes /\ eraser' = [next |-> Call.skip, step |-> "delete"] /\ GoTo("wait")
  BY DEF StartDeletes, JoinDeletes, AfterDeletes
<1>6. eraser' \in {None} \cup [next : Int, step : {"delete", "over", "failed"}]
  BY <1>2, <1>4, <1>5, DriverFields, EraserRecord
<1>7. CASE Exit(-1)
  BY <1>1, <1>2, <1>6, <1>7, DriverSteps, RunFails DEF At
<1>8. CASE GoTo("wait") \/ GoTo("save")
  <2>1. /\ DriverTypeOK' /\ driver'.start = driver.start /\ ~At("end")'
        /\ driver'.at \in {"wait", "save"}
    BY <1>2, <1>6, <1>8, DriverSteps DEF At
  <2>2. ASSUME Whole PROVE EraserInv' /\ RangeInv'
    <3>1. /\ EraserInv /\ RangeInv /\ driver.start >= LastThreshold
          /\ driver.at \in {"next", "wait"}
      BY <2>2 DEF StartDeletes, JoinDeletes, AfterDeletes, DriverInv, At, EraserInv
    <3>2. /\ LastThreshold = Call.skip + Call.max_points /\ ToInsert = Call.max_points
          /\ DeleteEnd = Call.skip + LeastOf(Call.delete, Call.max_points)
          /\ Call.max_points > 0
      BY <1>2, <2>2, DriverNumbers DEF Whole
    <3>3. DeleteEnd \in Nat /\ Call.skip <= DeleteEnd /\ DeleteEnd <= LastThreshold
      BY <1>4, <3>2 DEF LeastOf
    <3>4. RowsIn = Call.skip .. LastThreshold - 1 /\ RowsIn' = RowsIn
      BY <1>3, <1>4, <2>1, <3>1 DEF RowsIn, At, LeastOf
    <3>5. CASE eraser' = eraser /\ GoTo("save") /\ (eraser = None => Call.delete = 0) /\ ~Deleting
      <4>1. NextErased' = NextErased /\ ~Deleting'
        BY <1>4, <3>5 DEF NextErased, Deleting
      <4>2. NextErased = DeleteEnd
        BY <1>4, <3>1, <3>2, <3>5 DEF EraserInv, NextErased, LeastOf
      <4>3. driver'.at = "save"
        BY <1>2, <1>6, <3>5, DriverSteps
      <4>4. EraserInv'
        BY <1>4, <2>1, <3>1, <3>3, <3>4, <3>5, <4>1, <4>2, <4>3 DEF EraserInv, At
      <4> QED
        BY <1>1, <3>1, <3>4, <4>1, <4>4, RangeSame, IndexStays
    <3>6. CASE eraser = None /\ eraser' = [next |-> Call.skip, step |-> "delete"] /\ GoTo("wait")
      <4>1. NextErased' = NextErased /\ NextErased = Call.skip /\ eraser' # None /\ Deleting'
        BY <1>4, <3>6, EraserRecord DEF NextErased, Deleting
      <4>2. driver'.at = "wait"
        BY <1>2, <1>6, <3>6, DriverSteps
      <4>3. Call.skip .. DeleteEnd - 1 \subseteq RowsIn
        BY <1>3, <1>4, <3>3, <3>4
      <4>4. EraserInv'
        BY <1>4, <2>1, <3>1, <3>3, <3>4, <4>1, <4>2, <4>3 DEF EraserInv, At
      <4> QED
        BY <1>1, <3>1, <3>4, <4>1, <4>4, RangeSame, IndexStays
    <3>7. CASE StartDeletes
      <4>1. eraser = None /\ ~Deleting
        BY <3>1, <3>7 DEF StartDeletes, EraserInv, Deleting
      <4>2. CASE Call.delete > 0
        BY <1>4, <3>2, <3>6, <3>7, <4>1, <4>2 DEF StartDeletes
      <4>3. CASE ~(Call.delete > 0)
        BY <1>4, <3>5, <3>7, <4>1, <4>3 DEF StartDeletes
      <4> QED
        BY <4>2, <4>3
    <3>8. CASE JoinDeletes \/ AfterDeletes
      <4>1. eraser # None \/ Exit(-1)
        BY <3>1, <3>8 DEF JoinDeletes, AfterDeletes, EraserInv
      <4>2. ~Deleting /\ eraser' = eraser /\ (GoTo("save") \/ Exit(-1))
        BY <3>8 DEF JoinDeletes, AfterDeletes
      <4>3. ~Exit(-1)
        BY <1>2, <1>6, <2>1, DriverSteps
      <4> QED
        BY <3>5, <4>1, <4>2, <4>3
    <3> QED
      BY <3>7, <3>8
  <2> QED
    BY <1>1, <2>1, <2>2, WithinRun
<1> QED
  BY <1>7, <1>8 DEF StartDeletes, JoinDeletes, AfterDeletes

\* Steps of the eraser leave the main thread and the file alone.
LEMMA BesideMain ==
    ASSUME DriverInv, config' = config, DriverTypeOK', UNCHANGED <<driver, saved>>,
           Whole /\ ~At("end") => EraserInv' /\ RangeInv'
    PROVE  DriverInv'
<1>1. /\ Call' = Call /\ LastThreshold' = LastThreshold /\ DeleteEnd' = DeleteEnd
      /\ (Whole' <=> Whole) /\ FileRows' = FileRows
  BY SameArguments DEF FileRows
<1>2. RangeSaved'
  BY <1>1 DEF DriverInv, RangeSaved, At
<1> QED
  BY <1>1, <1>2 DEF DriverInv, At

\* Where the main thread is while the eraser is deleting.
LEMMA EraserBeside ==
    ASSUME EraserInv, Deleting, config' = config, driver' = driver,
           eraser' # None, Call.skip <= NextErased', NextErased' <= DeleteEnd,
           ~Deleting' => eraser'.next = DeleteEnd
    PROVE  EraserInv' /\ RowsIn' = RowsIn
<1>1. /\ Call' = Call /\ LastThreshold' = LastThreshold /\ DeleteEnd' = DeleteEnd
      /\ BatchEndRow' = BatchEndRow
  BY SameArguments DEF BatchEndRow
<1>2. eraser # None /\ ~At("save")
  BY DEF EraserInv, Deleting
<1>3. RowsIn' = RowsIn
  BY <1>1 DEF RowsIn, At
<1> QED
  BY <1>1, <1>2, <1>3 DEF EraserInv, At

\* The row it comes to has been inserted, and goes.
LEMMA EraseKeepsDriver ==
    ASSUME DriverFacts, EraseRow
    PROVE  DriverInv'
<1> USE DEF DriverFacts
<1>1. /\ Deleting /\ eraser.next < DeleteEnd
      /\ LazyDelete(TagOfRow(eraser.next)) \/ DeleteAbsent(TagOfRow(eraser.next))
      /\ eraser' = [eraser EXCEPT !.next = @ + 1]
      /\ UNCHANGED <<driver, saved>> /\ config' = config
  BY DEF EraseRow, LazyDelete, DeleteAbsent
<1>2. DriverTypeOK /\ config \in Configs
  BY DEF DriverInv
<1>3. eraser \in [next : Int, step : {"delete", "over", "failed"}] /\ eraser # None
  BY <1>1, <1>2, DriverFields DEF Deleting
<1>4. eraser' = [next |-> eraser.next + 1, step |-> "delete"] /\ eraser.next + 1 \in Int
  BY <1>1, <1>3 DEF Deleting
<1>5. /\ eraser' # None /\ Deleting' /\ eraser'.next = eraser.next + 1
      /\ eraser' \in [next : Int, step : {"delete", "over", "failed"}]
  BY <1>4, EraserRecord DEF Deleting
<1>6. DriverTypeOK'
  BY <1>1, <1>2, <1>5 DEF DriverTypeOK
<1>7. ASSUME Whole, ~At("end") PROVE EraserInv' /\ RangeInv'
  <2>1. EraserInv /\ RangeInv
    BY <1>7 DEF DriverInv
  <2> DEFINE row == eraser.next
  <2>2. row = NextErased /\ row \in Int /\ NextErased' = row + 1
    BY <1>3, <1>5 DEF NextErased
  <2>3. Call.skip \in Nat /\ DeleteEnd \in Nat
    BY <1>2, <1>7, DriverNumbers DEF LeastOf
  <2>4. Call.skip <= row /\ row < DeleteEnd /\ Call.skip .. DeleteEnd - 1 \subseteq RowsIn
    BY <1>1, <1>3, <2>1, <2>2 DEF EraserInv
  <2>5. row \in RowsIn
    BY <2>2, <2>3, <2>4
  <2>6. Present = {TagOfRow(i) : i \in {k \in RowsIn : row <= k}}
    BY <2>1, <2>2 DEF RangeInv
  <2>7. LazyDelete(TagOfRow(row))
    <3>1. row <= row
      BY <2>2
    <3>2. TagOfRow(row) \in Present
      BY <2>5, <2>6, <3>1
    <3> QED
      BY <1>1, <3>2 DEF DeleteAbsent
  <2>8. /\ TagsOnce' /\ Present' = Present \ {TagOfRow(row)}
        /\ \E l \in Live : delete_set' = delete_set \cup {l}
        /\ data_compacted' = FALSE /\ Live' \subseteq Live
        /\ UNCHANGED <<empty_slots, nd, search>>
    BY <2>1, <2>7, TagDeleted DEF RangeInv
  <2>9. EraserInv' /\ RowsIn' = RowsIn
    BY <1>1, <1>5, <2>1, <2>2, <2>3, <2>4, EraserBeside
  <2>10. RowsIn \subseteq Int
    BY DEF RowsIn
  <2>11. Present' = {TagOfRow(i) : i \in {k \in RowsIn' : NextErased' <= k}}
    <3>1. {k \in RowsIn' : NextErased' <= k} = {k \in RowsIn : row <= k} \ {row}
      <4>1. \A k \in Int : row + 1 <= k <=> (row <= k /\ k # row)
        BY <2>2
      <4>2. RowsIn' = RowsIn /\ NextErased' = row + 1
        BY <2>2, <2>9
      <4> HIDE DEF row
      <4> QED
        BY <2>10, <4>1, <4>2
    <3>2. \A k \in RowsIn : TagOfRow(k) = TagOfRow(row) <=> k = row
      BY <2>2, <2>10 DEF TagOfRow
    <3> QED
      BY <2>6, <2>8, <3>1, <3>2
  <2>12. empty_slots' \subseteq Slots' /\ delete_set' \subseteq Slots' /\ search' = None
    BY <1>1, <2>1, <2>8, SameConfig DEF RangeInv, Live
  <2>13. Counted'
    <3>1. MaxPoints' = MaxPoints /\ IsFiniteSet(Live) /\ Cardinality(Live) \in Nat
      BY <1>1, <1>2, SameArguments, LiveFinite
    <3>2. Cardinality(Live') \in Nat /\ Cardinality(Live') <= Cardinality(Live)
      BY <2>8, <3>1, FS_Subset, FS_CardinalityType
    <3> QED
      BY <2>1, <2>8, <3>1, <3>2 DEF RangeInv, Counted
  <2> QED
    BY <2>8, <2>9, <2>11, <2>12, <2>13 DEF RangeInv
<1> QED
  BY <1>1, <1>6, <1>7, BesideMain

\* The slots come back; an index that counts as compacted has none to give.
LEMMA ConsolidateKeepsDriver ==
    ASSUME DriverFacts, EraseConsolidate
    PROVE  DriverInv'
<1> USE DEF DriverFacts
<1>1. /\ Deleting /\ eraser.next >= DeleteEnd
      /\ Consolidate \/ UNCHANGED indexVars
      /\ \/ eraser' = [eraser EXCEPT !.step = "over"]
         \/ eraser' = [eraser EXCEPT !.step = "failed"]
      /\ UNCHANGED <<driver, saved>> /\ config' = config
  BY DEF EraseConsolidate, Consolidate, indexVars
<1>2. DriverTypeOK /\ config \in Configs
  BY DEF DriverInv
<1>3. eraser \in [next : Int, step : {"delete", "over", "failed"}] /\ eraser # None
  BY <1>1, <1>2, DriverFields DEF Deleting
<1>4. \E s \in {"over", "failed"} : eraser' = [next |-> eraser.next, step |-> s]
  BY <1>1, <1>3
<1>5. /\ eraser' # None /\ ~Deleting' /\ eraser'.next = eraser.next
      /\ eraser' \in [next : Int, step : {"delete", "over", "failed"}]
  BY <1>3, <1>4, EraserRecord DEF Deleting
<1>6. DriverTypeOK'
  BY <1>1, <1>2, <1>5 DEF DriverTypeOK
<1>7. ASSUME Whole, ~At("end") PROVE EraserInv' /\ RangeInv'
  <2>1. EraserInv /\ RangeInv
    BY <1>7 DEF DriverInv
  <2>2. NextErased = eraser.next /\ NextErased' = NextErased
    BY <1>3, <1>5 DEF NextErased
  <2>3. Call.skip \in Nat /\ DeleteEnd \in Nat
    BY <1>2, <1>7, DriverNumbers DEF LeastOf
  <2>4. eraser.next = DeleteEnd /\ Call.skip <= NextErased
    BY <1>1, <1>3, <2>1, <2>2, <2>3 DEF EraserInv
  <2>5. EraserInv' /\ RowsIn' = RowsIn
    BY <1>1, <1>5, <2>1, <2>2, <2>3, <2>4, EraserBeside
  <2>6. CASE UNCHANGED indexVars
    BY <2>1, <2>2, <2>5, <2>6, RangeSame, IndexStays
  <2>7. CASE Consolidate
    <3>1. /\ delete_set # {} /\ delete_set' = {} /\ empty_slots' = empty_slots \cup delete_set
          /\ UNCHANGED <<config, location_to_tag, data_compacted, search>>
      BY <2>7 DEF Consolidate, readerVars
    <3>2. Live' = Live /\ Present' = Present /\ Slots' = Slots /\ TagsOnce'
      BY <2>1, <3>1, TagsUntouched DEF RangeInv
    <3>3. ~data_compacted'
      BY <2>1, <3>1 DEF RangeInv
    <3>4. Counted'
      <4>1. MaxPoints' = MaxPoints /\ MaxPoints \in Nat /\ Cardinality(Live) \in Nat
        BY <1>1, <1>2, SameArguments, ConfigType, LiveFinite
      <4>2. IsFiniteSet(delete_set)
        <5>1. IsFiniteSet(Slots) /\ delete_set \subseteq Slots
          BY <2>1, <4>1, FS_Interval DEF Slots, RangeInv
        <5> QED
          BY <5>1, FS_Subset
      <4>3. Cardinality(delete_set) \in Nat
        BY <4>2, FS_CardinalityType
      <4>4. nd' = nd - Cardinality(delete_set) /\ Cardinality(Live) + Cardinality(delete_set) = nd
        BY <2>7 DEF Consolidate, CountsAgree
      <4>5. nd \in 0 .. MaxPoints
        BY <2>1 DEF RangeInv, Counted
      <4>6. nd' = Cardinality(Live) /\ nd' \in 0 .. MaxPoints
        BY <4>1, <4>3, <4>4, <4>5
      <4> QED
        BY <3>2, <4>1, <4>6 DEF Counted
    <3> QED
      BY <2>1, <2>2, <2>5, <3>1, <3>2, <3>3, <3>4 DEF RangeInv
  <2> QED
    BY <1>1, <2>5, <2>6, <2>7
<1> QED
  BY <1>1, <1>6, <1>7, BesideMain

\* All rows in an index of as many slots, none of them deleted: it is full.
LEMMA RangeFills ==
    ASSUME config \in Configs, config.user = "insert_deletes", Whole, TagsOnce,
           config.max_points = Call.max_points,
           Present = {TagOfRow(j) : j \in Call.skip .. LastThreshold - 1}
    PROVE  Live = Slots /\ Cardinality(Live) = MaxPoints /\ Slots = 0 .. MaxPoints - 1
<1> DEFINE rows == Call.skip .. LastThreshold - 1
<1>1. /\ Call.skip \in Nat /\ Call.max_points \in Nat /\ MaxPoints = Call.max_points
      /\ LastThreshold = Call.skip + Call.max_points /\ Call.max_points > 0
  BY DriverNumbers DEF Whole, MaxPoints
<1>2. Cardinality(rows) = MaxPoints /\ IsFiniteSet(rows)
  <2> DEFINE last == LastThreshold - 1
  <2>1. /\ last \in Int /\ Call.skip \in Int /\ ~(Call.skip > last)
        /\ (last - Call.skip) + 1 = MaxPoints
    BY <1>1
  <2>2. rows = Call.skip .. last
    OBVIOUS
  <2> HIDE DEF last, rows
  <2> QED
    BY <2>1, <2>2, FS_Interval
<1>3. Cardinality(Slots) = MaxPoints /\ IsFiniteSet(Slots)
  <2> DEFINE last == MaxPoints - 1
  <2>1. last \in Int /\ 0 \in Int /\ ~(0 > last) /\ (last - 0) + 1 = MaxPoints
    BY <1>1
  <2>2. Slots = 0 .. last
    BY DEF Slots
  <2> HIDE DEF last
  <2> QED
    BY <2>1, <2>2, FS_Interval
<1>4. IsFiniteSet(Live) /\ Cardinality(Live) \in Nat
  BY LiveFinite
<1> DEFINE rowOf == [l \in Live |-> location_to_tag[l] - 1]
<1>5. rowOf \in Surjection(Live, rows)
  <2>1. \A j \in rows : TagOfRow(j) = j + 1 /\ (j + 1) - 1 = j
    BY <1>1 DEF TagOfRow
  <2>2. \A l \in Live : location_to_tag[l] \in {TagOfRow(j) : j \in rows}
    BY DEF Present
  <2>3. \A l \in Live : \E j \in rows : location_to_tag[l] = j + 1
    BY <2>1, <2>2
  <2>4. \A l \in Live : rowOf[l] \in rows
    BY <2>1, <2>3
  <2>5. \A j \in rows : \E l \in Live : location_to_tag[l] = j + 1
    <3>1. ASSUME NEW j \in rows PROVE \E l \in Live : location_to_tag[l] = TagOfRow(j)
      <4>1. TagOfRow(j) \in Present
        BY <3>1
      <4> QED
        BY <4>1 DEF Present
    <3> QED
      BY <2>1, <3>1
  <2>6. \A j \in rows : \E l \in Live : rowOf[l] = j
    BY <2>1, <2>5
  <2> QED
    BY <2>4, <2>6 DEF Surjection
<1>6. MaxPoints <= Cardinality(Live)
  BY <1>2, <1>4, <1>5, FS_Surjection
<1>7. Live \in SUBSET Slots
  BY DEF Live
<1>8. Cardinality(Live) = MaxPoints
  <2>1. Cardinality(Live) <= Cardinality(Slots)
    BY <1>3, <1>7, FS_Subset
  <2> QED
    BY <1>1, <1>3, <1>4, <1>6, <2>1
<1> QED
  BY <1>3, <1>7, <1>8, FS_Subset DEF Slots

\* The file has the rows that no deletion has come to.
LEMMA SaveKeepsDriver ==
    ASSUME DriverFacts, SaveLast
    PROVE  DriverInv'
<1> USE DEF DriverFacts
<1>1. At("save") /\ eraser' = eraser /\ config' = config
  BY DEF SaveLast, Save, indexVars
<1>2. /\ DriverTypeOK /\ config \in Configs
      /\ eraser' \in {None} \cup [next : Int, step : {"delete", "over", "failed"}]
  BY <1>1, DriverFields DEF DriverInv
<1>3. CASE Exit(-1)
  BY <1>1, <1>2, <1>3, DriverSteps, RunFails DEF At
<1>4. CASE Exit(0) /\ delete_set = {} /\ saved' = TagsInFile
  <2>1. DriverTypeOK' /\ At("end")'
    BY <1>2, <1>4, DriverSteps DEF At
  <2>2. /\ Call' = Call /\ LastThreshold' = LastThreshold /\ DeleteEnd' = DeleteEnd
        /\ (Whole' <=> Whole)
    BY <1>1, SameArguments
  <2>3. ASSUME Whole PROVE saved' = {TagOfRow(j) : j \in DeleteEnd .. LastThreshold - 1}
    <3>1. EraserInv /\ RangeInv
      BY <1>1, <2>3 DEF DriverInv, At
    <3>2. /\ Call.skip \in Nat /\ Call.max_points \in Nat /\ Call.delete \in Nat
          /\ LastThreshold = Call.skip + Call.max_points /\ Call.max_points > 0
          /\ DeleteEnd = Call.skip + LeastOf(Call.delete, Call.max_points)
      BY <1>2, <2>3, DriverNumbers DEF Whole
    <3>3. /\ DeleteEnd \in Nat /\ Call.skip <= DeleteEnd /\ LastThreshold \in Nat
      BY <3>2 DEF LeastOf
    <3>4. driver.start \in Nat /\ driver.start >= LastThreshold /\ NextErased = DeleteEnd
      BY <1>1, <1>2, <3>1, DriverFields DEF EraserInv
    <3>5. RowsIn = Call.skip .. LastThreshold - 1
      BY <1>1, <3>3, <3>4 DEF RowsIn, At, LeastOf
    <3>6. {k \in RowsIn : NextErased <= k} = DeleteEnd .. LastThreshold - 1
      BY <3>2, <3>3, <3>4, <3>5
    <3>7. Present = {TagOfRow(j) : j \in DeleteEnd .. LastThreshold - 1}
      BY <3>1, <3>6 DEF RangeInv
    <3>8. TagsOnce /\ nd \in 0 .. MaxPoints /\ Cardinality(Live) <= nd
      BY <3>1 DEF RangeInv, Counted
    <3>9. ASSUME data_compacted PROVE Live \subseteq 0 .. nd - 1
      <4>1. nd = Cardinality(Live) /\ DeleteEnd = Call.skip
        BY <3>1, <3>4, <3>9 DEF RangeInv
      <4>2. config.max_points = Call.max_points
        BY <3>2 DEF DriverInv
      <4>3. Live = Slots /\ Cardinality(Live) = MaxPoints /\ Slots = 0 .. MaxPoints - 1
        BY <1>2, <2>3, <3>1, <3>7, <4>1, <4>2, RangeFills DEF RangeInv
      <4> QED
        BY <4>1, <4>3
    <3> QED
      BY <1>2, <1>4, <3>7, <3>8, <3>9, TagsWritten
  <2>4. RangeSaved'
    BY <2>2, <2>3 DEF RangeSaved, Whole, TagOfRow
  <2> QED
    BY <1>1, <2>1, <2>2, <2>4, SameArguments DEF DriverInv
<1> QED
  BY <1>3, <1>4 DEF SaveLast

\* The range before the first step.
LEMMA DriverInvInit ==
    ASSUME FilteredInit, config.user = "insert_deletes"
    PROVE  DriverInv
<1>1. /\ DriverInit /\ IndexInit /\ config \in Configs
      /\ config.max_points = IF Call.max_points = 0 THEN 1 ELSE Call.max_points
  BY DEF FilteredInit, Init, StreamInit, IndexInit, Call
<1>2. /\ driver = [at |-> "begin", start |-> 0, pending |-> {}, till_snapshot |-> 0, exit |-> Absent]
      /\ eraser = None
  BY <1>1 DEF DriverInit
<1>3. DriverTypeOK
  BY <1>2 DEF DriverTypeOK
<1>4. At("begin") /\ ~At("end") /\ ~At("next") /\ ~At("insert") /\ ~At("wait") /\ ~At("save")
  BY <1>2 DEF At
<1>5. ASSUME Whole PROVE EraserInv /\ RangeInv
  <2>1. NextErased = Call.skip /\ RowsIn = {}
    BY <1>2, <1>4 DEF NextErased, RowsIn
  <2>2. Call.skip \in Nat /\ Call.skip <= DeleteEnd
    BY <1>1, <1>5, DriverNumbers DEF LeastOf
  <2>3. EraserInv
    BY <1>1, <1>2, <1>4, <2>1, <2>2 DEF EraserInv, IndexInit
  <2>4. Live = {} /\ TagsOnce
    BY <1>1 DEF IndexInit, Live, TagsOnce
  <2>5. Present = {} /\ Cardinality(Live) = 0
    BY <2>4, FS_EmptySet DEF Present
  <2>6. nd = 0 /\ delete_set = {} /\ empty_slots = Slots /\ search = None
    BY <1>1 DEF IndexInit
  <2>7. Counted
    BY <1>1, <2>5, <2>6, ConfigType DEF Counted
  <2> QED
    BY <2>1, <2>3, <2>4, <2>5, <2>6, <2>7 DEF RangeInv
<1> QED
  BY <1>1, <1>3, <1>4, <1>5 DEF DriverInv, RangeSaved

LEMMA DriverInvNext ==
    ASSUME DriverFacts, DriverNext
    PROVE  DriverInv'
<1>1. ASSUME NEW j \in driver.pending, InsertRow(j) PROVE DriverInv'
  BY <1>1, InsertRowKeepsDriver
<1>2. ASSUME NEW j \in driver.pending, InsertLost(j) PROVE DriverInv'
  <2>1. /\ Exit(-1) /\ eraser' = eraser /\ config' = config
        /\ DriverTypeOK /\ DriverInv
    BY <1>2 DEF InsertLost, indexVars, DriverFacts, DriverInv
  <2> QED
    BY <2>1, DriverFields, DriverSteps, RunFails DEF At
<1> QED
  BY <1>1, <1>2, BeginKeepsDriver, NextInsertsKeepsDriver, LaunchKeepsDriver, JoinKeepsDriver,
     SaveKeepsDriver, EraseKeepsDriver, ConsolidateKeepsDriver DEF DriverNext

-----------------------------------------------------------------------------
(* The uses of an index together.                                          *)

FilteredInv ==
    /\ config \in Configs
    /\ config.user # "insert_deletes" => LabelInv
    /\ config.user = "streaming" => StreamInv /\ FileInv
    /\ config.user = "insert_deletes" => DriverInv

\* The parameters of an index and its use stay as they are.
LEMMA SameUse ==
    ASSUME IndexNext \/ StreamNext \/ DriverNext
    PROVE  config' = config
<1>1. CASE IndexNext
  BY <1>1 DEF IndexNext, InsertPoint, InsertDuplicate, InsertThrow, LazyDelete, DeleteAbsent,
              Consolidate, SearchBegin, SearchVisit, SearchEnd, Save
<1>2. CASE StreamNext
  BY <1>2 DEF StreamNext, RefuseStream, StartStream, InsertNext, InsertFull, InsertPoint,
              AfterBatch, Launch, LeaveBlock, NextBatch, LastWait, SaveWindow, Save, TaskBegin,
              TaskDelete, LazyDelete, DeleteAbsent, TaskConsolidate, Consolidate, indexVars
<1>3. CASE DriverNext
  BY <1>3 DEF DriverNext, RefuseDriver, UnknownType, Begin, BuildBeginning, NextInserts,
              LaunchDeletes, Snapshot, MoveFrozenUp, StartDeletes, JoinDeletes, AfterDeletes,
              SaveLast, Save, InsertRow, InsertLost, InsertPoint, EraseRow, LazyDelete, DeleteAbsent,
              EraseConsolidate, Consolidate, indexVars
<1> QED
  BY <1>1, <1>2, <1>3

LEMMA FilteredInvInit ==
    ASSUME FilteredInit PROVE FilteredInv
<1>1. IndexInit /\ config \in Configs
  BY DEF FilteredInit, Init, StreamInit, IndexInit
<1>2. FileInv
  <2>1. task = None
    BY DEF FilteredInit, Init, StreamInit
  <2> QED
    BY <2>1 DEF FileInv, Erased
<1> QED
  BY <1>1, <1>2, LabelInvInit, StreamInvInit, DriverInvInit DEF FilteredInv

LEMMA FilteredStutters ==
    ASSUME FilteredInv, UNCHANGED <<indexVars, streamVars, driverVars>> PROVE FilteredInv'
<1>1. /\ UNCHANGED indexVars /\ UNCHANGED <<main, start, pending, task, lost>>
      /\ UNCHANGED <<driver, eraser, saved>> /\ config' = config
      /\ UNCHANGED <<config, slotVars, search>>
  BY IndexStays DEF streamVars, driverVars, indexVars
<1>2. config.user # "insert_deletes" => LabelInv'
  BY <1>1, LabelInvNext DEF FilteredInv
<1>3. UNCHANGED <<config, location_to_tag, nd, empty_slots, delete_set, data_compacted, search>>
  BY <1>1 DEF slotVars
<1>4. Live' = Live /\ Present' = Present
  BY <1>3, TagsUntouched
<1>5. ASSUME config.user = "streaming" PROVE StreamInv' /\ FileInv'
  <2>1. /\ StreamInv /\ FileInv /\ (Proper' <=> Proper) /\ MaxPointsToInsert' = MaxPointsToInsert
        /\ BatchEnd' = BatchEnd
    BY <1>1, <1>5, SameCall DEF FilteredInv, BatchEnd
  <2>2. StreamTypeOK' /\ (BatchInv => BatchInv')
    BY <1>1, <2>1 DEF StreamInv, StreamTypeOK, BatchInv, MaxPoints, Capacity
  <2>3. ASSUME Proper, ~lost PROVE TaskInv' /\ LaunchInv' /\ WindowInv'
    <3>1. TaskInv /\ LaunchInv /\ WindowInv
      BY <2>1, <2>3 DEF StreamInv
    <3>2. TaskInv' /\ LaunchInv'
      BY <1>1, <3>1 DEF TaskInv, LaunchInv, NoTaskYet, TaskOver
    <3>3. Inserted' = Inserted /\ Erased' = Erased /\ Reclaimed' = Reclaimed
      BY <1>1, <2>1 DEF Inserted, Erased, Reclaimed
    <3> QED
      BY <1>3, <1>4, <3>1, <3>2, <3>3 DEF WindowInv
  <2>4. FileInv'
    <3>1. TagsInFile' = TagsInFile /\ Erased' = Erased
      BY <1>1, <1>3, FileStays DEF Erased
    <3> QED
      BY <1>1, <1>3, <1>4, <2>1, <3>1 DEF FileInv
  <2> QED
    BY <1>1, <2>1, <2>2, <2>3, <2>4 DEF StreamInv
<1>6. ASSUME config.user = "insert_deletes" PROVE DriverInv'
  <2>1. DriverInv
    BY <1>6 DEF FilteredInv
  <2>2. DriverTypeOK'
    BY <1>1, <2>1 DEF DriverInv, DriverTypeOK
  <2>3. /\ Call' = Call /\ LastThreshold' = LastThreshold /\ DeleteEnd' = DeleteEnd
        /\ BatchEndRow' = BatchEndRow
    BY <1>1, SameArguments DEF BatchEndRow
  <2>4. RowsIn' = RowsIn /\ NextErased' = NextErased
    BY <1>1, <2>3 DEF RowsIn, NextErased, At
  <2>5. EraserInv => EraserInv'
    BY <1>1, <1>3, <2>3, <2>4 DEF EraserInv, At, Deleting
  <2>6. RangeInv => RangeInv'
    BY <1>1, <2>4, RangeSame
  <2> QED
    BY <1>1, <2>1, <2>2, <2>5, <2>6, BesideMain DEF DriverInv
<1> QED
  BY <1>1, <1>2, <1>5, <1>6 DEF FilteredInv

LEMMA FilteredInvNext ==
    ASSUME FilteredInv, [FilteredNext]_filteredVars PROVE FilteredInv'
<1>1. CASE config.user = "callers" /\ IndexNext
  BY <1>1, SameUse, LabelInvNext DEF FilteredInv
<1>2. CASE config.user = "streaming" /\ StreamNext
  <2>1. StreamInv' /\ LabelInv' /\ LabelInv /\ FileInv /\ StreamFacts
    BY <1>2, StreamInvNext DEF FilteredInv, StreamFacts
  <2>2. FileInv'
    BY <1>2, <2>1, FileInvNext
  <2> QED
    BY <1>2, <2>1, <2>2, SameUse DEF FilteredInv
<1>3. CASE config.user = "insert_deletes" /\ DriverNext
  BY <1>3, SameUse, DriverInvNext DEF FilteredInv, DriverFacts
<1>4. CASE UNCHANGED <<scenarioVars, driverVars>>
  BY <1>4, FilteredStutters DEF scenarioVars
<1> QED
  BY <1>1, <1>2, <1>3, <1>4 DEF FilteredNext, filteredVars

\* An index in use is within the invariant of its user.
LEMMA FilteredInvHolds == FilteredSpec => []FilteredInv
<1>1. FilteredInit => FilteredInv
  BY FilteredInvInit
<1>2. FilteredInv /\ [FilteredNext]_filteredVars => FilteredInv'
  BY FilteredInvNext
<1> QED
  BY <1>1, <1>2, PTL DEF FilteredSpec

\* What a run that ends well has kept, and what its file has: the window, once a task has
\* taken points away, and the range without its beginning, where the file has all the
\* rows; for every size of the file, the batches, the window and the range, and however
\* the tasks overtake or fall behind the batches.  Of the runs whose index counts as
\* compacted with slots to spare, and of tasks that have lost their range, it says
\* nothing: RangeSaved and WindowSaved name them.
THEOREM SavedIsAskedHolds == FilteredSpec => []SavedIsAsked
<1>1. FilteredInv => SavedIsAsked
  <2>1. ASSUME FilteredInv PROVE WindowSaved
    <3>1. CASE config.user = "streaming"
      BY <2>1, <3>1, StreamSaves DEF FilteredInv
    <3>2. CASE config.user # "streaming"
      BY <3>2 DEF WindowSaved
    <3> QED
      BY <3>1, <3>2
  <2>2. ASSUME FilteredInv PROVE RangeSaved
    BY <2>2 DEF FilteredInv, DriverInv, RangeSaved
  <2> QED
    BY <2>1, <2>2 DEF SavedIsAsked
<1> QED
  BY <1>1, FilteredInvHolds, PTL

\* Callers and the sliding window keep the labels with their tags and every label's
\* frozen point, also where the window reuses the slots of points it took away.
THEOREM WindowKeepsLabels ==
    FilteredSpec =>
        [](config.user # "insert_deletes" => LabelsInPlace /\ StartsInPlace)
<1>1. FilteredInv => (config.user # "insert_deletes" => LabelsInPlace /\ StartsInPlace)
  BY DEF FilteredInv, LabelInv
<1> QED
  BY <1>1, FilteredInvHolds, PTL

-----------------------------------------------------------------------------
(* Stitching: lists and walks.                                             *)

\* The members of a set of numbers in order are a list of them.
LEMMA OrderedList ==
    ASSUME NEW S, IsFiniteSet(S), S \subseteq Nat
    PROVE  RankOrder(S) \in Seq(S) /\ Len(RankOrder(S)) = Cardinality(S)
<1>1. RankOrder(S) \in [1 .. Cardinality(S) -> S] /\ Cardinality(S) \in Nat
  BY RankOrderType
<1> QED
  BY <1>1

\* A list keeps what it had and gets all the new neighbours.
LEMMA AddedHasBoth ==
    ASSUME NEW T, NEW list \in Seq(T), NEW new \in Seq(T)
    PROVE  /\ Added(list, new) \in Seq(T)
           /\ ToSet(list) \subseteq ToSet(Added(list, new))
           /\ ToSet(new) \subseteq ToSet(Added(list, new))
<1> DEFINE Fresh == {i \in 1 .. Len(new) : \A j \in 1 .. Len(list) : list[j] # new[i]}
           k == Cardinality(Fresh)
           kept == Picked(new, Fresh)
           both == list \o kept
<1>1. IsFiniteSet(Fresh) /\ Fresh \subseteq 1 .. Len(new) /\ Fresh \subseteq Nat
  <2>1. Fresh \in SUBSET (1 .. Len(new)) /\ IsFiniteSet(1 .. Len(new)) /\ 1 .. Len(new) \subseteq Nat
    BY FS_Interval
  <2> QED
    BY <2>1, FS_Subset
<1>2. Added(list, new) = both
  BY DEF Added
<1>3. \A i \in 1 .. Len(new) : i \notin Fresh => \E j \in 1 .. Len(list) : list[j] = new[i]
  OBVIOUS
<1> HIDE DEF Fresh
<1>4. /\ k \in Nat /\ RankOrder(Fresh) \in [1 .. k -> Fresh]
      /\ \A i \in Fresh : \E n \in 1 .. k : RankOrder(Fresh)[n] = i
  BY <1>1, RankOrderType
<1>5. kept = [n \in 1 .. k |-> new[RankOrder(Fresh)[n]]]
  BY DEF Picked
<1>6. kept \in Seq(T) /\ Len(kept) = k
  <2>1. \A n \in 1 .. k : new[RankOrder(Fresh)[n]] \in T
    <3>1. \A i \in 1 .. Len(new) : new[i] \in T
      OBVIOUS
    <3>2. \A n \in 1 .. k : RankOrder(Fresh)[n] \in 1 .. Len(new)
      BY <1>1, <1>4, Zenon
    <3> QED
      BY <3>1, <3>2, Zenon
  <2> HIDE DEF kept, k
  <2> QED
    BY <1>4, <1>5, <2>1
<1>7. \A i \in Fresh : \E n \in 1 .. Len(kept) : kept[n] = new[i]
  BY <1>4, <1>5, <1>6
<1> HIDE DEF kept, k
<1>8. /\ both \in Seq(T) /\ Len(both) = Len(list) + Len(kept)
      /\ \A j \in 1 .. Len(list) : j \in 1 .. Len(both) /\ both[j] = list[j]
      /\ \A n \in 1 .. Len(kept) :
            Len(list) + n \in 1 .. Len(both) /\ both[Len(list) + n] = kept[n]
  BY <1>6
<1> HIDE DEF both
<1>9. DOMAIN both = 1 .. Len(both) /\ DOMAIN list = 1 .. Len(list) /\ DOMAIN new = 1 .. Len(new)
  BY <1>8
<1>10. \A j \in 1 .. Len(list) : list[j] \in ToSet(both)
  BY <1>8, <1>9 DEF ToSet
<1>11. \A n \in 1 .. Len(kept) : kept[n] \in ToSet(both)
  BY <1>8, <1>9 DEF ToSet
<1>12. \A i \in 1 .. Len(new) : new[i] \in ToSet(both)
  BY <1>3, <1>7, <1>10, <1>11, Zenon
<1> QED
  BY <1>2, <1>8, <1>9, <1>10, <1>12 DEF ToSet

\* A walk of one graph whose nodes and lists have their images in another is
\* followed there, round by round.
LEMMA WalkFollowed ==
    ASSUME NEW X, NEW g, NEW S, NEW n \in Nat, NEW h, NEW T, NEW m \in Nat, NEW image,
           S \subseteq X, \A x \in X : g[x] \subseteq X, n <= m,
           \A x \in S : image[x] \in T,
           \A x \in X : \A y \in g[x] : image[y] \in h[image[x]]
    PROVE  \A x \in Spread(g, S, n)[n] : image[x] \in Spread(h, T, m)[m]
<1> DEFINE r == Spread(g, S, n)
           t == Spread(h, T, m)
           Good == {i \in 0 .. n : r[i] \subseteq X /\ \A x \in r[i] : image[x] \in t[i]}
           Later == {i \in 0 .. m : i >= n => t[n] \subseteq t[i]}
<1>1. r[0] = S /\ \A i \in 1 .. n : r[i] = r[i - 1] \cup UNION {g[x] : x \in r[i - 1]}
  BY SpreadRounds
<1>2. t[0] = T /\ \A i \in 1 .. m : t[i] = t[i - 1] \cup UNION {h[x] : x \in t[i - 1]}
  BY SpreadRounds
<1> HIDE DEF r, t
<1>3. 0 \in Good
  BY <1>1, <1>2
<1>4. ASSUME NEW i \in 1 .. n, i - 1 \in Good PROVE i \in Good
  <2>1. r[i] = r[i - 1] \cup UNION {g[x] : x \in r[i - 1]}
    BY <1>1
  <2>2. t[i] = t[i - 1] \cup UNION {h[x] : x \in t[i - 1]}
    BY <1>2
  <2>3. r[i - 1] \subseteq X /\ \A x \in r[i - 1] : image[x] \in t[i - 1]
    BY <1>4
  <2>4. ASSUME NEW y \in r[i] PROVE y \in X /\ image[y] \in t[i]
    <3>1. CASE y \in r[i - 1]
      BY <3>1, <2>2, <2>3
    <3>2. CASE y \notin r[i - 1]
      <4>1. PICK x \in r[i - 1] : y \in g[x]
        BY <3>2, <2>1
      <4>2. x \in X /\ image[x] \in t[i - 1]
        BY <2>3
      <4>3. y \in X /\ image[y] \in h[image[x]]
        BY <4>1, <4>2
      <4> QED
        BY <4>2, <4>3, <2>2
    <3> QED
      BY <3>1, <3>2
  <2> QED
    BY <2>4
<1>5. 0 .. n \subseteq Good
  <2> HIDE DEF Good
  <2> QED
    BY <1>3, <1>4, Rounds
<1>6. 0 \in Later
  OBVIOUS
<1>7. ASSUME NEW i \in 1 .. m, i - 1 \in Later PROVE i \in Later
  <2>1. t[i - 1] \subseteq t[i]
    BY <1>2
  <2>2. CASE i > n
    BY <1>7, <2>1, <2>2
  <2>3. CASE i <= n
    BY <2>3
  <2> QED
    BY <2>2, <2>3
<1>8. 0 .. m \subseteq Later
  <2> HIDE DEF Later
  <2> QED
    BY <1>6, <1>7, Rounds
<1>9. t[n] \subseteq t[m] /\ \A x \in r[n] : image[x] \in t[n]
  <2>1. m \in 0 .. m /\ n \in 0 .. n
    OBVIOUS
  <2> QED
    BY <2>1, <1>5, <1>8
<1> QED
  BY <1>9 DEF r, t

-----------------------------------------------------------------------------
(* Stitching: the lists of labels and graphs.                              *)

\* A list of points has what the label's graph has, by the points' own numbers.
HasStitched(lbl, graph) ==
    \A x \in Positions(lbl) : \A y \in NeighborsIn(lbl)[x] :
        label_points[lbl][y + 1] \in ToSet(graph[label_points[lbl][x + 1]])

HasLabelGraph(lbl) == label_graph[lbl] \in [Positions(lbl) -> Seq(Positions(lbl))]

StitchTyped ==
    /\ file_labels \in Labelled
    /\ stage # "parse" =>
          /\ label_points = [lbl \in AllLabelsOfFile |-> PointsWith(lbl)]
          /\ DOMAIN label_graph \subseteq AllLabelsOfFile
          /\ DOMAIN entry_points \subseteq DOMAIN label_graph
          /\ \A lbl \in DOMAIN label_graph : HasLabelGraph(lbl)

\* What has been stitched stays in the lists until the full index has been saved.
StitchHeld ==
    /\ stage \in {"parse", "build", "stitch", "save", "prune", "done"}
    /\ stage \in {"build", "stitch", "save"} =>
          /\ stitched_graph \in [Points -> Seq(Points)]
          /\ \A lbl \in DOMAIN entry_points : HasStitched(lbl, stitched_graph)
    /\ stage = "save" => DOMAIN entry_points = DOMAIN label_graph
    /\ Stitched => \A lbl \in DOMAIN label_graph : HasStitched(lbl, full_index)

StitchInv == StitchTyped /\ StitchHeld

\* The points of a file are numbered from 0.
LEMMA PointsOfFile ==
    ASSUME file_labels \in Labelled
    PROVE  /\ Len(file_labels) \in Nat
           /\ IsFiniteSet(Points) /\ Cardinality(Points) = Len(file_labels) /\ Points \subseteq Nat
<1>1. file_labels \in Seq(UNION {ToSet(f) : f \in Labelled})
  BY StitchAssumption
<1>2. Len(file_labels) \in Nat
  BY <1>1
<1> DEFINE num == Len(file_labels)
<1>3. IsFiniteSet(0 .. num - 1) /\ Cardinality(0 .. num - 1) = num /\ 0 .. num - 1 \subseteq Nat
  <2> HIDE DEF num
  <2>1. num \in Nat
    BY <1>2 DEF num
  <2> QED
    BY <2>1, FS_Interval
<1> QED
  BY <1>2, <1>3 DEF Points

\* A label's points are listed once each, and have the label or the universal one.
LEMMA PointsOfLabel ==
    ASSUME StitchTyped, stage # "parse", NEW lbl \in AllLabelsOfFile
    PROVE  /\ Len(label_points[lbl]) \in Nat /\ Len(label_points[lbl]) <= Len(file_labels)
           /\ Positions(lbl) \subseteq Nat /\ IsFiniteSet(Positions(lbl))
           /\ Cardinality(Positions(lbl)) = Len(label_points[lbl])
           /\ \A x \in Positions(lbl) : label_points[lbl][x + 1] \in Points \cap Matching(lbl)
           /\ \A x, y \in Positions(lbl) : label_points[lbl][x + 1] = label_points[lbl][y + 1] => x = y
<1> DEFINE S == {p \in Points : lbl \in PointIdsToLabels(p)}
           k == Cardinality(S)
<1>1. label_points[lbl] = RankOrder(S)
  BY DEF StitchTyped, PointsWith
<1>2. /\ Len(file_labels) \in Nat /\ IsFiniteSet(Points) /\ Cardinality(Points) = Len(file_labels)
      /\ Points \subseteq Nat
  BY PointsOfFile DEF StitchTyped
<1>3. IsFiniteSet(S) /\ S \subseteq Nat /\ k <= Len(file_labels) /\ S \subseteq Points
  <2>1. S \in SUBSET Points
    OBVIOUS
  <2> QED
    BY <1>2, <2>1, FS_Subset
<1>4. S \subseteq Matching(lbl)
  <2>1. ASSUME NEW p \in Points, lbl \in PointIdsToLabels(p)
        PROVE  lbl \in LabelsOfPoint(p) \/ UniversalId \in LabelsOfPoint(p)
    BY <2>1 DEF PointIdsToLabels, UniversalPoints, IsUniversal
  <2> QED
    BY <2>1 DEF Matching
<1> HIDE DEF S
<1>5. /\ k \in Nat /\ RankOrder(S) \in [1 .. k -> S]
      /\ \A n \in 1 .. k : Rank(RankOrder(S)[n], S) = n - 1
  BY <1>3, RankOrderType
<1>6. Len(RankOrder(S)) = k
  BY <1>5
<1>7. Positions(lbl) = 0 .. k - 1
  BY <1>1, <1>6 DEF Positions
<1>8. ASSUME NEW x \in Positions(lbl)
      PROVE  label_points[lbl][x + 1] \in S /\ Rank(label_points[lbl][x + 1], S) = x
  <2>1. x \in Nat /\ x + 1 \in 1 .. k /\ (x + 1) - 1 = x
    BY <1>5, <1>7
  <2> QED
    BY <1>1, <1>5, <2>1
<1>9. IsFiniteSet(Positions(lbl)) /\ Cardinality(Positions(lbl)) = k
  BY <1>5, <1>7, FS_Interval
<1>10. Positions(lbl) \subseteq Nat
  BY <1>7
<1> QED
  BY <1>1, <1>3, <1>4, <1>6, <1>5, <1>8, <1>9, <1>10

-----------------------------------------------------------------------------
(* Stitching: the invariant.                                               *)

LEMMA StitchInitially ==
    StitchInit => StitchInv
BY DEF StitchInit, StitchInv, StitchTyped, StitchHeld, Stitched

\* What is read off the file stays as it is.
LEMMA SameFile ==
    ASSUME UNCHANGED <<file_labels, raw_is_formatted>>
    PROVE  /\ Points' = Points /\ AllLabelsOfFile' = AllLabelsOfFile
           /\ \A lbl : PointsWith(lbl)' = PointsWith(lbl)
<1>1. Points' = Points
  BY DEF Points
<1>2. \A p : LabelsOfPoint(p)' = LabelsOfPoint(p)
  BY DEF LabelsOfPoint
<1>3. \A token : IsUniversal(token)' = IsUniversal(token)
  BY DEF IsUniversal
<1>4. AllLabelsOfFile' = AllLabelsOfFile
  BY <1>1, <1>2, <1>3 DEF AllLabelsOfFile
<1>5. UniversalPoints' = UniversalPoints
  BY <1>1, <1>2, <1>3 DEF UniversalPoints
<1>6. \A p : PointIdsToLabels(p)' = PointIdsToLabels(p)
  BY <1>2, <1>4, <1>5 DEF PointIdsToLabels
<1>7. \A lbl : PointsWith(lbl)' = PointsWith(lbl)
  BY <1>1, <1>6 DEF PointsWith
<1> QED
  BY <1>1, <1>4, <1>7

LEMMA ParseKeeps ==
    ASSUME StitchInv, Parse PROVE StitchInv'
<1>1. UNCHANGED <<file_labels, raw_is_formatted>> /\ stage' = "build"
  BY DEF Parse
<1>2. /\ Points' = Points /\ AllLabelsOfFile' = AllLabelsOfFile
      /\ \A lbl : PointsWith(lbl)' = PointsWith(lbl)
  BY <1>1, SameFile
<1>3. /\ label_points' = [lbl \in AllLabelsOfFile |-> PointsWith(lbl)]
      /\ label_graph' = [lbl \in {} |-> <<>>] /\ entry_points' = [lbl \in {} |-> 0]
      /\ stitched_graph' = [p \in Points |-> <<>>]
  BY DEF Parse
<1>4. DOMAIN label_graph' = {} /\ DOMAIN entry_points' = {}
  BY <1>3
<1>5. label_points' = [lbl \in AllLabelsOfFile' |-> PointsWith(lbl)']
  BY <1>2, <1>3
<1>6. stitched_graph' \in [Points' -> Seq(Points')]
  BY <1>2, <1>3
<1>7. StitchTyped'
  BY <1>1, <1>4, <1>5 DEF StitchInv, StitchTyped
<1>8. StitchHeld'
  BY <1>1, <1>4, <1>6 DEF StitchInv, StitchHeld, Stitched
<1> QED
  BY <1>7, <1>8 DEF StitchInv

\* A new label's graph leaves those of the others, and what has been stitched, as they are.
LEMMA BuildKeeps ==
    ASSUME StitchInv, NEW lbl, BuildLabelIndex(lbl) PROVE StitchInv'
<1>1. /\ stage = "build" /\ lbl \in DOMAIN label_points \ DOMAIN label_graph
      /\ UNCHANGED <<stage, file_labels, raw_is_formatted, label_points, stitched_graph,
                     final_index_size, entry_points, overrun, full_index>>
  BY DEF BuildLabelIndex
<1>2. /\ Points' = Points /\ AllLabelsOfFile' = AllLabelsOfFile
      /\ \A any : PointsWith(any)' = PointsWith(any)
  BY <1>1, SameFile
<1>3. /\ label_points = [any \in AllLabelsOfFile |-> PointsWith(any)]
      /\ DOMAIN label_graph \subseteq AllLabelsOfFile /\ DOMAIN entry_points \subseteq DOMAIN label_graph
      /\ \A any \in DOMAIN label_graph : HasLabelGraph(any)
      /\ StitchTyped /\ stage # "parse"
  BY <1>1 DEF StitchInv, StitchTyped
<1>4. lbl \in AllLabelsOfFile
  BY <1>1, <1>3
<1>5. \A any : Positions(any)' = Positions(any)
  BY <1>1 DEF Positions
<1>6. PICK g \in [Positions(lbl) -> {S \in SUBSET Positions(lbl) : Cardinality(S) <= MaxOut}] :
         label_graph' = [y \in DOMAIN label_graph \cup {lbl} |->
                           IF y = lbl THEN [x \in Positions(lbl) |-> RankOrder(g[x])]
                           ELSE label_graph[y]]
  BY DEF BuildLabelIndex
<1>7. /\ DOMAIN label_graph' = DOMAIN label_graph \cup {lbl}
      /\ label_graph'[lbl] = [x \in Positions(lbl) |-> RankOrder(g[x])]
      /\ \A y \in DOMAIN label_graph : label_graph'[y] = label_graph[y]
  BY <1>1, <1>6
<1>8. [x \in Positions(lbl) |-> RankOrder(g[x])] \in [Positions(lbl) -> Seq(Positions(lbl))]
  <2>1. Positions(lbl) \subseteq Nat /\ IsFiniteSet(Positions(lbl))
    BY <1>3, <1>4, PointsOfLabel
  <2>2. ASSUME NEW x \in Positions(lbl) PROVE RankOrder(g[x]) \in Seq(Positions(lbl))
    <3>1. g[x] \in SUBSET Positions(lbl)
      BY <1>6
    <3>2. IsFiniteSet(g[x]) /\ g[x] \subseteq Nat
      BY <2>1, <3>1, FS_Subset
    <3>3. RankOrder(g[x]) \in Seq(g[x])
      BY <3>2, OrderedList
    <3> QED
      BY <3>1, <3>3
  <2> QED
    BY <2>2
<1>9. ASSUME NEW y \in DOMAIN label_graph' PROVE HasLabelGraph(y)'
  <2>1. CASE y = lbl
    BY <2>1, <1>5, <1>7, <1>8 DEF HasLabelGraph
  <2>2. CASE y # lbl
    <3>1. y \in DOMAIN label_graph /\ label_graph'[y] = label_graph[y]
      BY <2>2, <1>7
    <3> QED
      BY <3>1, <1>3, <1>5 DEF HasLabelGraph
  <2> QED
    BY <2>1, <2>2
<1>10. StitchTyped'
  <2>1. label_points' = [any \in AllLabelsOfFile' |-> PointsWith(any)']
    BY <1>1, <1>2, <1>3
  <2>2. DOMAIN label_graph' \subseteq AllLabelsOfFile'
    BY <1>2, <1>3, <1>4, <1>7
  <2>3. DOMAIN entry_points' \subseteq DOMAIN label_graph'
    BY <1>1, <1>3, <1>7
  <2>4. file_labels' \in Labelled
    BY <1>1 DEF StitchInv, StitchTyped
  <2> QED
    BY <2>1, <2>2, <2>3, <2>4, <1>9 DEF StitchTyped
<1>11. ASSUME NEW any \in DOMAIN entry_points' PROVE HasStitched(any, stitched_graph)'
  <2>1. any \in DOMAIN label_graph /\ HasStitched(any, stitched_graph)
    BY <1>1, <1>3 DEF StitchInv, StitchHeld
  <2>2. NeighborsIn(any)' = NeighborsIn(any)
    BY <2>1, <1>5, <1>7 DEF NeighborsIn
  <2> QED
    BY <2>1, <2>2, <1>1, <1>5 DEF HasStitched
<1>12. StitchHeld'
  <2>1. stitched_graph' \in [Points' -> Seq(Points')]
    BY <1>1, <1>2 DEF StitchInv, StitchHeld
  <2> QED
    BY <2>1, <1>1, <1>11 DEF StitchHeld, Stitched
<1> QED
  BY <1>10, <1>12 DEF StitchInv

\* The list of each of the label's points gets the neighbours it has in the label's graph.
LEMMA StitchKeeps ==
    ASSUME StitchInv, NEW lbl, StitchLabel(lbl) PROVE StitchInv'
<1> DEFINE Holds(p) == \E x \in Positions(lbl) : label_points[lbl][x + 1] = p
           PosOf(p) == CHOOSE x \in Positions(lbl) : label_points[lbl][x + 1] = p
           list(p) == IF Holds(p) THEN Added(stitched_graph[p], Renamed(lbl, PosOf(p)))
                      ELSE stitched_graph[p]
<1>1. /\ stage = "stitch" /\ lbl \in DOMAIN label_graph \ DOMAIN entry_points
      /\ UNCHANGED <<stage, file_labels, raw_is_formatted, label_points, label_graph, full_index>>
      /\ stitched_graph' = [p \in Points |-> list(p)]
      /\ DOMAIN entry_points' = DOMAIN entry_points \cup {lbl}
  BY DEF StitchLabel
<1>2. /\ Points' = Points /\ AllLabelsOfFile' = AllLabelsOfFile
      /\ \A any : PointsWith(any)' = PointsWith(any)
  BY <1>1, SameFile
<1>3. /\ label_points = [any \in AllLabelsOfFile |-> PointsWith(any)]
      /\ DOMAIN label_graph \subseteq AllLabelsOfFile /\ DOMAIN entry_points \subseteq DOMAIN label_graph
      /\ \A any \in DOMAIN label_graph : HasLabelGraph(any)
      /\ StitchTyped /\ stage # "parse" /\ file_labels \in Labelled
  BY <1>1 DEF StitchInv, StitchTyped
<1>4. /\ stitched_graph \in [Points -> Seq(Points)]
      /\ \A any \in DOMAIN entry_points : HasStitched(any, stitched_graph)
  BY <1>1 DEF StitchInv, StitchHeld
<1>5. \A any : Positions(any)' = Positions(any) /\ NeighborsIn(any)' = NeighborsIn(any)
  BY <1>1 DEF Positions, NeighborsIn
<1>6. StitchTyped'
  <2>1. \A any : HasLabelGraph(any)' = HasLabelGraph(any)
    BY <1>1, <1>5 DEF HasLabelGraph
  <2>2. label_points' = [any \in AllLabelsOfFile' |-> PointsWith(any)']
    BY <1>1, <1>2, <1>3
  <2>3. DOMAIN label_graph' \subseteq AllLabelsOfFile' /\ DOMAIN entry_points' \subseteq DOMAIN label_graph'
    BY <1>1, <1>2, <1>3
  <2> QED
    BY <2>1, <2>2, <2>3, <1>1, <1>3 DEF StitchTyped
<1>7. ASSUME NEW any \in DOMAIN label_graph
      PROVE  /\ \A x \in Positions(any) : label_points[any][x + 1] \in Points
             /\ \A x, y \in Positions(any) : label_points[any][x + 1] = label_points[any][y + 1] => x = y
             /\ \A x \in Positions(any) : NeighborsIn(any)[x] \subseteq Positions(any)
  <2>1. any \in AllLabelsOfFile
    BY <1>3
  <2>2. \A x \in Positions(any) : label_graph[any][x] \in Seq(Positions(any))
    BY <1>3 DEF HasLabelGraph
  <2>3. \A x \in Positions(any) : NeighborsIn(any)[x] \subseteq Positions(any)
    BY <2>2 DEF NeighborsIn, ToSet
  <2> QED
    BY <1>3, <2>1, <2>3, PointsOfLabel
<1>8. ASSUME NEW x \in Positions(lbl)
      PROVE  /\ Renamed(lbl, x) \in Seq(Points)
             /\ \A y \in NeighborsIn(lbl)[x] : label_points[lbl][y + 1] \in ToSet(Renamed(lbl, x))
  <2>1. label_graph[lbl][x] \in Seq(Positions(lbl))
    BY <1>1, <1>3 DEF HasLabelGraph
  <2> DEFINE here == label_graph[lbl][x]
             num == Len(here)
  <2>2. NeighborsIn(lbl)[x] = ToSet(here)
    BY DEF NeighborsIn
  <2>3. Renamed(lbl, x) = [i \in 1 .. num |-> label_points[lbl][here[i] + 1]]
    BY DEF Renamed
  <2> HIDE DEF here
  <2>4. num \in Nat /\ DOMAIN here = 1 .. num /\ \A i \in 1 .. num : here[i] \in Positions(lbl)
    BY <2>1 DEF here
  <2>5. \A i \in 1 .. num : label_points[lbl][here[i] + 1] \in Points
    BY <1>1, <1>7, <2>4
  <2> HIDE DEF num
  <2>6. Renamed(lbl, x) \in Seq(Points) /\ DOMAIN Renamed(lbl, x) = 1 .. num
    BY <2>3, <2>4, <2>5
  <2>7. \A y \in ToSet(here) : \E i \in 1 .. num : Renamed(lbl, x)[i] = label_points[lbl][y + 1]
    BY <2>3, <2>4 DEF ToSet
  <2> QED
    BY <2>2, <2>6, <2>7 DEF ToSet
<1>9. ASSUME NEW p \in Points
      PROVE  /\ list(p) \in Seq(Points)
             /\ ToSet(stitched_graph[p]) \subseteq ToSet(list(p))
             /\ Holds(p) => ToSet(Renamed(lbl, PosOf(p))) \subseteq ToSet(list(p))
  <2>1. stitched_graph[p] \in Seq(Points)
    BY <1>4
  <2>2. CASE Holds(p)
    <3>1. PosOf(p) \in Positions(lbl)
      BY <2>2
    <3>2. Renamed(lbl, PosOf(p)) \in Seq(Points)
      BY <3>1, <1>8
    <3>3. list(p) = Added(stitched_graph[p], Renamed(lbl, PosOf(p)))
      BY <2>2
    <3> HIDE DEF Holds, PosOf, list
    <3> QED
      BY <2>1, <3>2, <3>3, AddedHasBoth
  <2>3. CASE ~Holds(p)
    BY <2>1, <2>3
  <2> QED
    BY <2>2, <2>3
<1>10. ASSUME NEW x \in Positions(lbl)
       PROVE  Holds(label_points[lbl][x + 1]) /\ PosOf(label_points[lbl][x + 1]) = x
  <2>1. \A z \in Positions(lbl) : label_points[lbl][z + 1] = label_points[lbl][x + 1] => z = x
    BY <1>1, <1>7
  <2> QED
    BY <2>1
<1> HIDE DEF Holds, PosOf, list
<1>11. ASSUME NEW any \in DOMAIN entry_points' PROVE HasStitched(any, stitched_graph')
  <2>1. any \in DOMAIN label_graph
    BY <1>1, <1>3
  <2>2. SUFFICES ASSUME NEW x \in Positions(any), NEW y \in NeighborsIn(any)[x]
                 PROVE  label_points[any][y + 1] \in ToSet(stitched_graph'[label_points[any][x + 1]])
    BY DEF HasStitched
  <2> DEFINE p == label_points[any][x + 1]
  <2>3. p \in Points /\ stitched_graph'[p] = list(p)
    BY <1>1, <1>7, <2>1
  <2>4. CASE any = lbl
    <3>1. Holds(p) /\ PosOf(p) = x
      BY <2>4, <1>10
    <3>2. label_points[any][y + 1] \in ToSet(Renamed(lbl, x))
      BY <2>4, <1>8
    <3> QED
      BY <2>3, <3>1, <3>2, <1>9
  <2>5. CASE any # lbl
    <3>1. label_points[any][y + 1] \in ToSet(stitched_graph[p])
      BY <2>5, <1>1, <1>4 DEF HasStitched
    <3> QED
      BY <2>3, <3>1, <1>9
  <2> QED
    BY <2>4, <2>5
<1>12. StitchHeld'
  <2>1. stitched_graph' \in [Points' -> Seq(Points')]
    BY <1>1, <1>2, <1>9
  <2>2. \A any \in DOMAIN entry_points' : HasStitched(any, stitched_graph)'
    BY <1>1, <1>5, <1>11 DEF HasStitched
  <2> QED
    BY <2>1, <2>2, <1>1 DEF StitchHeld, Stitched
<1> QED
  BY <1>6, <1>12 DEF StitchInv

LEMMA OthersKeep ==
    ASSUME StitchInv, BuildEnd \/ StitchEnd \/ SaveFull \/ PruneAndSave \/ UNCHANGED stitchVars
    PROVE  StitchInv'
<1>1. /\ UNCHANGED <<file_labels, raw_is_formatted, label_points, label_graph, entry_points>>
      /\ stage # "parse" => stage' # "parse"
      /\ stage = "parse" => stage' = "parse"
  BY DEF BuildEnd, StitchEnd, SaveFull, PruneAndSave, stitchVars
<1>2. /\ Points' = Points /\ AllLabelsOfFile' = AllLabelsOfFile
      /\ \A lbl : PointsWith(lbl)' = PointsWith(lbl)
  BY <1>1, SameFile
<1>3. \A lbl : Positions(lbl)' = Positions(lbl) /\ NeighborsIn(lbl)' = NeighborsIn(lbl)
  BY <1>1 DEF Positions, NeighborsIn
<1>4. StitchTyped'
  <2>1. \A lbl : HasLabelGraph(lbl)' = HasLabelGraph(lbl)
    BY <1>1, <1>3 DEF HasLabelGraph
  <2>2. stage' # "parse" => label_points' = [lbl \in AllLabelsOfFile' |-> PointsWith(lbl)']
    BY <1>1, <1>2 DEF StitchInv, StitchTyped
  <2> QED
    BY <2>1, <2>2, <1>1, <1>2 DEF StitchInv, StitchTyped
<1>5. /\ stage \in {"parse", "build", "stitch", "save", "prune", "done"}
      /\ stage \in {"build", "stitch", "save"} =>
            /\ stitched_graph \in [Points -> Seq(Points)]
            /\ \A lbl \in DOMAIN entry_points : HasStitched(lbl, stitched_graph)
      /\ stage = "save" => DOMAIN entry_points = DOMAIN label_graph
      /\ stage \in {"prune", "done"} => \A lbl \in DOMAIN label_graph : HasStitched(lbl, full_index)
  BY DEF StitchInv, StitchHeld, Stitched
<1>6. \A lbl, graph : (HasStitched(lbl, stitched_graph) /\ stitched_graph' = stitched_graph
                         => HasStitched(lbl, stitched_graph)')
  BY <1>1, <1>3 DEF HasStitched
<1>7. \A lbl : /\ HasStitched(lbl, full_index) /\ full_index' = full_index => HasStitched(lbl, full_index)'
               /\ HasStitched(lbl, stitched_graph) /\ full_index' = stitched_graph
                     => HasStitched(lbl, full_index)'
  BY <1>1, <1>3 DEF HasStitched
<1>8. /\ stage' \in {"parse", "build", "stitch", "save", "prune", "done"}
      /\ stage' \in {"build", "stitch", "save"} =>
            stage \in {"build", "stitch", "save"} /\ stitched_graph' = stitched_graph
      /\ stage' = "save" => DOMAIN entry_points = DOMAIN label_graph
      /\ stage' \in {"prune", "done"} =>
            \/ stage \in {"prune", "done"} /\ full_index' = full_index
            \/ stage = "save" /\ full_index' = stitched_graph
  BY <1>5 DEF BuildEnd, StitchEnd, SaveFull, PruneAndSave, stitchVars
<1>9. StitchHeld'
  BY <1>1, <1>2, <1>5, <1>6, <1>7, <1>8 DEF StitchHeld, Stitched
<1> QED
  BY <1>4, <1>9 DEF StitchInv

LEMMA StitchStep ==
    ASSUME StitchInv, StitchNext \/ UNCHANGED stitchVars PROVE StitchInv'
<1>1. CASE Parse
  BY <1>1, ParseKeeps
<1>2. CASE \E lbl \in DOMAIN label_points : BuildLabelIndex(lbl)
  BY <1>2, BuildKeeps
<1>3. CASE \E lbl \in DOMAIN label_points : StitchLabel(lbl)
  BY <1>3, StitchKeeps
<1>4. CASE BuildEnd \/ StitchEnd \/ SaveFull \/ PruneAndSave \/ UNCHANGED stitchVars
  BY <1>4, OthersKeep
<1> QED
  BY <1>1, <1>2, <1>3, <1>4, Zenon DEF StitchNext

-----------------------------------------------------------------------------
(* Stitching: what a search of a label finds.                              *)

LEMMA StitchedReach ==
    ASSUME StitchInv PROVE LabelReachKept
<1>1. SUFFICES ASSUME Stitched, NEW lbl \in DOMAIN label_graph,
                      NEW x \in Positions(lbl), label_points[lbl][x + 1] = entry_points[lbl],
                      NEW y \in From({x}, NeighborsIn(lbl))
               PROVE  label_points[lbl][y + 1] \in FilteredFrom(lbl)
  BY DEF LabelReachKept
<1>2. /\ StitchTyped /\ stage # "parse" /\ lbl \in AllLabelsOfFile
      /\ HasLabelGraph(lbl) /\ HasStitched(lbl, full_index) /\ file_labels \in Labelled
  BY <1>1 DEF StitchInv, StitchTyped, StitchHeld, Stitched
<1> DEFINE X == Positions(lbl)
           g == NeighborsIn(lbl)
           h == [p \in Points |-> ToSet(full_index[p]) \cap Matching(lbl)]
           T == {entry_points[lbl], 0} \cap Matching(lbl)
           image == [z \in X |-> label_points[lbl][z + 1]]
           n == Len(label_points[lbl])
           m == Len(file_labels)
<1>3. /\ n \in Nat /\ n <= m /\ m \in Nat
      /\ Cardinality(X) = n /\ Cardinality(Points) = m
      /\ \A z \in X : label_points[lbl][z + 1] \in Points \cap Matching(lbl)
  BY <1>2, PointsOfLabel, PointsOfFile
<1>4. \A z \in X : g[z] \subseteq X
  <2>1. \A z \in X : label_graph[lbl][z] \in Seq(X)
    BY <1>2 DEF HasLabelGraph
  <2> QED
    BY <2>1 DEF NeighborsIn, ToSet
<1>5. \A z \in X : \A w \in g[z] : image[w] \in h[image[z]]
  BY <1>2, <1>3, <1>4 DEF HasStitched
<1>6. \A z \in {x} : image[z] \in T
  BY <1>1, <1>3
<1>7. From({x}, g) = Spread(g, {x}, n)[n]
  <2>1. DOMAIN g = X
    BY DEF NeighborsIn
  <2> QED
    BY <2>1, <1>3 DEF From, Spread
<1>8. FilteredFrom(lbl) = Spread(h, T, m)[m]
  <2>1. FilteredFrom(lbl) = From(T, h)
    BY DEF FilteredFrom
  <2>2. DOMAIN h = Points
    OBVIOUS
  <2> HIDE DEF h, T
  <2> QED
    BY <2>1, <2>2, <1>3 DEF From, Spread
<1>9. y \in Spread(g, {x}, n)[n] /\ {x} \subseteq X
  BY <1>1, <1>7
<1>10. Spread(g, {x}, n)[n] \subseteq X
  <2> HIDE DEF X, g, n
  <2> QED
    BY <1>3, <1>4, <1>9, SpreadWithin
<1>11. \A z \in X : image[z] = label_points[lbl][z + 1]
  OBVIOUS
<1> HIDE DEF X, g, h, T, image, n, m
<1>12. \A z \in Spread(g, {x}, n)[n] : image[z] \in Spread(h, T, m)[m]
  BY <1>3, <1>4, <1>5, <1>6, <1>9, WalkFollowed
<1> QED
  BY <1>8, <1>9, <1>10, <1>11, <1>12

\* A filtered search of the full index finds what a search of a label's own graph
\* finds from the label's entry point, unless that was read past the end: the lists
\* stitch_label_indices renames and adds to lose no neighbour of an earlier label
\* (filter_utils.cpp, build_stitched_index.cpp), for any label file, any graphs of
\* the labels and any order of stitching.
THEOREM LabelReachKeptHolds ==
    FilteredSpec => []LabelReachKept
<1>1. FilteredInit => StitchInv
  BY StitchInitially DEF FilteredInit, Init
<1>2. StitchInv /\ [FilteredNext]_filteredVars => StitchInv'
  <2>1. FilteredNext => StitchNext \/ UNCHANGED stitchVars
    BY DEF FilteredNext
  <2>2. UNCHANGED filteredVars => UNCHANGED stitchVars
    BY DEF filteredVars
  <2> QED
    BY <2>1, <2>2, StitchStep
<1>3. StitchInv => LabelReachKept
  BY StitchedReach
<1> QED
  BY <1>1, <1>2, <1>3, PTL DEF FilteredSpec
=============================================================================
