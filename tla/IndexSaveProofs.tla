-------------------------- MODULE IndexSaveProofs --------------------------
(***************************************************************************)
(* Proofs about IndexSave, for any number of slots, frozen points and      *)
(* tags: a tag leads to the vector inserted with it, through compactions,  *)
(* saves that complete, fail or end halfway, and loads, and what an index  *)
(* holds survives a save and a load, up to the points at whose rows a save *)
(* puts the frozen points.                                                 *)
(*                                                                         *)
(* In the first half only the vectors matter: what happens to the lists is *)
(* left opaque.                                                            *)
(***************************************************************************)
EXTENDS IndexSave, RankProofs, SequenceTheorems

-----------------------------------------------------------------------------
(* The inductive invariant.                                                *)

\* A store has a value for each row.
OnRows(f) == f = [r \in Rows |-> f[r]]

Lines == {"idle", "graph", "data", "tags", "end"}
RowCounts == NumFrozen .. MaxCapacity + NumFrozen

TypeInv ==
    /\ setup \in Setups
    /\ max_points \in 1 .. MaxCapacity /\ nd \in 0 .. max_points
    /\ location_to_tag \in [Rows -> Tags \cup {ZeroTag, NoTag}]
    /\ OnRows(data_store)
    /\ saving \in Lines

\* A slot is used, deleted or free, and not two of these.
SlotsApart ==
    /\ empty_slots \in Seq(Slots)
    /\ \A i, j \in 1 .. Len(empty_slots) : empty_slots[i] = empty_slots[j] => i = j
    /\ Len(empty_slots) + nd = max_points
    /\ delete_set \subseteq Slots
    /\ LiveSlots \cap delete_set = {}
    /\ ToSet(empty_slots) \cap (LiveSlots \cup delete_set) = {}

\* A start among the slots that is neither a point nor free: it was deleted, and
\* the consolidation that threw on it has forgotten what was deleted.
Forgotten == ~data_compacted /\ start \in Slots \ (LiveSlots \cup ToSet(empty_slots))

\* _nd counts the points and what is deleted, and also what is forgotten.
Counted ==
    /\ Cardinality(LiveSlots) + Cardinality(delete_set) <= nd
    /\ ~mixed => Cardinality(LiveSlots) + Cardinality(delete_set) = nd \/ Forgotten

\* The tag maps agree.
TagsApart ==
    ~mixed => /\ \A l \in LiveSlots : location_to_tag[l] \in Tags
              /\ \A k, l \in LiveSlots : location_to_tag[k] = location_to_tag[l] => k = l

\* Between two files the frozen points are next to the points, or they or points
\* in their place are lost and counted so.
InSave ==
    /\ data_compacted => delete_set = {}
    /\ saving # "idle" => /\ data_compacted
                          /\ \A l \in LiveSlots \cap FrozenAt(nd) : location_to_tag[l] \in overrun
                          /\ overrun = {} => start = nd
    /\ saving = "tags" => files["data"] = DataFile

FilesInv ==
    /\ files = [f \in ToSet(Files) |-> files[f]]
    /\ files["data"] # Missing => files["data"].rows \in RowCounts
    /\ files["tags"] # Missing =>
          /\ files["tags"].rows \in RowCounts
          /\ \A r \in 0 .. files["tags"].rows - 1 : files["tags"].tags[r] \in Tags \cup {ZeroTag}
    /\ whole =>
          /\ \A r \in 0 .. files["tags"].rows - NumFrozen - 1 :
                /\ files["tags"].tags[r] \in Tags
                /\ files["data"].data[r] = files["tags"].tags[r]
          /\ \A r, s \in 0 .. files["tags"].rows - NumFrozen - 1 :
                files["tags"].tags[r] = files["tags"].tags[s] => r = s

SaveInv ==
    /\ TypeInv /\ SlotsApart /\ Counted /\ TagsApart
    /\ InSave /\ FilesInv /\ LiveVectors
-----------------------------------------------------------------------------
(* The loops over rows, as the library's fold unfolds: a function on the   *)
(* sets of rounds.                                                         *)

\* A round of compact_data, or of the swaps of a move: loop is then the first
\* row of the new range and that of the old.
Round(loop, s, i) ==
    IF loop = <<>> THEN CompactRow(s, i) ELSE SwapRows(s, loop[1] + i, loop[2] + i)

\* The equation of the function on the sets of rounds up to one, and that it
\* has a solution.
Unfolds(f, num, loop, base, seq) ==
    f = [S \in SUBSET (1 .. num) |->
            IF S = {} THEN base ELSE Round(loop, f[S \ {Max(S)}], seq[Max(S)])]

\* What the fold of a loop over a sequence of rows is.
LoopResult(loop, base, seq) ==
    (CHOOSE f : f = [S \in SUBSET (DOMAIN seq) |->
            IF S = {} THEN base ELSE Round(loop, f[S \ {Max(S)}], seq[Max(S)])])[DOMAIN seq]

\* What the loop has made after each round.
RoundsOf(s, m, loop, base, seq) ==
    /\ s[0] = base
    /\ \A k \in 1 .. m : s[k] = Round(loop, s[k - 1], seq[k])
    /\ s[m] = LoopResult(loop, base, seq)

LEMMA LargestRound ==
    ASSUME NEW num \in Nat, NEW S \in SUBSET (1 .. num), num \in S
    PROVE  Max(S) = num
<1>1. \A y \in S : num >= y
  OBVIOUS
<1>2. \A x \in S : (\A y \in S : x >= y) => x = num
  OBVIOUS
<1> QED
  BY <1>1, <1>2 DEF Max

LEMMA SomeLargest ==
    ASSUME NEW num \in Nat, NEW S \in SUBSET (1 .. num), S # {}
    PROVE  Max(S) \in S
<1> DEFINE T == {num - y : y \in S}
<1>1. T \subseteq Nat /\ T # {}
  <2>1. \A y \in S : num - y \in Nat
    OBVIOUS
  <2>2. \E y \in S : num - y \in T
    OBVIOUS
  <2> QED
    BY <2>1, <2>2
<1>2. PICK m \in T : \A n \in T : m <= n
  <2> HIDE DEF T
  <2> QED
    BY <1>1, LeastNumber
<1>3. PICK x \in S : m = num - x
  BY <1>2
<1>4. \A y \in S : x >= y
  <2>1. ASSUME NEW y \in S PROVE x >= y
    <3>1. num - y \in T
      OBVIOUS
    <3>2. num - x <= num - y
      BY <1>2, <1>3, <3>1
    <3> QED
      BY <3>2
  <2> QED
    BY <2>1
<1> QED
  BY <1>4 DEF Max

LEMMA FoldExists ==
    ASSUME NEW num \in Nat, NEW loop, NEW base, NEW seq
    PROVE  \E f : Unfolds(f, num, loop, base, seq)
<1> DEFINE Good == {n \in 0 .. num : \E f : Unfolds(f, n, loop, base, seq)}
<1>1. 0 \in Good
  <2>1. Unfolds([S \in SUBSET (1 .. 0) |-> base], 0, loop, base, seq)
    <3>1. SUBSET (1 .. 0) = {{}}
      OBVIOUS
    <3> QED
      BY <3>1 DEF Unfolds
  <2> QED
    BY <2>1
<1>2. ASSUME NEW n \in 1 .. num, n - 1 \in Good PROVE n \in Good
  <2>1. PICK f : Unfolds(f, n - 1, loop, base, seq)
    BY <1>2
  <2> DEFINE g == [S \in SUBSET (1 .. n) |->
                      IF n \in S THEN Round(loop, f[S \ {n}], seq[n]) ELSE f[S]]
  <2>2. ASSUME NEW S \in SUBSET (1 .. n)
        PROVE  g[S] = IF S = {} THEN base ELSE Round(loop, g[S \ {Max(S)}], seq[Max(S)])
    <3>1. CASE n \in S
      <4>1. Max(S) = n
        BY <3>1, LargestRound
      <4>2. S \ {n} \in SUBSET (1 .. n) /\ n \notin S \ {n}
        OBVIOUS
      <4>3. g[S \ {n}] = f[S \ {n}]
        BY <4>2
      <4>4. g[S] = Round(loop, f[S \ {n}], seq[n])
        BY <3>1
      <4> HIDE DEF g
      <4> QED
        BY <3>1, <4>1, <4>3, <4>4
    <3>2. CASE n \notin S
      <4>1. S \in SUBSET (1 .. n - 1)
        BY <3>2
      <4>2. g[S] = f[S]
        BY <3>2
      <4>3. f[S] = IF S = {} THEN base ELSE Round(loop, f[S \ {Max(S)}], seq[Max(S)])
        BY <2>1, <4>1 DEF Unfolds
      <4>4. g[S \ {Max(S)}] = f[S \ {Max(S)}]
        BY <3>2
      <4> HIDE DEF g
      <4> QED
        BY <4>2, <4>3, <4>4
    <3> QED
      BY <3>1, <3>2
  <2>3. Unfolds(g, n, loop, base, seq)
    <3>1. g = [S \in SUBSET (1 .. n) |-> g[S]]
      OBVIOUS
    <3> HIDE DEF g
    <3> QED
      BY <2>2, <3>1 DEF Unfolds
  <2> QED
    BY <2>3
<1>3. \A n \in 1 .. num : n - 1 \in Good => n \in Good
  BY <1>2
<1>4. num \in Good
  <2> HIDE DEF Good
  <2>1. 0 .. num \subseteq Good
    BY <1>1, <1>3, Rounds
  <2> QED
    BY <2>1
<1> QED
  BY <1>4

\* A loop over a sequence of rows goes round by round.
LEMMA LoopRounds ==
    ASSUME NEW m \in Nat, NEW loop, NEW base, NEW seq, DOMAIN seq = 1 .. m
    PROVE  \E s : RoundsOf(s, m, loop, base, seq)
<1> DEFINE J == CHOOSE f : Unfolds(f, m, loop, base, seq)
           s == [k \in 0 .. m |-> J[1 .. k]]
<1>1. LoopResult(loop, base, seq) = J[1 .. m]
  BY Zenon DEF LoopResult, Unfolds
<1>2. Unfolds(J, m, loop, base, seq)
  BY FoldExists, Zenon
<1> HIDE DEF J
<1>3. s[0] = base
  <2>1. {} \in SUBSET (1 .. m) /\ 1 .. 0 = {}
    OBVIOUS
  <2> QED
    BY <1>2, <2>1 DEF Unfolds
<1>4. ASSUME NEW k \in 1 .. m PROVE s[k] = Round(loop, s[k - 1], seq[k])
  <2>1. 1 .. k \in SUBSET (1 .. m) /\ 1 .. k # {} /\ k \in 1 .. k /\ k \in Nat
    OBVIOUS
  <2>2. 1 .. k \in SUBSET (1 .. k)
    OBVIOUS
  <2>3. Max(1 .. k) = k
    BY <2>1, <2>2, LargestRound
  <2>4. (1 .. k) \ {k} = 1 .. (k - 1)
    OBVIOUS
  <2>5. J[1 .. k] = Round(loop, J[(1 .. k) \ {Max(1 .. k)}], seq[Max(1 .. k)])
    BY <1>2, <2>1, Zenon DEF Unfolds
  <2>6. s[k] = J[1 .. k] /\ s[k - 1] = J[1 .. (k - 1)]
    OBVIOUS
  <2> QED
    BY <2>3, <2>4, <2>5, <2>6, Zenon
<1>5. s[m] = J[1 .. m]
  OBVIOUS
<1> HIDE DEF s
<1>6. RoundsOf(s, m, loop, base, seq)
  BY <1>1, <1>3, <1>4, <1>5 DEF RoundsOf
<1> QED
  BY <1>6

\* The rounds of compact_data.
LEMMA CompactLoop ==
    ASSUME max_points \in Nat
    PROVE  \E s :
             /\ s[0] = Stores
             /\ \A k \in 1 .. max_points + NumFrozen : s[k] = CompactRow(s[k - 1], k - 1)
             /\ CompactData = [s[max_points + NumFrozen] EXCEPT !.graph = [r \in Rows |->
                  IF r \in nd .. max_points - 1 THEN {} ELSE s[max_points + NumFrozen].graph[r]]]
<1> DEFINE m == max_points + NumFrozen
           seq == Ascending(0, max_points + NumFrozen - 1)
           I == CHOOSE f : f = [S \in SUBSET (DOMAIN seq) |->
                  IF S = {} THEN Stores ELSE CompactRow(f[S \ {Max(S)}], seq[Max(S)])]
<1>1. m \in Nat
  BY SaveAssumption
<1>2. Compacted = I[DOMAIN seq]
  BY Zenon DEF Compacted, FoldLeft, MapThenFoldSet
<1>3. DOMAIN seq = 1 .. m /\ \A i \in 1 .. m : seq[i] = i - 1
  <2>1. ((max_points + (NumFrozen - 1)) - 0) + 1 = m
    BY <1>1, SaveAssumption
  <2>2. seq = [i \in 1 .. ((max_points + (NumFrozen - 1)) - 0) + 1 |-> 0 + (i - 1)]
    BY Zenon DEF Ascending
  <2> HIDE DEF m, seq
  <2>3. DOMAIN seq = 1 .. m /\ \A i \in 1 .. m : seq[i] = 0 + (i - 1)
    BY <2>1, <2>2
  <2> QED
    BY <1>1, <2>3
<1> HIDE DEF seq, m
<1>4. I[DOMAIN seq] = LoopResult(<<>>, Stores, seq)
  <2>1. \A s, i : CompactRow(s, i) = Round(<<>>, s, i)
    BY DEF Round
  <2>2. \A f : [S \in SUBSET (DOMAIN seq) |->
                  IF S = {} THEN Stores ELSE CompactRow(f[S \ {Max(S)}], seq[Max(S)])]
             = [S \in SUBSET (DOMAIN seq) |->
                  IF S = {} THEN Stores ELSE Round(<<>>, f[S \ {Max(S)}], seq[Max(S)])]
    BY <2>1
  <2>3. \A f : (f = [S \in SUBSET (DOMAIN seq) |->
                  IF S = {} THEN Stores ELSE CompactRow(f[S \ {Max(S)}], seq[Max(S)])])
           <=> (f = [S \in SUBSET (DOMAIN seq) |->
                  IF S = {} THEN Stores ELSE Round(<<>>, f[S \ {Max(S)}], seq[Max(S)])])
    BY <2>2, Zenon
  <2>4. I = CHOOSE f : f = [S \in SUBSET (DOMAIN seq) |->
                  IF S = {} THEN Stores ELSE Round(<<>>, f[S \ {Max(S)}], seq[Max(S)])]
    BY <2>3, Zenon
  <2> HIDE DEF I
  <2> QED
    BY <2>4, Zenon DEF LoopResult
<1> HIDE DEF I
<1>5. PICK s : /\ s[0] = Stores
               /\ \A k \in 1 .. m : s[k] = Round(<<>>, s[k - 1], seq[k])
               /\ s[m] = LoopResult(<<>>, Stores, seq)
  <2>1. m \in Nat /\ DOMAIN seq = 1 .. m
    BY <1>1, <1>3
  <2>2. \E s : RoundsOf(s, m, <<>>, Stores, seq)
    BY <2>1, LoopRounds, Zenon
  <2> QED
    BY <2>2, Zenon DEF RoundsOf
<1>6. \A k \in 1 .. m : s[k] = CompactRow(s[k - 1], k - 1)
  BY <1>3, <1>5, Zenon DEF Round
<1>7. Compacted = s[m]
  BY <1>2, <1>4, <1>5
<1>8. CompactData = [s[m] EXCEPT !.graph = [r \in Rows |->
            IF r \in nd .. max_points - 1 THEN {} ELSE s[m].graph[r]]]
  BY <1>7, Zenon DEF CompactData
<1> QED
  BY <1>5, <1>6, <1>8 DEF m
-----------------------------------------------------------------------------
(* The vectors after compact_data.                                         *)

\* The points in use have slots.
LEMMA LiveFinite ==
    ASSUME TypeInv
    PROVE  /\ Slots \subseteq Rows /\ Slots \subseteq Nat
           /\ LiveSlots \subseteq Slots /\ LiveSlots \subseteq Nat
           /\ IsFiniteSet(Slots) /\ IsFiniteSet(LiveSlots)
           /\ Cardinality(LiveSlots) \in Nat
<1>1. max_points \in Nat /\ Slots \subseteq Rows /\ Slots \subseteq Nat
  BY SaveAssumption DEF TypeInv, Slots, Rows
<1>2. IsFiniteSet(Slots)
  <2>1. max_points - 1 \in Int
    BY <1>1
  <2> QED
    BY <2>1, FS_Interval DEF Slots
<1>3. LiveSlots \in SUBSET Slots
  BY DEF LiveSlots
<1>4. IsFiniteSet(LiveSlots) /\ Cardinality(LiveSlots) \in Nat
  BY <1>2, <1>3, FS_Subset, FS_CardinalityType
<1> QED
  BY <1>1, <1>2, <1>3, <1>4

\* The rows compaction keeps: it moves them down, in their order.
Kept == LiveSlots \cup FrozenAt(max_points)

LEMMA NewLocations ==
    ASSUME TypeInv
    PROVE  /\ Kept \subseteq Rows
           /\ \A l \in Kept : NewLocation(l) \in Rows /\ NewLocation(l) <= l
           /\ \A a, b \in Kept : a < b => NewLocation(a) < NewLocation(b)
           /\ \A l \in LiveSlots : NewLocation(l) = Rank(l, LiveSlots)
           /\ \A l \in FrozenAt(max_points) : l \notin LiveSlots /\ NewLocation(l) = l
           /\ \A r \in Rows : r \in Nat
<1> DEFINE L == LiveSlots
           F == FrozenAt(max_points)
<1>1. /\ max_points \in Nat /\ max_points <= MaxCapacity
      /\ MaxCapacity \in Nat /\ NumFrozen \in Nat \ {0}
  BY SaveAssumption DEF TypeInv
<1>2. L \subseteq 0 .. max_points - 1 /\ L \subseteq Nat /\ IsFiniteSet(L)
  BY LiveFinite DEF Slots
<1>3. F \subseteq Rows /\ \A l \in F : l \in Nat /\ max_points <= l
  BY <1>1 DEF FrozenAt, Rows
<1>4. \A l \in F : l \notin L /\ NewLocation(l) = l
  BY <1>1, <1>2, <1>3 DEF NewLocation
<1>5. \A l \in L : NewLocation(l) = Rank(l, L)
  BY DEF NewLocation
<1>6. \A r \in Rows : r \in Nat
  BY <1>1 DEF Rows
<1> HIDE DEF L, F
<1>7. ASSUME NEW l \in L PROVE NewLocation(l) \in Nat /\ NewLocation(l) <= l /\ l < max_points
  <2>1. Rank(l, L) \in Nat /\ Rank(l, L) <= l
    BY <1>2, RankType, RankAtMost
  <2> QED
    BY <1>1, <1>2, <1>5, <2>1
<1>8. \A n \in Nat : n < max_points => n \in Rows
  BY <1>1 DEF Rows
<1>9. ASSUME NEW a \in L \cup F, NEW b \in L \cup F, a < b PROVE NewLocation(a) < NewLocation(b)
  <2>1. CASE a \in L /\ b \in L
    <3>1. Rank(a, L) < Rank(b, L)
      BY <1>2, <1>9, <2>1, RankLess
    <3> QED
      BY <1>5, <2>1, <3>1
  <2>2. CASE a \in L /\ b \in F
    <3> DEFINE n == NewLocation(a)
    <3>1. n \in Nat /\ n <= a /\ a < max_points /\ a \in Nat /\ b \in Nat /\ NewLocation(b) = b
      BY <1>2, <1>3, <1>4, <1>7, <2>2
    <3> HIDE DEF n
    <3>2. n < b
      BY <1>9, <3>1
    <3> QED
      BY <3>1, <3>2 DEF n
  <2>3. CASE a \in F /\ b \in L
    BY <1>1, <1>2, <1>3, <1>7, <1>9, <2>3
  <2>4. CASE a \in F /\ b \in F
    BY <1>4, <1>9, <2>4
  <2> QED
    BY <2>1, <2>2, <2>3, <2>4
<1>10. ASSUME NEW l \in L \cup F PROVE NewLocation(l) \in Rows /\ NewLocation(l) <= l
  <2>1. CASE l \in L
    <3> DEFINE n == NewLocation(l)
    <3>1. n \in Nat /\ n <= l /\ l < max_points /\ l \in Nat
      BY <1>2, <1>7, <2>1
    <3> HIDE DEF n
    <3>2. n < max_points
      BY <1>1, <3>1
    <3> QED
      BY <1>8, <3>1, <3>2 DEF n
  <2>2. CASE l \in F
    BY <1>3, <1>4, <2>2
  <2> QED
    BY <2>1, <2>2
<1>11. L \subseteq Rows
  BY <1>2, <1>7, <1>8
<1> QED
  BY <1>3, <1>4, <1>5, <1>6, <1>9, <1>10, <1>11, Zenon DEF Kept, L, F

\* What a round does to the vectors, and to the lists.
RoundOf(d, old) ==
    IF old \in Kept THEN [d EXCEPT ![NewLocation(old)] = d[old]] ELSE d

Renumbered(list) == {NewLocation(ngh) : ngh \in list \ (Slots \ LiveSlots)}

ListRound(g, old) ==
    IF old \in Kept
    THEN SwapRows([g EXCEPT ![old] = Renumbered(g[old])], NewLocation(old), old)
    ELSE [g EXCEPT ![old] = {}]

LEMMA CompactRowStores ==
    ASSUME NEW g, NEW d, NEW old
    PROVE  CompactRow([graph |-> g, data |-> d], old)
           = [graph |-> ListRound(g, old), data |-> RoundOf(d, old)]
<1> DEFINE s == [graph |-> g, data |-> d]
<1>1. s.data = d /\ s.graph = g
  OBVIOUS
<1>2. CASE old \in Kept
  <2>1. CompactRow(s, old) = [graph |-> SwapRows([s.graph EXCEPT ![old] =
                            {NewLocation(ngh) : ngh \in s.graph[old] \ (Slots \ LiveSlots)}],
                            NewLocation(old), old),
                          data |-> [s.data EXCEPT ![NewLocation(old)] = s.data[old]]]
    BY <1>2, Zenon DEF CompactRow, Kept
  <2> HIDE DEF s
  <2> QED
    BY <1>1, <1>2, <2>1, Zenon DEF s, RoundOf, ListRound, Renumbered
<1>3. CASE old \notin Kept
  <2>1. CompactRow(s, old) = [s EXCEPT !.graph[old] = {}]
    BY <1>3, Zenon DEF CompactRow, Kept
  <2>2. [s EXCEPT !.graph[old] = {}] = [graph |-> [g EXCEPT ![old] = {}], data |-> d]
    OBVIOUS
  <2> HIDE DEF s
  <2> QED
    BY <1>3, <2>1, <2>2, Zenon DEF s, RoundOf, ListRound
<1> QED
  BY <1>2, <1>3

\* The rounds of compact_data on each store.
LEMMA CompactRounds ==
    ASSUME max_points \in Nat
    PROVE  \E g, d :
             /\ g[0] = neighbours /\ d[0] = data_store
             /\ \A k \in 1 .. max_points + NumFrozen :
                  g[k] = ListRound(g[k - 1], k - 1) /\ d[k] = RoundOf(d[k - 1], k - 1)
             /\ CompactData.data = d[max_points + NumFrozen]
             /\ CompactData.graph = [r \in Rows |->
                  IF r \in nd .. max_points - 1 THEN {} ELSE g[max_points + NumFrozen][r]]
<1> DEFINE m == max_points + NumFrozen
<1>1. m \in Nat
  BY SaveAssumption
<1>2. PICK s : /\ s[0] = Stores
               /\ \A k \in 1 .. m : s[k] = CompactRow(s[k - 1], k - 1)
               /\ CompactData = [s[m] EXCEPT !.graph = [r \in Rows |->
                     IF r \in nd .. max_points - 1 THEN {} ELSE s[m].graph[r]]]
  BY CompactLoop, Zenon
<1> DEFINE g == [k \in 0 .. m |-> s[k].graph]
           d == [k \in 0 .. m |-> s[k].data]
           Good == {k \in 0 .. m : s[k] = [graph |-> s[k].graph, data |-> s[k].data]}
<1>3. 0 \in Good
  BY <1>1, <1>2 DEF Stores
<1>4. ASSUME NEW k \in 1 .. m, k - 1 \in Good
      PROVE  s[k] = [graph |-> ListRound(s[k - 1].graph, k - 1), data |-> RoundOf(s[k - 1].data, k - 1)]
  <2> DEFINE h == s[k - 1].graph
             e == s[k - 1].data
  <2>1. s[k - 1] = [graph |-> h, data |-> e]
    BY <1>4
  <2> HIDE DEF h, e
  <2>2. s[k] = CompactRow([graph |-> h, data |-> e], k - 1)
    BY <1>2, <2>1
  <2>3. CompactRow([graph |-> h, data |-> e], k - 1) = [graph |-> ListRound(h, k - 1), data |-> RoundOf(e, k - 1)]
    BY CompactRowStores
  <2> QED
    BY <2>2, <2>3 DEF h, e
<1>5. 0 .. m \subseteq Good
  <2>1. ASSUME NEW k \in 1 .. m, k - 1 \in Good PROVE k \in Good
    <3>1. s[k] = [graph |-> ListRound(s[k - 1].graph, k - 1), data |-> RoundOf(s[k - 1].data, k - 1)]
      BY <1>4, <2>1
    <3>2. s[k] = [graph |-> s[k].graph, data |-> s[k].data] /\ k \in 0 .. m
      BY <1>1, <3>1
    <3> QED
      BY <3>2
  <2>2. \A k \in 1 .. m : k - 1 \in Good => k \in Good
    BY <2>1
  <2> HIDE DEF Good
  <2> QED
    BY <1>1, <1>3, <2>2, Rounds
<1>6. ASSUME NEW k \in 1 .. m PROVE g[k] = ListRound(g[k - 1], k - 1) /\ d[k] = RoundOf(d[k - 1], k - 1)
  <2>1. k - 1 \in 0 .. m /\ k \in 0 .. m
    BY <1>1
  <2>2. s[k] = [graph |-> ListRound(s[k - 1].graph, k - 1), data |-> RoundOf(s[k - 1].data, k - 1)]
    BY <1>4, <1>5, <2>1
  <2>3. s[k].graph = ListRound(s[k - 1].graph, k - 1) /\ s[k].data = RoundOf(s[k - 1].data, k - 1)
    BY <2>2
  <2> QED
    BY <2>1, <2>3
<1>7. g[0] = neighbours /\ d[0] = data_store
  BY <1>1, <1>2 DEF Stores
<1>8. CompactData.data = d[m] /\ CompactData.graph = [r \in Rows |->
            IF r \in nd .. max_points - 1 THEN {} ELSE g[m][r]]
  <2>1. m \in 0 .. m
    BY <1>1
  <2>2. s[m] = [graph |-> s[m].graph, data |-> s[m].data]
    BY <1>5, <2>1
  <2> QED
    BY <1>2, <2>1, <2>2
<1> HIDE DEF g, d
<1> QED
  BY <1>6, <1>7, <1>8

\* A loop that goes up the rows and, at each row that is kept, stores at its new
\* place what is made of its first content, finds that content still there: the
\* places written before are those of lower rows.
LEMMA MovedDown ==
    ASSUME TypeInv, NEW s, NEW orig, NEW val, s[0] = orig,
           \A k \in 1 .. max_points + NumFrozen :
              /\ \A r \in Rows : r # k - 1 /\ (k - 1 \in Kept => r # NewLocation(k - 1))
                                 => s[k][r] = s[k - 1][r]
              /\ k - 1 \in Kept /\ s[k - 1][k - 1] = orig[k - 1] => s[k][NewLocation(k - 1)] = val[k - 1]
    PROVE  \A l \in Kept : s[max_points + NumFrozen][NewLocation(l)] = val[l]
<1> DEFINE m == max_points + NumFrozen
           Good == {k \in 0 .. m :
                      /\ \A l \in Kept : l < k => s[k][NewLocation(l)] = val[l]
                      /\ \A r \in Rows : k <= r => s[k][r] = orig[r]}
<1>1. max_points \in Nat /\ NumFrozen \in Nat /\ m \in Nat /\ \A k \in 1 .. m : k - 1 \in Rows
  BY SaveAssumption DEF TypeInv, Rows
<1>2. /\ Kept \subseteq Rows /\ \A r \in Rows : r \in Nat
      /\ \A l \in Kept : NewLocation(l) \in Rows /\ NewLocation(l) <= l
      /\ \A a, b \in Kept : a < b => NewLocation(a) < NewLocation(b)
  BY NewLocations
<1>3. 0 \in Good
  BY <1>1, <1>2
<1>4. ASSUME NEW k \in 1 .. m, k - 1 \in Good PROVE k \in Good
  <2>1. /\ \A l \in Kept : l < k - 1 => s[k - 1][NewLocation(l)] = val[l]
        /\ \A r \in Rows : k - 1 <= r => s[k - 1][r] = orig[r]
    BY <1>4
  <2>2. k - 1 \in Rows /\ k - 1 <= k - 1 /\ k \in Nat /\ k \in 0 .. m
    BY <1>1
  <2>3. s[k - 1][k - 1] = orig[k - 1]
    BY <2>1, <2>2
  <2>4. ASSUME NEW l \in Kept, l < k PROVE s[k][NewLocation(l)] = val[l]
    <3>1. CASE l = k - 1
      BY <2>3, <2>4, <3>1
    <3>2. CASE l # k - 1
      <4> DEFINE n == NewLocation(l)
      <4>1. l < k - 1 /\ l \in Nat
        BY <1>2, <2>2, <2>4, <3>2
      <4>2. n \in Rows /\ n \in Nat /\ n <= l
        BY <1>2
      <4>3. k - 1 \in Kept => n < NewLocation(k - 1) /\ NewLocation(k - 1) \in Nat
        BY <1>2, <4>1
      <4>4. s[k - 1][n] = val[l]
        BY <2>1, <4>1
      <4> HIDE DEF n
      <4>5. n # k - 1 /\ (k - 1 \in Kept => n # NewLocation(k - 1))
        BY <2>2, <4>1, <4>2, <4>3
      <4>6. s[k][n] = s[k - 1][n]
        BY <4>2, <4>5
      <4> QED
        BY <4>4, <4>6 DEF n
    <3> QED
      BY <3>1, <3>2
  <2>5. ASSUME NEW r \in Rows, k <= r PROVE s[k][r] = orig[r]
    <3>1. r \in Nat /\ k - 1 <= r /\ r # k - 1
      BY <1>2, <2>2, <2>5
    <3>2. k - 1 \in Kept => r # NewLocation(k - 1)
      <4>1. k - 1 \in Kept => NewLocation(k - 1) <= k - 1 /\ NewLocation(k - 1) \in Nat
        BY <1>2
      <4> QED
        BY <2>2, <2>5, <3>1, <4>1
    <3> QED
      BY <2>1, <3>1, <3>2
  <2> QED
    BY <2>2, <2>4, <2>5
<1>5. m \in Good
  <2>1. \A k \in 1 .. m : k - 1 \in Good => k \in Good
    BY <1>4
  <2> HIDE DEF Good
  <2>2. 0 .. m \subseteq Good
    BY <1>1, <1>3, <2>1, Rounds
  <2> QED
    BY <1>1, <2>2
<1>6. \A l \in Kept : l < m
  <2>1. Kept \subseteq 0 .. m - 1
    BY <1>1, LiveFinite DEF Kept, FrozenAt, Slots
  <2> QED
    BY <1>1, <2>1
<1> QED
  BY <1>5, <1>6

\* Each vector moves down to the new place of its row.
LEMMA CompactedVectors ==
    ASSUME TypeInv
    PROVE  /\ OnRows(CompactData.data)
           /\ \A l \in Kept : CompactData.data[NewLocation(l)] = data_store[l]
<1> DEFINE m == max_points + NumFrozen
<1>1. max_points \in Nat /\ m \in Nat
  BY SaveAssumption DEF TypeInv
<1>2. PICK g, d : /\ d[0] = data_store
                  /\ \A k \in 1 .. m : d[k] = RoundOf(d[k - 1], k - 1)
                  /\ CompactData.data = d[m]
  BY <1>1, CompactRounds, Zenon
<1> DEFINE Good == {k \in 0 .. m : OnRows(d[k])}
<1>3. 0 \in Good
  BY <1>1, <1>2 DEF TypeInv
<1>4. ASSUME NEW k \in 1 .. m, k - 1 \in Good PROVE k \in Good
  <2>1. OnRows(d[k - 1])
    BY <1>4
  <2>2. OnRows(d[k])
    BY <1>2, <2>1 DEF RoundOf, OnRows
  <2> QED
    BY <1>1, <2>2
<1>5. 0 .. m \subseteq Good
  <2>1. \A k \in 1 .. m : k - 1 \in Good => k \in Good
    BY <1>4
  <2> HIDE DEF Good
  <2> QED
    BY <1>1, <1>3, <2>1, Rounds
<1>6. ASSUME NEW k \in 1 .. m
      PROVE  /\ \A r \in Rows : r # k - 1 /\ (k - 1 \in Kept => r # NewLocation(k - 1))
                                => d[k][r] = d[k - 1][r]
             /\ k - 1 \in Kept /\ d[k - 1][k - 1] = data_store[k - 1]
                => d[k][NewLocation(k - 1)] = data_store[k - 1]
  <2>1. k - 1 \in 0 .. m
    BY <1>1
  <2>2. d[k - 1] = [r \in Rows |-> d[k - 1][r]]
    BY <1>5, <2>1 DEF OnRows
  <2>3. d[k] = RoundOf(d[k - 1], k - 1)
    BY <1>2
  <2>4. k - 1 \in Kept => NewLocation(k - 1) \in Rows
    BY NewLocations
  <2> QED
    BY <2>2, <2>3, <2>4 DEF RoundOf
<1>7. \A l \in Kept : d[m][NewLocation(l)] = data_store[l]
  BY <1>2, <1>6, MovedDown
<1>8. OnRows(d[m])
  BY <1>1, <1>5
<1> QED
  BY <1>2, <1>7, <1>8
\* A tag goes to a place among the first ones, as many as there are points.
LEMMA CompactedTagsType ==
    ASSUME TypeInv
    PROVE  /\ CompactedTag \in [Rows -> Tags \cup {ZeroTag, NoTag}]
           /\ \A r \in Rows \ (0 .. Cardinality(LiveSlots) - 1) : CompactedTag[r] = NoTag
<1> DEFINE L == LiveSlots
<1>1. L \subseteq Nat /\ IsFiniteSet(L) /\ L \subseteq Rows /\ Cardinality(L) \in Nat
  BY LiveFinite, Zenon
<1>2. \A l \in L : NewLocation(l) = Rank(l, L)
  BY DEF NewLocation
<1>3. ASSUME NEW l \in L PROVE NewLocation(l) \in 0 .. Cardinality(L) - 1
  <2> HIDE DEF L
  <2>1. Rank(l, L) \in Nat
    BY <1>1, RankType
  <2>2. Rank(l, L) < Cardinality(L)
    BY <1>1, RankBelow
  <2> QED
    BY <1>1, <1>2, <2>1, <2>2
<1>4. CompactedTag = [r \in Rows |-> CompactedTag[r]]
  BY DEF CompactedTag
<1>5. ASSUME NEW r \in Rows
      PROVE  /\ CompactedTag[r] \in Tags \cup {ZeroTag, NoTag}
             /\ r \notin 0 .. Cardinality(L) - 1 => CompactedTag[r] = NoTag
  <2>1. CASE \E l \in L : Named(l) /\ NewLocation(l) = r
    <3> DEFINE c == CHOOSE l \in L : NewLocation(l) = r
    <3>1. c \in L
      BY <2>1, Zenon
    <3>2. CompactedTag[r] = location_to_tag[c]
      BY <2>1, Zenon DEF CompactedTag
    <3>3. r \in 0 .. Cardinality(L) - 1
      BY <1>3, <2>1
    <3> HIDE DEF c
    <3> QED
      BY <1>1, <3>1, <3>2, <3>3 DEF TypeInv
  <2>2. CASE ~ \E l \in L : Named(l) /\ NewLocation(l) = r
    BY <2>2 DEF CompactedTag
  <2> QED
    BY <2>1, <2>2
<1> QED
  BY <1>4, <1>5

\* With the points counted and each tag at one of them, the places are 0 .. nd - 1
\* and each tag is at its point's place.
LEMMA CompactedTags ==
    ASSUME TypeInv, Cardinality(LiveSlots) = nd, \A l \in LiveSlots : Named(l)
    PROVE  /\ CompactedTag \in [Rows -> Tags \cup {ZeroTag, NoTag}]
           /\ \A r \in 0 .. nd - 1 : \E l \in LiveSlots :
                 /\ r = Rank(l, LiveSlots) /\ CompactedTag[r] = location_to_tag[l]
           /\ \A r \in Rows \ (0 .. nd - 1) : CompactedTag[r] = NoTag
<1> DEFINE L == LiveSlots
<1>1. L \subseteq Nat /\ IsFiniteSet(L)
  BY LiveFinite, Zenon
<1>2. \A l \in L : NewLocation(l) = Rank(l, L)
  BY DEF NewLocation
<1>3. 0 .. nd - 1 \subseteq Rows
  BY SaveAssumption DEF TypeInv, Rows
<1>4. ASSUME NEW r \in 0 .. nd - 1
      PROVE  \E l \in L : r = Rank(l, L) /\ CompactedTag[r] = location_to_tag[l]
  <2>1. \E l \in L : Rank(l, L) = r
    <3>1. r \in 0 .. Cardinality(L) - 1
      OBVIOUS
    <3> HIDE DEF L
    <3> QED
      BY <1>1, <3>1, RankOnto
  <2>2. \E l \in L : Named(l) /\ NewLocation(l) = r
    BY <1>2, <2>1
  <2> DEFINE c == CHOOSE l \in L : NewLocation(l) = r
  <2>3. c \in L /\ NewLocation(c) = r
    BY <2>2, Zenon
  <2>4. CompactedTag[r] = location_to_tag[c]
    BY <1>3, <2>2, Zenon DEF CompactedTag
  <2> HIDE DEF c
  <2> QED
    BY <1>2, <2>3, <2>4
<1> QED
  BY <1>4, CompactedTagsType

-----------------------------------------------------------------------------
(* Moving the frozen points, and taking a free slot.                       *)

\* The rows of neither range keep their vectors.
LEMMA MovedVectorsOutside ==
    ASSUME NEW d, NEW old \in Nat, NEW new \in Nat, NEW n \in Nat
    PROVE  /\ OnRows(MovedVectors(d, old, new, n))
           /\ \A r \in Rows \ (old .. old + n - 1 \cup new .. new + n - 1) :
                 MovedVectors(d, old, new, n)[r] = d[r]
<1> DEFINE copied == [r \in Rows |-> IF r \in new .. new + n - 1 THEN d[r - new + old] ELSE d[r]]
           cleared == IF new < old THEN Max({old, new + n}) .. old + n - 1
                      ELSE old .. Min({old + n, new}) - 1
<1>1. MovedVectors(d, old, new, n) = [r \in Rows |-> IF r \in cleared THEN NoVector ELSE copied[r]]
  BY Zenon DEF MovedVectors
<1>2. cleared \subseteq old .. old + n - 1
  <2>1. Max({old, new + n}) \in Int /\ Max({old, new + n}) >= old
    <3>1. \E x \in {old, new + n} : \A y \in {old, new + n} : x >= y
      <4>1. CASE old >= new + n
        BY <4>1
      <4>2. CASE ~(old >= new + n)
        BY <4>2
      <4> QED
        BY <4>1, <4>2
    <3>2. Max({old, new + n}) \in {old, new + n} /\ Max({old, new + n}) >= old
      BY <3>1 DEF Max
    <3> QED
      BY <3>2
  <2>2. Min({old + n, new}) \in Int /\ Min({old + n, new}) <= old + n
    <3>1. \E x \in {old + n, new} : \A y \in {old + n, new} : x <= y
      <4>1. CASE new <= old + n
        BY <4>1
      <4>2. CASE ~(new <= old + n)
        BY <4>2
      <4> QED
        BY <4>1, <4>2
    <3>2. Min({old + n, new}) \in {old + n, new} /\ Min({old + n, new}) <= old + n
      BY <3>1 DEF Min
    <3> QED
      BY <3>2
  <2> DEFINE a == Max({old, new + n})
             b == Min({old + n, new})
  <2>3. cleared = IF new < old THEN a .. old + n - 1 ELSE old .. b - 1
    OBVIOUS
  <2>4. a \in Int /\ a >= old /\ b \in Int /\ b <= old + n
    BY <2>1, <2>2
  <2> HIDE DEF a, b, cleared
  <2> QED
    BY <2>3, <2>4
<1>3. ASSUME NEW r \in Rows \ (old .. old + n - 1 \cup new .. new + n - 1)
      PROVE  r \notin cleared /\ copied[r] = d[r]
  <2>1. r \notin cleared
    BY <1>2, <1>3
  <2>2. copied[r] = d[r]
    BY <1>3
  <2> QED
    BY <2>1, <2>2
<1> HIDE DEF copied, cleared
<1> QED
  BY <1>1, <1>3 DEF OnRows

LEMMA RepositionedVectors ==
    ASSUME NEW s, NEW old \in Nat, NEW new \in Nat, OnRows(s.data)
    PROVE  /\ OnRows(RepositionPoints(s, old, new, NumFrozen).data)
           /\ \A r \in Rows \ (FrozenAt(old) \cup FrozenAt(new)) :
                 RepositionPoints(s, old, new, NumFrozen).data[r] = s.data[r]
<1>1. CASE old = new
  BY <1>1 DEF RepositionPoints
<1>2. CASE old # new
  <2>1. RepositionPoints(s, old, new, NumFrozen).data = MovedVectors(s.data, old, new, NumFrozen)
    BY <1>2 DEF RepositionPoints
  <2> DEFINE d == s.data
             v == MovedVectors(d, old, new, NumFrozen)
  <2> HIDE DEF d
  <2>2. NumFrozen \in Nat
    BY SaveAssumption
  <2>3. OnRows(v)
    BY <2>2, MovedVectorsOutside, Zenon
  <2>4. \A r \in Rows \ (FrozenAt(old) \cup FrozenAt(new)) : v[r] = d[r]
    BY <2>2, MovedVectorsOutside, Zenon DEF FrozenAt
  <2> HIDE DEF v
  <2> QED
    BY <2>1, <2>3, <2>4 DEF v, d
<1> QED
  BY <1>1, <1>2

\* pop_any takes a free slot.
LEMMA FreeSlot ==
    ASSUME TypeInv, SlotsApart, nd < max_points
    PROVE  /\ empty_slots # <<>>
           /\ PopAny(empty_slots).id \in Slots \ (LiveSlots \cup delete_set)
           /\ PopAny(empty_slots).left \in Seq(Slots)
           /\ Len(PopAny(empty_slots).left) = Len(empty_slots) - 1
           /\ \A i \in 1 .. Len(empty_slots) - 1 : PopAny(empty_slots).left[i] = empty_slots[i]
           /\ ToSet(PopAny(empty_slots).left) \subseteq ToSet(empty_slots) \ {PopAny(empty_slots).id}
<1> DEFINE n == Len(empty_slots)
           left == PopAny(empty_slots).left
           l == PopAny(empty_slots).id
<1>1. n \in Nat \ {0} /\ empty_slots \in [1 .. n -> Slots]
  BY DEF TypeInv, SlotsApart
<1>2. l = empty_slots[n] /\ left = SubSeq(empty_slots, 1, n - 1)
  BY DEF PopAny, Last, Front
<1>3. left \in Seq(Slots) /\ Len(left) = n - 1 /\ \A i \in 1 .. n - 1 : left[i] = empty_slots[i]
  BY <1>1, <1>2 DEF SlotsApart
<1> HIDE DEF left, l
<1>4. l \in Slots /\ l \in ToSet(empty_slots)
  BY <1>1, <1>2 DEF ToSet
<1>5. ASSUME NEW x \in ToSet(left) PROVE x \in ToSet(empty_slots) \ {l}
  <2>1. PICK i \in 1 .. n - 1 : x = left[i]
    BY <1>3 DEF ToSet
  <2>2. i \in 1 .. n /\ i # n
    <3>1. n \in Nat
      BY <1>1
    <3> HIDE DEF n
    <3> QED
      BY <3>1
  <2>3. x = empty_slots[i]
    BY <1>3, <2>1
  <2> QED
    BY <1>1, <1>2, <2>2, <2>3 DEF SlotsApart, ToSet
<1>6. empty_slots # <<>>
  BY <1>1
<1>7. l \in Slots \ (LiveSlots \cup delete_set) /\ ToSet(left) \subseteq ToSet(empty_slots) \ {l}
  BY <1>4, <1>5 DEF SlotsApart
<1> QED
  BY <1>3, <1>6, <1>7 DEF left, l
-----------------------------------------------------------------------------
(* Each action keeps the invariant.                                        *)

\* The points and what is deleted can be counted.
LEMMA CountsType ==
    ASSUME TypeInv, SlotsApart
    PROVE  /\ Cardinality(LiveSlots) \in Nat /\ nd \in Nat
           /\ IsFiniteSet(delete_set) /\ Cardinality(delete_set) \in Nat
<1>1. IsFiniteSet(Slots) /\ Cardinality(LiveSlots) \in Nat
  BY LiveFinite
<1>2. delete_set \in SUBSET Slots
  BY DEF SlotsApart
<1>3. IsFiniteSet(delete_set) /\ Cardinality(delete_set) \in Nat
  BY <1>1, <1>2, FS_Subset, FS_CardinalityType
<1> QED
  BY <1>1, <1>3 DEF TypeInv

LEMMA InsertKeeps ==
    ASSUME SaveInv, NEW t \in Tags, Insert(t), UNCHANGED setup
    PROVE  SaveInv'
<1> DEFINE l == PopAny(empty_slots).id
           left == PopAny(empty_slots).left
<1>1. TypeInv /\ SlotsApart /\ Counted /\ TagsApart /\ InSave /\ FilesInv /\ LiveVectors
  BY DEF SaveInv
<1>2. /\ nd < max_points /\ saving = "idle"
      /\ UNCHANGED <<setup, max_points, start, data_compacted, saving, files, whole, mixed, overrun>>
      /\ nd' = nd + 1
  BY Zenon DEF Insert, history
<1>3. /\ empty_slots # <<>> /\ l \in Slots \ (LiveSlots \cup delete_set)
      /\ left \in Seq(Slots) /\ Len(left) = Len(empty_slots) - 1
      /\ \A i \in 1 .. Len(empty_slots) - 1 : left[i] = empty_slots[i]
      /\ ToSet(left) \subseteq ToSet(empty_slots) \ {l}
  BY <1>1, <1>2, FreeSlot, Zenon
<1>4. /\ empty_slots' = left /\ delete_set' = delete_set \ {l}
      /\ location_to_tag' = [location_to_tag EXCEPT ![l] = t]
      /\ data_store' = [data_store EXCEPT ![l] = t]
  BY <1>3, Zenon DEF Insert, WithTag
<1> HIDE DEF l, left
<1>5. delete_set' = delete_set
  BY <1>3, <1>4
<1>6. Slots \subseteq Rows /\ Slots' = Slots
  BY <1>1, <1>2, LiveFinite DEF Slots
<1>7. t # NoTag
  BY SaveAssumption
<1>8. LiveSlots' = LiveSlots \cup {l}
  <2>1. DOMAIN location_to_tag = Rows /\ l \in Rows
    BY <1>1, <1>3, <1>6 DEF TypeInv
  <2>2. \A r \in Slots : location_to_tag'[r] = IF r = l THEN t ELSE location_to_tag[r]
    BY <1>4, <1>6, <2>1
  <2> QED
    BY <1>3, <1>6, <1>7, <2>2 DEF LiveSlots, HasTag
<1>9. TypeInv'
  <2>1. nd' \in 0 .. max_points'
    BY <1>1, <1>2 DEF TypeInv
  <2>2. location_to_tag' \in [Rows -> Tags \cup {ZeroTag, NoTag}]
    BY <1>1, <1>4 DEF TypeInv
  <2>3. OnRows(data_store)'
    BY <1>1, <1>4 DEF TypeInv, OnRows
  <2> QED
    BY <1>1, <1>2, <2>1, <2>2, <2>3 DEF TypeInv
<1>10. SlotsApart'
  <2>1. empty_slots' \in Seq(Slots')
    BY <1>3, <1>4, <1>6
  <2>2. Len(empty_slots') + nd' = max_points'
    <3>1. Len(empty_slots) \in Nat /\ nd \in Nat /\ Len(empty_slots) + nd = max_points
      BY <1>1 DEF SlotsApart, TypeInv
    <3>2. Len(empty_slots') = Len(empty_slots) - 1
      BY <1>3, <1>4
    <3>3. max_points' = max_points /\ nd' = nd + 1
      BY <1>2
    <3> QED
      BY <3>1, <3>2, <3>3
  <2>3. \A i, j \in 1 .. Len(empty_slots') : empty_slots'[i] = empty_slots'[j] => i = j
    <3>1. Len(empty_slots) \in Nat /\ Len(left) = Len(empty_slots) - 1
      BY <1>1, <1>3 DEF SlotsApart
    <3>2. \A i \in 1 .. Len(left) : i \in 1 .. Len(empty_slots) /\ left[i] = empty_slots[i]
      BY <1>3, <3>1
    <3> QED
      BY <1>1, <1>4, <3>2 DEF SlotsApart
  <2>4. ToSet(empty_slots') \cap (LiveSlots' \cup delete_set') = {}
    BY <1>1, <1>3, <1>4, <1>5, <1>8, Zenon DEF SlotsApart
  <2>5. delete_set' \subseteq Slots' /\ LiveSlots' \cap delete_set' = {}
    BY <1>1, <1>3, <1>5, <1>6, <1>8 DEF SlotsApart
  <2> QED
    BY <2>1, <2>2, <2>3, <2>4, <2>5 DEF SlotsApart
<1>11. Counted'
  <2>1. Cardinality(LiveSlots') = Cardinality(LiveSlots) + 1
    <3>1. IsFiniteSet(LiveSlots) /\ l \notin LiveSlots
      BY <1>1, <1>3, LiveFinite
    <3> QED
      BY <1>8, <3>1, FS_AddElement
  <2>2. Cardinality(LiveSlots) \in Nat /\ nd \in Nat /\ Cardinality(delete_set) \in Nat
    BY <1>1, CountsType
  <2>3. Forgotten => Forgotten'
    <3>1. l \in ToSet(empty_slots)
      BY <1>1, <1>3 DEF SlotsApart, PopAny, Last, l, ToSet
    <3> QED
      BY <1>2, <1>3, <1>4, <1>6, <1>8, <3>1 DEF Forgotten
  <2> QED
    BY <1>1, <1>2, <1>5, <2>1, <2>2, <2>3 DEF Counted
<1>12. InSave'
  BY <1>1, <1>2, <1>5 DEF InSave
<1>13. FilesInv'
  BY <1>1, <1>2 DEF FilesInv
<1>14. LiveVectors'
  <2>1. ASSUME ~mixed, NEW r \in LiveSlots'
        PROVE  location_to_tag'[r] \in overrun \/ data_store'[r] = location_to_tag'[r]
    <3>1. l \in Rows /\ DOMAIN location_to_tag = Rows /\ DOMAIN data_store = Rows
      BY <1>1, <1>3, <1>6 DEF TypeInv, OnRows
    <3>2. CASE r = l
      BY <1>4, <3>1, <3>2
    <3>3. CASE r # l
      <4>1. r \in LiveSlots /\ r \in Rows
        BY <1>1, <1>8, <3>3, LiveFinite
      <4>2. location_to_tag[r] \in overrun \/ data_store[r] = location_to_tag[r]
        BY <1>1, <2>1, <4>1 DEF LiveVectors
      <4> QED
        BY <1>4, <3>1, <3>3, <4>1, <4>2
    <3> QED
      BY <3>2, <3>3
  <2> QED
    BY <1>2, <2>1 DEF LiveVectors
<1>15. TagsApart'
  <2>1. l \in Rows /\ l \notin LiveSlots /\ DOMAIN location_to_tag = Rows /\ LiveSlots \subseteq Rows
    BY <1>1, <1>3, <1>6, LiveFinite DEF TypeInv
  <2>2. location_to_tag'[l] = t /\ \A r \in LiveSlots : location_to_tag'[r] = location_to_tag[r]
    BY <1>4, <2>1
  <2>3. \A r \in LiveSlots : location_to_tag[r] # t
    BY Zenon DEF Insert
  <2> QED
    BY <1>1, <1>2, <1>8, <2>2, <2>3 DEF TagsApart
<1> QED
  BY <1>9, <1>10, <1>11, <1>12, <1>13, <1>14, <1>15 DEF SaveInv

LEMMA LazyDeleteKeeps ==
    ASSUME SaveInv, NEW t \in Tags, LazyDelete(t), UNCHANGED setup
    PROVE  SaveInv'
<1> DEFINE x == LocationOf(t)
<1>1. TypeInv /\ SlotsApart /\ Counted /\ TagsApart /\ InSave /\ FilesInv /\ LiveVectors
  BY DEF SaveInv
<1>2. /\ UNCHANGED <<setup, max_points, nd, start, empty_slots, neighbours, data_store,
                      saving, files, whole, mixed, overrun>>
      /\ saving = "idle" /\ data_compacted' = FALSE
  BY Zenon DEF LazyDelete, history
<1>3. Slots \subseteq Rows /\ Slots' = Slots /\ LiveSlots \subseteq Slots
  BY <1>1, <1>2, LiveFinite DEF Slots
<1>4. CASE \E l \in LiveSlots : location_to_tag[l] = t
  <2>1. x \in LiveSlots
    BY <1>4, Zenon DEF LocationOf
  <2>2. delete_set' = delete_set \cup {x} /\ location_to_tag' = [location_to_tag EXCEPT ![x] = NoTag]
    BY <1>4, Zenon DEF LazyDelete, WithoutTag
  <2> HIDE DEF x
  <2>3. LiveSlots' = LiveSlots \ {x}
    <3>1. \A r \in Slots : location_to_tag'[r] = IF r = x THEN NoTag ELSE location_to_tag[r]
      BY <1>1, <1>3, <2>1, <2>2 DEF TypeInv
    <3> QED
      BY <1>3, <2>1, <3>1 DEF LiveSlots, HasTag
  <2>4. TypeInv'
    <3>1. location_to_tag' \in [Rows -> Tags \cup {ZeroTag, NoTag}]
      BY <1>1, <2>2 DEF TypeInv
    <3> QED
      BY <1>1, <1>2, <3>1 DEF TypeInv, OnRows
  <2>5. SlotsApart'
    BY <1>1, <1>2, <1>3, <2>1, <2>2, <2>3 DEF SlotsApart
  <2>6. Counted'
    <3>1. IsFiniteSet(LiveSlots) /\ IsFiniteSet(delete_set) /\ x \notin delete_set
      BY <1>1, <2>1, LiveFinite, CountsType DEF SlotsApart
    <3>2. Cardinality(LiveSlots') = Cardinality(LiveSlots) - 1
      BY <2>1, <2>3, <3>1, FS_RemoveElement
    <3>3. Cardinality(delete_set') = Cardinality(delete_set) + 1
      BY <2>2, <3>1, FS_AddElement
    <3>4. Cardinality(LiveSlots) \in Nat /\ nd \in Nat /\ Cardinality(delete_set) \in Nat
      BY <1>1, CountsType
    <3> QED
      BY <1>1, <1>2, <1>3, <2>3, <3>2, <3>3, <3>4 DEF Counted, Forgotten
  <2>7. InSave' /\ FilesInv'
    BY <1>1, <1>2 DEF InSave, FilesInv
  <2>8. LiveVectors'
    <3>1. ASSUME ~mixed, NEW r \in LiveSlots'
          PROVE  location_to_tag'[r] \in overrun \/ data_store[r] = location_to_tag'[r]
      <4>1. r \in LiveSlots /\ r # x /\ r \in Rows
        BY <1>3, <2>3
      <4>2. location_to_tag[r] \in overrun \/ data_store[r] = location_to_tag[r]
        BY <1>1, <3>1, <4>1 DEF LiveVectors
      <4> QED
        BY <1>1, <2>2, <4>1, <4>2 DEF TypeInv
    <3> QED
      BY <1>2, <3>1 DEF LiveVectors
  <2>9. TagsApart'
    <3>1. \A r \in LiveSlots' : r \in LiveSlots /\ location_to_tag'[r] = location_to_tag[r]
      BY <1>1, <1>3, <2>2, <2>3 DEF TypeInv
    <3> QED
      BY <1>1, <1>2, <3>1 DEF TagsApart
  <2> QED
    BY <2>4, <2>5, <2>6, <2>7, <2>8, <2>9 DEF SaveInv
<1>5. CASE ~ \E l \in LiveSlots : location_to_tag[l] = t
  <2>1. UNCHANGED <<delete_set, location_to_tag>>
    BY <1>5, Zenon DEF LazyDelete
  <2>2. LiveSlots' = LiveSlots
    BY <1>3, <2>1 DEF LiveSlots, HasTag
  <2>3. TypeInv' /\ SlotsApart'
    BY <1>1, <1>2, <1>3, <2>1, <2>2 DEF TypeInv, OnRows, SlotsApart
  <2>4. Counted'
    BY <1>1, <1>2, <1>3, <2>1, <2>2 DEF Counted, Forgotten
  <2>5. InSave' /\ FilesInv' /\ LiveVectors' /\ TagsApart'
    BY <1>1, <1>2, <2>1, <2>2 DEF InSave, FilesInv, LiveVectors, TagsApart
  <2> QED
    BY <2>3, <2>4, <2>5 DEF SaveInv
<1> QED
  BY <1>4, <1>5

\* What the order of a set lists.
LEMMA Listed ==
    ASSUME NEW S, IsFiniteSet(S), NEW s \in SetToSeqs(S)
    PROVE  /\ s \in Seq(S) /\ Len(s) = Cardinality(S)
           /\ \A i, j \in 1 .. Len(s) : s[i] = s[j] => i = j
<1>1. Cardinality(S) \in Nat
  BY FS_CardinalityType
<1>2. s \in [1 .. Cardinality(S) -> S] /\ \A i, j \in 1 .. Cardinality(S) : i # j => s[i] # s[j]
  BY DEF SetToSeqs
<1>3. s \in Seq(S) /\ Len(s) = Cardinality(S)
  BY <1>1, <1>2, IsASeq, LenProperties
<1> QED
  BY <1>2, <1>3

LEMMA ConsolidateKeeps ==
    ASSUME SaveInv, Consolidate, UNCHANGED setup
    PROVE  SaveInv'
<1>1. TypeInv /\ SlotsApart /\ Counted /\ TagsApart /\ InSave /\ FilesInv /\ LiveVectors
  BY DEF SaveInv
<1>2. /\ UNCHANGED <<setup, max_points, start, data_compacted, location_to_tag, data_store,
                      saving, files, whole, mixed, overrun>>
      /\ saving = "idle" /\ delete_set' = {} /\ nd' = nd - Cardinality(delete_set)
  BY Zenon DEF Consolidate, history
<1>3. PICK released \in SetToSeqs(delete_set) : empty_slots' = empty_slots \o released
  BY Zenon DEF Consolidate
<1>4. Slots' = Slots /\ LiveSlots' = LiveSlots
  BY <1>2 DEF Slots, LiveSlots, HasTag
<1>5. /\ released \in Seq(delete_set) /\ Len(released) = Cardinality(delete_set)
      /\ \A i, j \in 1 .. Len(released) : released[i] = released[j] => i = j
  BY <1>1, CountsType, Listed
<1>6. /\ Cardinality(LiveSlots) \in Nat /\ nd \in Nat
      /\ IsFiniteSet(delete_set) /\ Cardinality(delete_set) \in Nat
  BY <1>1, CountsType
<1> DEFINE n == Len(empty_slots)
           k == Len(released)
<1>7. n \in Nat /\ k \in Nat /\ delete_set \subseteq Slots /\ empty_slots \in Seq(Slots)
  BY <1>1, <1>5, <1>6 DEF SlotsApart
<1>8. /\ empty_slots' \in Seq(Slots) /\ Len(empty_slots') = n + k
      /\ \A i \in 1 .. n : empty_slots'[i] = empty_slots[i]
      /\ \A i \in n + 1 .. n + k : empty_slots'[i] = released[i - n]
  <2>1. released \in Seq(Slots)
    BY <1>5, <1>7
  <2> QED
    BY <1>3, <1>7, <2>1
<1>9. \A i \in 1 .. n : empty_slots[i] \in ToSet(empty_slots)
  BY <1>7 DEF ToSet
<1>10. \A i \in n + 1 .. n + k : i - n \in 1 .. k /\ released[i - n] \in delete_set
  <2>1. \A i \in 1 .. k : released[i] \in delete_set
    BY <1>5
  <2>2. \A i \in n + 1 .. n + k : i - n \in 1 .. k
    BY <1>7
  <2> QED
    BY <2>1, <2>2
<1>11. \A x \in ToSet(empty_slots) : x \notin LiveSlots /\ x \notin delete_set
  BY <1>1 DEF SlotsApart
<1>12. Cardinality(delete_set') = 0
  BY <1>2, FS_EmptySet
<1>13. TypeInv'
  <2>1. nd' \in 0 .. max_points'
    BY <1>1, <1>2, <1>6 DEF TypeInv, Counted
  <2> QED
    BY <1>1, <1>2, <2>1 DEF TypeInv, OnRows
<1>14. SlotsApart'
  <2>1. ASSUME NEW i \in 1 .. n + k, NEW j \in 1 .. n + k, empty_slots'[i] = empty_slots'[j]
        PROVE  i = j
    <3>1. i \in 1 .. n \/ i \in n + 1 .. n + k
      BY <1>7
    <3>2. j \in 1 .. n \/ j \in n + 1 .. n + k
      BY <1>7
    <3>3. CASE i \in 1 .. n /\ j \in 1 .. n
      BY <1>1, <1>8, <2>1, <3>3 DEF SlotsApart
    <3>4. CASE i \in n + 1 .. n + k /\ j \in n + 1 .. n + k
      <4>1. i - n = j - n
        BY <1>5, <1>8, <1>10, <2>1, <3>4
      <4> QED
        BY <1>7, <4>1
    <3>5. CASE i \in 1 .. n /\ j \in n + 1 .. n + k
      <4> HIDE DEF n, k
      <4> QED
        BY <1>8, <1>9, <1>10, <1>11, <2>1, <3>5
    <3>6. CASE i \in n + 1 .. n + k /\ j \in 1 .. n
      <4> HIDE DEF n, k
      <4> QED
        BY <1>8, <1>9, <1>10, <1>11, <2>1, <3>6
    <3> QED
      BY <3>1, <3>2, <3>3, <3>4, <3>5, <3>6
  <2>2. Len(empty_slots') + nd' = max_points'
    BY <1>1, <1>2, <1>5, <1>6, <1>7, <1>8 DEF SlotsApart
  <2>3. ASSUME NEW y \in ToSet(empty_slots') PROVE y \notin LiveSlots
    <3>1. PICK i \in 1 .. n + k : y = empty_slots'[i]
      BY <1>8 DEF ToSet
    <3>2. i \in 1 .. n \/ i \in n + 1 .. n + k
      BY <1>7
    <3>3. y \in ToSet(empty_slots) \/ y \in delete_set
      <4> HIDE DEF n, k
      <4> QED
        BY <1>8, <1>9, <1>10, <3>1, <3>2
    <3> QED
      BY <1>1, <1>11, <3>3 DEF SlotsApart
  <2> QED
    BY <1>2, <1>4, <1>8, <2>1, <2>2, <2>3 DEF SlotsApart
<1>15. Counted'
  <2>1. Cardinality(LiveSlots) + Cardinality(delete_set) = nd
    BY Zenon DEF Consolidate, CountsAgree
  <2> QED
    BY <1>2, <1>4, <1>6, <1>12, <2>1 DEF Counted
<1>16. InSave' /\ FilesInv' /\ LiveVectors' /\ TagsApart'
  BY <1>1, <1>2, <1>4 DEF InSave, FilesInv, LiveVectors, TagsApart
<1> QED
  BY <1>13, <1>14, <1>15, <1>16 DEF SaveInv

LEMMA ConsolidateStartDeletedKeeps ==
    ASSUME SaveInv, ConsolidateStartDeleted, UNCHANGED setup
    PROVE  SaveInv'
<1>1. TypeInv /\ SlotsApart /\ Counted /\ TagsApart /\ InSave /\ FilesInv /\ LiveVectors
  BY DEF SaveInv
<1>2. /\ UNCHANGED <<setup, max_points, nd, start, data_compacted, empty_slots, location_to_tag,
                      data_store, saving, files, whole, mixed, overrun>>
      /\ saving = "idle" /\ delete_set' = {} /\ start \in delete_set
  BY Zenon DEF ConsolidateStartDeleted, history
<1>3. Slots' = Slots /\ LiveSlots' = LiveSlots
  BY <1>2 DEF Slots, LiveSlots, HasTag
<1>4. Cardinality(delete_set') = 0
  BY <1>2, FS_EmptySet
<1>5. Counted'
  <2>1. Forgotten'
    BY <1>1, <1>2, <1>3 DEF SlotsApart, InSave, Forgotten
  <2>2. Cardinality(LiveSlots) \in Nat /\ nd \in Nat /\ Cardinality(delete_set) \in Nat
    BY <1>1, CountsType
  <2> QED
    BY <1>1, <1>2, <1>3, <1>4, <2>1, <2>2 DEF Counted
<1>6. TypeInv' /\ SlotsApart'
  BY <1>1, <1>2, <1>3 DEF TypeInv, OnRows, SlotsApart
<1>7. InSave' /\ FilesInv' /\ LiveVectors' /\ TagsApart'
  BY <1>1, <1>2, <1>3 DEF InSave, FilesInv, LiveVectors, TagsApart
<1> QED
  BY <1>5, <1>6, <1>7 DEF SaveInv
\* What a run of numbers lists.
LEMMA AscendingList ==
    ASSUME NEW a \in Nat, NEW b \in Nat, a <= b
    PROVE  /\ Ascending(a, b - 1) \in Seq(0 .. b - 1)
           /\ Len(Ascending(a, b - 1)) = b - a
           /\ \A i, j \in 1 .. b - a : Ascending(a, b - 1)[i] = Ascending(a, b - 1)[j] => i = j
           /\ ToSet(Ascending(a, b - 1)) \subseteq a .. b - 1
<1> DEFINE s == Ascending(a, b - 1)
<1>1. s = [i \in 1 .. b - a |-> a + (i - 1)]
  <2>1. ((b - 1) - a) + 1 = b - a
    OBVIOUS
  <2>2. s = [i \in 1 .. ((b - 1) - a) + 1 |-> a + (i - 1)]
    BY Zenon DEF Ascending
  <2> QED
    BY <2>1, <2>2
<1>2. b - a \in Nat /\ \A i \in 1 .. b - a : a + (i - 1) \in 0 .. b - 1 /\ a + (i - 1) \in a .. b - 1
  OBVIOUS
<1>3. s \in [1 .. b - a -> 0 .. b - 1] /\ DOMAIN s = 1 .. b - a
  BY <1>1, <1>2
<1>4. s \in Seq(0 .. b - 1) /\ Len(s) = b - a
  BY <1>2, <1>3, IsASeq, LenProperties
<1>5. \A i, j \in 1 .. b - a : s[i] = s[j] => i = j
  BY <1>1
<1>6. ToSet(s) \subseteq a .. b - 1
  BY <1>1, <1>2, <1>3 DEF ToSet
<1> QED
  BY <1>4, <1>5, <1>6

\* An index whose points are among the first rows, with the others free.
LEMMA InOrderApart ==
    ASSUME TypeInv, LiveSlots \subseteq 0 .. nd - 1, delete_set = {}, empty_slots = Ascending(nd, max_points - 1)
    PROVE  SlotsApart
<1>1. nd \in Nat /\ max_points \in Nat /\ nd <= max_points
  BY DEF TypeInv
<1>2. /\ empty_slots \in Seq(Slots) /\ Len(empty_slots) = max_points - nd
      /\ \A i, j \in 1 .. Len(empty_slots) : empty_slots[i] = empty_slots[j] => i = j
      /\ ToSet(empty_slots) \subseteq nd .. max_points - 1
  <2> DEFINE s == Ascending(nd, max_points - 1)
  <2>1. s \in Seq(Slots)
    BY <1>1, AscendingList DEF Slots
  <2>2. Len(s) = max_points - nd
    BY <1>1, AscendingList
  <2>3. \A i, j \in 1 .. max_points - nd : s[i] = s[j] => i = j
    BY <1>1, AscendingList
  <2>4. ToSet(s) \subseteq nd .. max_points - 1
    BY <1>1, AscendingList
  <2>5. empty_slots = s
    OBVIOUS
  <2> HIDE DEF s
  <2> QED
    BY <2>1, <2>2, <2>3, <2>4, <2>5
<1>3. Len(empty_slots) + nd = max_points
  BY <1>1, <1>2
<1>4. ToSet(empty_slots) \cap LiveSlots = {}
  BY <1>1, <1>2
<1> QED
  BY <1>2, <1>3, <1>4 DEF SlotsApart

LEMMA InOrderCounted ==
    ASSUME TypeInv, LiveSlots \subseteq 0 .. nd - 1, delete_set = {}, ~mixed => LiveSlots = 0 .. nd - 1
    PROVE  Counted
<1>1. nd \in Nat
  BY DEF TypeInv
<1>2. IsFiniteSet(0 .. nd - 1) /\ Cardinality(0 .. nd - 1) = nd
  <2>1. 0 \in Int /\ nd - 1 \in Int
    BY <1>1
  <2>2. /\ IsFiniteSet(0 .. nd - 1)
        /\ Cardinality(0 .. nd - 1) = IF 0 > nd - 1 THEN 0 ELSE nd - 1 - 0 + 1
    BY ONLY <2>1, FS_Interval
  <2> QED
    BY <1>1, <2>2
<1>3. Cardinality({}) = 0
  BY FS_EmptySet
<1>4. Cardinality(LiveSlots) <= nd
  <2>1. Cardinality(LiveSlots) <= Cardinality(0 .. nd - 1)
    BY <1>2, FS_Subset
  <2> QED
    BY <1>2, <2>1
<1>5. Cardinality(LiveSlots) \in Nat
  BY LiveFinite, FS_CardinalityType
<1> QED
  BY <1>1, <1>2, <1>3, <1>4, <1>5 DEF Counted

LEMMA FileNames == ToSet(Files) = {"graph", "data", "tags"} /\ Head(Files) = "graph"
<1>1. Files = <<"graph", "data", "tags">>
  BY DEF Files
<1>2. DOMAIN Files = 1 .. 3
  BY <1>1
<1>3. DOMAIN Files = {1, 2, 3}
  BY <1>2
<1> QED
  BY <1>1, <1>3 DEF ToSet

LEMMA SaveBeginKeeps ==
    ASSUME SaveInv, SaveBegin, UNCHANGED setup
    PROVE  /\ SaveInv'
           /\ ~data_compacted /\ ~mixed
              => /\ LiveSlots' = 0 .. nd - 1
                 /\ Cardinality(LiveSlots) = nd /\ \A l \in LiveSlots : Named(l)
<1> DEFINE compacted == IF ~data_compacted THEN CompactData ELSE Stores
<1>1. TypeInv /\ SlotsApart /\ Counted /\ TagsApart /\ InSave /\ FilesInv /\ LiveVectors
  BY DEF SaveInv
<1>2. /\ UNCHANGED <<setup, max_points, nd, delete_set, files, whole, mixed>>
      /\ saving = "idle" /\ saving' = "graph"
      /\ data_compacted \/ delete_set = {}
      /\ ~data_compacted => start \notin Slots \ LiveSlots
      /\ overrun' = overrun \cup OverrunBy(location_to_tag')
  BY FileNames, Zenon DEF SaveBegin
<1>3. /\ start' = IF nd < max_points THEN nd ELSE start
      /\ data_store' = IF nd < max_points THEN RepositionPoints(compacted, max_points, nd, NumFrozen).data
                       ELSE compacted.data
  BY Zenon DEF SaveBegin
<1>4. /\ data_compacted'
      /\ IF ~data_compacted
         THEN location_to_tag' = CompactedTag /\ empty_slots' = CompactedSlots
         ELSE UNCHANGED <<location_to_tag, empty_slots>>
  BY Zenon DEF SaveBegin
<1>5. /\ max_points \in Nat /\ nd \in Nat /\ nd <= max_points /\ NumFrozen \in Nat \ {0}
      /\ Slots \subseteq Rows /\ Slots' = Slots
  BY <1>1, <1>2, LiveFinite, SaveAssumption DEF TypeInv, Slots
<1>6. delete_set = {} /\ delete_set' = {}
  BY <1>1, <1>2 DEF InSave
<1>7. /\ Cardinality(LiveSlots) \in Nat /\ Cardinality(LiveSlots) <= nd
      /\ ~data_compacted /\ ~mixed => Cardinality(LiveSlots) = nd /\ \A l \in LiveSlots : Named(l)
  <2>1. Cardinality(delete_set) = 0 /\ Cardinality(LiveSlots) \in Nat
    BY <1>1, <1>6, CountsType, FS_EmptySet
  <2>2. ~data_compacted => ~Forgotten
    BY <1>2 DEF Forgotten
  <2>3. ASSUME ~mixed, NEW l \in LiveSlots PROVE Named(l)
    <3>1. \A k \in LiveSlots : location_to_tag[k] = location_to_tag[l] => k = l
      BY <1>1, <2>3 DEF TagsApart
    <3>2. l \in Nat
      BY <1>1, LiveFinite
    <3> QED
      BY <3>1, <3>2 DEF Named
  <2> QED
    BY <1>1, <1>5, <2>1, <2>2, <2>3 DEF Counted
<1>8. OnRows(compacted.data)
  <2>1. CASE data_compacted
    BY <1>1, <2>1 DEF Stores, TypeInv
  <2>2. CASE ~data_compacted
    BY <1>1, <2>2, CompactedVectors
  <2> QED
    BY <2>1, <2>2
<1> HIDE DEF compacted
<1>9. OnRows(data_store')
  <2>1. CASE nd < max_points
    BY <1>3, <1>5, <1>8, <2>1, RepositionedVectors
  <2>2. CASE ~(nd < max_points)
    BY <1>3, <1>8, <2>2
  <2> QED
    BY <2>1, <2>2
<1>10. ASSUME NEW r \in Slots \ FrozenAt(nd) PROVE r \in Rows /\ data_store'[r] = compacted.data[r]
  <2>1. r \in Rows /\ r \notin FrozenAt(max_points)
    BY <1>5 DEF Slots, FrozenAt
  <2>2. CASE nd < max_points
    <3>1. RepositionPoints(compacted, max_points, nd, NumFrozen).data[r] = compacted.data[r]
      BY <1>5, <1>8, <2>1, RepositionedVectors
    <3> QED
      BY <1>3, <2>1, <2>2, <3>1
  <2>3. CASE ~(nd < max_points)
    BY <1>3, <2>1, <2>3
  <2> QED
    BY <2>2, <2>3
<1>11. location_to_tag' \in [Rows -> Tags \cup {ZeroTag, NoTag}]
  <2>1. CASE data_compacted
    BY <1>1, <1>4, <2>1 DEF TypeInv
  <2>2. CASE ~data_compacted
    BY <1>1, <1>4, <2>2, CompactedTagsType
  <2> QED
    BY <2>1, <2>2
<1>12. ~data_compacted => LiveSlots' \subseteq 0 .. nd - 1 /\ (~mixed => LiveSlots' = 0 .. nd - 1)
  <2> SUFFICES ASSUME ~data_compacted
               PROVE  LiveSlots' \subseteq 0 .. nd - 1 /\ (~mixed => LiveSlots' = 0 .. nd - 1)
    OBVIOUS
  <2>1. ASSUME NEW r \in Slots \ (0 .. nd - 1) PROVE location_to_tag'[r] = NoTag
    <3>1. r \in Rows \ (0 .. Cardinality(LiveSlots) - 1)
      BY <1>5, <1>7
    <3> QED
      BY <1>1, <1>4, <3>1, CompactedTagsType
  <2>2. ASSUME ~mixed, NEW r \in 0 .. nd - 1 PROVE r \in Slots /\ location_to_tag'[r] # NoTag
    <3>1. PICK l \in LiveSlots : CompactedTag[r] = location_to_tag[l]
      BY <1>1, <1>7, <2>2, CompactedTags
    <3>2. r \in Slots
      BY <1>5 DEF Slots
    <3> QED
      BY <1>4, <3>1, <3>2 DEF LiveSlots, HasTag
  <2> QED
    BY <1>5, <2>1, <2>2 DEF LiveSlots, HasTag
<1>13. TypeInv'
  BY <1>1, <1>2, <1>9, <1>11 DEF TypeInv, Lines
<1>14. SlotsApart' /\ Counted'
  <2>1. CASE data_compacted
    <3>1. LiveSlots' = LiveSlots /\ empty_slots' = empty_slots
      BY <1>4, <1>5, <2>1 DEF LiveSlots, HasTag
    <3>2. Counted'
      BY <1>1, <1>2, <2>1, <3>1 DEF Counted, Forgotten
    <3> QED
      BY <1>1, <1>2, <1>5, <3>1, <3>2 DEF SlotsApart
  <2>2. CASE ~data_compacted
    <3>1. empty_slots' = Ascending(nd', max_points' - 1)
      BY <1>2, <1>4, <2>2, Zenon DEF CompactedSlots
    <3>2. LiveSlots' \subseteq 0 .. nd' - 1 /\ (~mixed' => LiveSlots' = 0 .. nd' - 1)
      BY <1>2, <1>12, <2>2
    <3>3. (TypeInv /\ LiveSlots \subseteq 0 .. nd - 1 /\ delete_set = {}
           /\ empty_slots = Ascending(nd, max_points - 1)
           /\ (~mixed => LiveSlots = 0 .. nd - 1))'
      BY <1>6, <1>13, <3>1, <3>2
    <3>4. (TypeInv /\ LiveSlots \subseteq 0 .. nd - 1 /\ delete_set = {}
           /\ empty_slots = Ascending(nd, max_points - 1)
           /\ (~mixed => LiveSlots = 0 .. nd - 1)
           => SlotsApart /\ Counted)'
      BY InOrderApart, InOrderCounted, PTL
    <3> QED
      BY <3>3, <3>4
  <2> QED
    BY <2>1, <2>2
<1>15. InSave'
  <2>1. ASSUME overrun' = {} PROVE start' = nd
    <3>1. start = max_points
      <4>1. CASE start # max_points
        <5>1. 1 .. NumFrozen \subseteq overrun'
          BY <1>2, <4>1 DEF OverrunBy
        <5>2. 1 \in 1 .. NumFrozen
          BY <1>5
        <5> QED
          BY <2>1, <5>1, <5>2
      <4> QED
        BY <4>1
    <3> QED
      BY <1>3, <1>5, <3>1
  <2>2. ASSUME NEW l \in LiveSlots' \cap FrozenAt(nd) PROVE location_to_tag'[l] \in overrun'
    <3>1. l \in Slots \cap FrozenAt(nd) /\ location_to_tag'[l] # NoTag
      BY <1>5, <2>2 DEF LiveSlots, HasTag
    <3> QED
      BY <1>2, <3>1 DEF OverrunBy
  <2>3. FrozenAt(nd') = FrozenAt(nd)
    BY <1>2
  <2> QED
    BY <1>2, <1>4, <1>6, <2>1, <2>2, <2>3 DEF InSave
<1>16. FilesInv'
  BY <1>1, <1>2 DEF FilesInv
<1>17. LiveVectors'
  <2>1. ASSUME ~mixed, NEW r \in LiveSlots', location_to_tag'[r] \notin overrun'
        PROVE  data_store'[r] = location_to_tag'[r]
    <3>1. r \in Slots \ FrozenAt(nd)
      <4>1. r \in Slots
        BY <1>5, <2>1 DEF LiveSlots
      <4>2. FrozenAt(nd') = FrozenAt(nd)
        BY <1>2
      <4> QED
        BY <1>2, <1>15, <2>1, <4>1, <4>2 DEF InSave
    <3>2. overrun \subseteq overrun'
      BY <1>2
    <3>3. CASE data_compacted
      <4>1. data_store'[r] = data_store[r] /\ r \in LiveSlots
        BY <1>4, <1>5, <1>10, <2>1, <3>1, <3>3 DEF compacted, Stores, LiveSlots, HasTag
      <4> QED
        BY <1>1, <1>4, <2>1, <3>2, <3>3, <4>1 DEF LiveVectors
    <3>4. CASE ~data_compacted
      <4>1. r \in 0 .. nd - 1
        BY <1>12, <2>1, <3>4
      <4>2. PICK l \in LiveSlots : r = Rank(l, LiveSlots) /\ CompactedTag[r] = location_to_tag[l]
        BY <1>1, <1>7, <2>1, <3>4, <4>1, CompactedTags
      <4>3. CompactData.data[r] = data_store[l]
        <5>1. l \in Kept /\ NewLocation(l) = r
          BY <1>1, <4>2, NewLocations DEF Kept
        <5> QED
          BY <1>1, <5>1, CompactedVectors
      <4>4. location_to_tag[l] \in overrun \/ data_store[l] = location_to_tag[l]
        BY <1>1, <2>1, <4>2 DEF LiveVectors
      <4>5. data_store'[r] = CompactData.data[r]
        BY <1>10, <3>1, <3>4 DEF compacted
      <4> QED
        BY <1>4, <2>1, <3>2, <3>4, <4>2, <4>3, <4>4, <4>5
    <3> QED
      BY <3>3, <3>4
  <2> QED
    BY <1>2, <2>1 DEF LiveVectors
<1>18. TagsApart'
  <2> SUFFICES ASSUME ~mixed
               PROVE  /\ \A l \in LiveSlots' : location_to_tag'[l] \in Tags
                      /\ \A k, l \in LiveSlots' : location_to_tag'[k] = location_to_tag'[l] => k = l
    BY <1>2 DEF TagsApart
  <2>1. CASE data_compacted
    <3>1. LiveSlots' = LiveSlots /\ location_to_tag' = location_to_tag
      BY <1>4, <1>5, <2>1 DEF LiveSlots, HasTag
    <3> QED
      BY <1>1, <3>1 DEF TagsApart
  <2>2. CASE ~data_compacted
    <3>1. \A r \in LiveSlots' : \E l \in LiveSlots :
             r = Rank(l, LiveSlots) /\ location_to_tag'[r] = location_to_tag[l]
      BY <1>1, <1>4, <1>7, <1>12, <2>2, CompactedTags
    <3> HIDE DEF LiveSlots
    <3> QED
      BY <1>1, <3>1 DEF TagsApart
  <2> QED
    BY <2>1, <2>2
<1> QED
  BY <1>7, <1>12, <1>13, <1>14, <1>15, <1>16, <1>17, <1>18 DEF SaveInv
\* The rows a save writes, and the tags among them.
LEMMA WrittenRows ==
    ASSUME TypeInv
    PROVE  /\ LastRow + 1 = nd + NumFrozen /\ LastRow + 1 \in RowCounts
           /\ 0 .. LastRow \subseteq Rows /\ nd \in Nat
<1>1. nd \in Nat /\ nd <= MaxCapacity /\ NumFrozen \in Nat \ {0} /\ MaxCapacity \in Nat
  BY SaveAssumption DEF TypeInv
<1> QED
  BY <1>1 DEF LastRow, RowCounts, Rows

LEMMA WrittenTags ==
    ASSUME TypeInv
    PROVE  /\ \A r \in 0 .. LastRow : TagRow(r) \in Tags \cup {ZeroTag}
           /\ LiveSlots = 0 .. nd - 1 /\ start = nd
              => \A r \in 0 .. nd - 1 : TagRow(r) = location_to_tag[r]
<1>1. nd \in Nat /\ NumFrozen \in Nat \ {0} /\ 0 .. LastRow \subseteq Rows
  BY WrittenRows, SaveAssumption
<1>2. ASSUME NEW r \in 0 .. LastRow PROVE TagRow(r) \in Tags \cup {ZeroTag}
  <2>1. location_to_tag[r] \in Tags \cup {ZeroTag, NoTag}
    BY <1>1 DEF TypeInv
  <2> QED
    BY <2>1 DEF TagRow
<1>3. ASSUME LiveSlots = 0 .. nd - 1, start = nd, NEW r \in 0 .. nd - 1
      PROVE  TagRow(r) = location_to_tag[r]
  <2>1. location_to_tag[r] # NoTag
    BY <1>3 DEF LiveSlots, HasTag
  <2>2. ~(r >= nd) /\ r \notin FrozenAt(start)
    BY <1>1, <1>3 DEF FrozenAt
  <2> QED
    BY <2>1, <2>2 DEF TagRow
<1> QED
  BY <1>2, <1>3

LEMMA SaveFileKeeps ==
    ASSUME SaveInv, SaveFile, UNCHANGED setup
    PROVE  SaveInv'
<1>1. TypeInv /\ SlotsApart /\ Counted /\ TagsApart /\ InSave /\ FilesInv /\ LiveVectors
  BY DEF SaveInv
<1>2. /\ UNCHANGED <<setup, max_points, nd, start, data_compacted, empty_slots, delete_set,
                      location_to_tag, neighbours, data_store, mixed, overrun>>
      /\ saving \in {"graph", "data", "tags"}
      /\ files' = [files EXCEPT ![saving] = Written(saving)]
      /\ whole' = (saving = "tags" /\ ~mixed /\ overrun = {} /\ LiveSlots = 0 .. nd - 1)
      /\ saving' = CASE saving = "graph" -> "data" [] saving = "data" -> "tags" [] OTHER -> "end"
  BY FileNames, Zenon DEF SaveFile, index
<1>3. /\ Slots' = Slots /\ LiveSlots' = LiveSlots
      /\ data_compacted /\ delete_set = {}
      /\ \A l \in LiveSlots \cap FrozenAt(nd) : location_to_tag[l] \in overrun
      /\ overrun = {} => start = nd
  BY <1>1, <1>2 DEF Slots, LiveSlots, HasTag, InSave
<1>4. /\ files = [f \in {"graph", "data", "tags"} |-> files[f]]
      /\ files' = [f \in {"graph", "data", "tags"} |-> files'[f]]
  BY <1>1, <1>2, FileNames DEF FilesInv
<1>5. TypeInv' /\ SlotsApart' /\ Counted' /\ LiveVectors' /\ TagsApart'
  <2>1. saving' \in Lines
    BY <1>2 DEF Lines
  <2>2. TypeInv'
    BY <1>1, <1>2, <2>1 DEF TypeInv, OnRows
  <2>3. SlotsApart' /\ Counted' /\ LiveVectors' /\ TagsApart'
    BY <1>1, <1>2, <1>3 DEF SlotsApart, Counted, Forgotten, LiveVectors, TagsApart
  <2> QED
    BY <2>2, <2>3
<1>6. LastRow + 1 = nd + NumFrozen /\ LastRow + 1 \in RowCounts /\ nd \in Nat /\ NumFrozen \in Nat
  BY <1>1, WrittenRows, SaveAssumption
<1>7. CASE saving = "graph"
  <2>1. files'["data"] = files["data"] /\ files'["tags"] = files["tags"] /\ ~whole' /\ saving' = "data"
    BY <1>2, <1>4, <1>7
  <2>2. InSave'
    BY <1>2, <1>3, <2>1 DEF InSave
  <2>3. FilesInv'
    BY <1>1, <1>4, <2>1, FileNames DEF FilesInv
  <2> QED
    BY <1>5, <2>2, <2>3 DEF SaveInv
<1>8. CASE saving = "data"
  <2>1. files'["data"] = DataFile /\ files'["tags"] = files["tags"] /\ ~whole' /\ saving' = "tags"
    <3>1. Written("data") = DataFile
      BY DEF Written
    <3> QED
      BY <1>2, <1>4, <1>8, <3>1
  <2>2. InSave'
    <3>1. DataFile' = DataFile
      BY <1>2 DEF DataFile, LastRow
    <3> QED
      BY <1>2, <1>3, <2>1, <3>1 DEF InSave
  <2>3. FilesInv'
    <3>1. DataFile.rows \in RowCounts
      BY <1>6 DEF DataFile
    <3> QED
      BY <1>1, <1>4, <2>1, <3>1, FileNames DEF FilesInv
  <2> QED
    BY <1>5, <2>2, <2>3 DEF SaveInv
<1>9. CASE saving = "tags"
  <2>1. /\ files'["data"] = DataFile /\ files'["tags"] = TagsFile /\ saving' = "end"
        /\ files["data"] = DataFile
    <3>1. Written("tags") = TagsFile
      BY DEF Written
    <3>2. files["data"] = DataFile
      BY <1>1, <1>9 DEF InSave
    <3> QED
      BY <1>2, <1>4, <1>9, <3>1, <3>2
  <2>2. InSave'
    BY <1>2, <1>3, <2>1 DEF InSave
  <2>3. FilesInv'
    <3>1. TagsFile.rows = nd + NumFrozen /\ \A r \in 0 .. LastRow : TagsFile.tags[r] = TagRow(r)
      BY <1>6 DEF TagsFile
    <3>2. \A r \in 0 .. nd - 1 : r \in 0 .. LastRow
      BY <1>6 DEF LastRow
    <3>3. DataFile.rows \in RowCounts /\ \A r \in 0 .. LastRow : DataFile.data[r] = data_store[r]
      BY <1>6 DEF DataFile
    <3>4. /\ \A r \in 0 .. LastRow : TagRow(r) \in Tags \cup {ZeroTag}
          /\ LiveSlots = 0 .. nd - 1 /\ start = nd
             => \A r \in 0 .. nd - 1 : TagRow(r) = location_to_tag[r]
      BY <1>1, WrittenTags
    <3>5. files'["tags"].rows - 1 = LastRow /\ files'["tags"].rows - NumFrozen - 1 = nd - 1
      <4>1. files'["tags"].rows = nd + NumFrozen
        BY <2>1, <3>1
      <4> QED
        BY <1>6, <4>1 DEF LastRow
    <3>6. ASSUME whole'
          PROVE  /\ \A r \in 0 .. nd - 1 : TagsFile.tags[r] = location_to_tag[r]
                 /\ \A r \in 0 .. nd - 1 : location_to_tag[r] \in Tags
                 /\ \A r, t \in 0 .. nd - 1 : location_to_tag[r] = location_to_tag[t] => r = t
                 /\ \A r \in 0 .. nd - 1 : DataFile.data[r] = location_to_tag[r]
      <4>1. ~mixed /\ overrun = {} /\ LiveSlots = 0 .. nd - 1 /\ start = nd
        BY <1>2, <1>3, <3>6
      <4>2. /\ \A r \in 0 .. nd - 1 : location_to_tag[r] \in Tags /\ data_store[r] = location_to_tag[r]
            /\ \A r, t \in 0 .. nd - 1 : location_to_tag[r] = location_to_tag[t] => r = t
        BY <1>1, <4>1 DEF TagsApart, LiveVectors
      <4> QED
        BY <3>1, <3>2, <3>3, <3>4, <4>1, <4>2
    <3>7. files'["data"].rows \in RowCounts /\ files'["tags"].rows \in RowCounts
      BY <1>6, <2>1, <3>1, <3>3
    <3>8. \A r \in 0 .. files'["tags"].rows - 1 : files'["tags"].tags[r] \in Tags \cup {ZeroTag}
      BY <2>1, <3>1, <3>4, <3>5
    <3>9. whole' =>
            /\ \A r \in 0 .. files'["tags"].rows - NumFrozen - 1 :
                  /\ files'["tags"].tags[r] \in Tags
                  /\ files'["data"].data[r] = files'["tags"].tags[r]
            /\ \A r, t \in 0 .. files'["tags"].rows - NumFrozen - 1 :
                  files'["tags"].tags[r] = files'["tags"].tags[t] => r = t
      <4> HIDE DEF LiveSlots
      <4> QED
        BY <2>1, <3>5, <3>6
    <3> QED
      BY <1>4, <3>7, <3>8, <3>9, FileNames DEF FilesInv
  <2> QED
    BY <1>5, <2>2, <2>3 DEF SaveInv
<1> QED
  BY <1>2, <1>7, <1>8, <1>9

LEMMA SaveEndKeeps ==
    ASSUME SaveInv, SaveEnd, UNCHANGED setup
    PROVE  SaveInv'
<1>1. TypeInv /\ SlotsApart /\ Counted /\ TagsApart /\ InSave /\ FilesInv /\ LiveVectors
  BY DEF SaveInv
<1>2. /\ UNCHANGED <<setup, max_points, nd, data_compacted, empty_slots, delete_set,
                      location_to_tag, files, whole, mixed, overrun>>
      /\ saving = "end" /\ saving' = "idle"
      /\ data_store' = (IF nd = max_points THEN Stores
                        ELSE RepositionPoints(Stores, nd, max_points, NumFrozen)).data
  BY Zenon DEF SaveEnd, history
<1>3. /\ Slots' = Slots /\ LiveSlots' = LiveSlots /\ Slots \subseteq Rows /\ data_compacted
      /\ \A l \in LiveSlots \cap FrozenAt(nd) : location_to_tag[l] \in overrun
  BY <1>1, <1>2, LiveFinite DEF Slots, LiveSlots, HasTag, InSave
<1>4. nd \in Nat /\ max_points \in Nat /\ nd <= max_points /\ NumFrozen \in Nat
  BY <1>1, SaveAssumption DEF TypeInv
<1>5. OnRows(Stores.data) /\ Stores.data = data_store
  BY <1>1 DEF Stores, TypeInv
<1>6. OnRows(data_store') /\ \A r \in Slots \ FrozenAt(nd) : data_store'[r] = data_store[r]
  <2>1. CASE nd = max_points
    BY <1>2, <1>5, <2>1
  <2>2. CASE nd # max_points
    <3>1. \A r \in Slots \ FrozenAt(nd) : r \in Rows \ (FrozenAt(nd) \cup FrozenAt(max_points))
      BY <1>3, <1>4 DEF Slots, FrozenAt
    <3> DEFINE t == RepositionPoints(Stores, nd, max_points, NumFrozen)
    <3>2. data_store' = t.data
      BY <1>2, <2>2
    <3>3. OnRows(t.data)
      BY <1>4, <1>5, RepositionedVectors
    <3>4. \A r \in Rows \ (FrozenAt(nd) \cup FrozenAt(max_points)) : t.data[r] = Stores.data[r]
      BY <1>4, <1>5, RepositionedVectors
    <3> HIDE DEF t
    <3> QED
      BY <1>5, <3>1, <3>2, <3>3, <3>4, Zenon
  <2> QED
    BY <2>1, <2>2
<1>7. TypeInv' /\ SlotsApart' /\ TagsApart'
  BY <1>1, <1>2, <1>3, <1>6 DEF TypeInv, Lines, SlotsApart, TagsApart
<1>8. Counted'
  BY <1>1, <1>2, <1>3 DEF Counted, Forgotten
<1>9. InSave' /\ FilesInv'
  BY <1>1, <1>2 DEF InSave, FilesInv
<1>10. LiveVectors'
  <2>1. ASSUME ~mixed, NEW l \in LiveSlots, location_to_tag[l] \notin overrun
        PROVE  data_store'[l] = location_to_tag[l]
    <3>1. l \in Slots \ FrozenAt(nd)
      BY <1>1, <1>3, <2>1, LiveFinite
    <3> QED
      BY <1>1, <1>6, <2>1, <3>1 DEF LiveVectors
  <2> QED
    BY <1>2, <1>3, <2>1 DEF LiveVectors
<1> QED
  BY <1>7, <1>8, <1>9, <1>10 DEF SaveInv

LEMMA SaveThrowKeeps ==
    ASSUME SaveInv, SaveThrow, UNCHANGED setup
    PROVE  SaveInv'
<1>1. TypeInv /\ SlotsApart /\ Counted /\ TagsApart /\ InSave /\ FilesInv /\ LiveVectors
  BY DEF SaveInv
<1>2. /\ UNCHANGED <<setup, max_points, nd, start, data_compacted, empty_slots, delete_set,
                      location_to_tag, neighbours, data_store, mixed, overrun>>
      /\ saving \in {"graph", "data", "tags"} /\ saving' = "idle" /\ ~whole'
      /\ files' = [files EXCEPT ![saving] = Missing]
  BY FileNames, Zenon DEF SaveThrow, index
<1>3. Slots' = Slots /\ LiveSlots' = LiveSlots
  BY <1>2 DEF Slots, LiveSlots, HasTag
<1>4. TypeInv' /\ SlotsApart' /\ InSave'
  BY <1>1, <1>2, <1>3 DEF TypeInv, OnRows, Lines, SlotsApart, InSave
<1>5. Counted' /\ TagsApart' /\ LiveVectors'
  BY <1>1, <1>2, <1>3 DEF Counted, Forgotten, TagsApart, LiveVectors
<1>6. FilesInv'
  <2>1. \A f \in {"graph", "data", "tags"} : files'[f] = Missing \/ files'[f] = files[f]
    BY <1>1, <1>2, FileNames DEF FilesInv
  <2>2. files' = [f \in {"graph", "data", "tags"} |-> files'[f]]
    BY <1>1, <1>2, FileNames DEF FilesInv
  <2> QED
    BY <1>1, <1>2, <2>1, <2>2, FileNames DEF FilesInv
<1> QED
  BY <1>4, <1>5, <1>6 DEF SaveInv
\* The vectors of a loaded index, from the file of vectors.
LEMMA LoadedVectors ==
    ASSUME NEW rows \in Nat, NEW max \in Nat, NumFrozen <= rows, rows - NumFrozen <= max,
           files["data"].rows = rows
    PROVE  /\ OnRows(LoadedStores(rows, max).data)
           /\ \A r \in Rows : r < rows - NumFrozen =>
                 LoadedStores(rows, max).data[r] = files["data"].data[r]
<1> DEFINE read == [graph |-> ReadLists(max), data |-> ReadVectors(max)]
           n == rows - NumFrozen
<1>1. n \in Nat /\ NumFrozen \in Nat /\ n <= rows /\ n <= max
  BY SaveAssumption
<1>2. read.data = ReadVectors(max)
  OBVIOUS
<1>3. OnRows(read.data)
  BY <1>2 DEF ReadVectors, OnRows
<1>4. \A r \in Rows : r < n => read.data[r] = files["data"].data[r]
  <2>1. \A r \in Rows : r < n => r < rows
    BY <1>1, SaveAssumption DEF Rows
  <2> QED
    BY <1>2, <2>1 DEF ReadVectors
<1>5. LoadedStores(rows, max) = IF n = max THEN read ELSE RepositionPoints(read, n, max, NumFrozen)
  BY Zenon DEF LoadedStores
<1> HIDE DEF read
<1>6. CASE n = max
  BY <1>3, <1>4, <1>5, <1>6
<1>7. CASE n # max
  <2>1. LoadedStores(rows, max) = RepositionPoints(read, n, max, NumFrozen)
    BY <1>5, <1>7
  <2> HIDE DEF n
  <2> DEFINE moved == RepositionPoints(read, n, max, NumFrozen)
  <2>2. OnRows(LoadedStores(rows, max).data)
    <3>1. OnRows(moved.data)
      BY <1>1, <1>3, RepositionedVectors
    <3> HIDE DEF moved
    <3> QED
      BY <2>1, <3>1 DEF moved
  <2>3. ASSUME NEW r \in Rows, r < n PROVE LoadedStores(rows, max).data[r] = files["data"].data[r]
    <3>1. r \in Rows \ (FrozenAt(n) \cup FrozenAt(max))
      BY <1>1, <2>3, SaveAssumption DEF Rows, FrozenAt
    <3>2. RepositionPoints(read, n, max, NumFrozen).data[r] = read.data[r]
      BY <1>1, <1>3, <2>3, <3>1, RepositionedVectors
    <3> QED
      BY <1>4, <2>1, <2>3, <3>2
  <2> QED
    BY <2>2, <2>3 DEF n
<1> QED
  BY <1>6, <1>7

LEMMA LoadKeeps ==
    ASSUME SaveInv, NEW c \in setup.capacities, Load(c), UNCHANGED setup
    PROVE  SaveInv' /\ LiveSlots' = 0 .. nd' - 1
<1> DEFINE rows == files["data"].rows
           n == rows - NumFrozen
           max == Resized(c, n)
<1>1. TypeInv /\ FilesInv
  BY DEF SaveInv
<1>2. /\ UNCHANGED <<setup, files, whole>>
      /\ FilesAgree /\ max_points' = max /\ nd' = n
      /\ empty_slots' = Ascending(n, max - 1) /\ delete_set' = {} /\ saving' = "idle"
      /\ location_to_tag' = [r \in Rows |-> IF r < n THEN files["tags"].tags[r] ELSE NoTag]
      /\ data_store' = LoadedStores(rows, max).data
      /\ mixed' = ~whole
  BY Zenon DEF Load
<1>3. /\ files["data"] # Missing /\ files["tags"] # Missing /\ files["tags"].rows = rows
  BY <1>2, FileNames DEF FilesAgree
<1>4. c \in 1 .. MaxCapacity /\ MaxCapacity \in Nat /\ NumFrozen \in Nat \ {0}
  BY <1>1, SaveAssumption DEF TypeInv
<1>5. rows \in RowCounts
  BY <1>1, <1>3 DEF FilesInv
<1>6. rows \in Nat /\ n \in 0 .. MaxCapacity /\ NumFrozen <= rows
  BY <1>4, <1>5 DEF RowCounts
<1>7. max \in 1 .. MaxCapacity /\ n <= max
  BY <1>4, <1>6 DEF Resized
<1>8. \A r \in 0 .. n - 1 : files["tags"].tags[r] \in Tags \cup {ZeroTag}
  <2>1. \A r \in 0 .. n - 1 : r \in 0 .. files["tags"].rows - 1
    BY <1>3, <1>4, <1>6
  <2> QED
    BY <1>1, <1>3, <2>1 DEF FilesInv
<1>9. whole => /\ \A r \in 0 .. n - 1 : /\ files["tags"].tags[r] \in Tags
                                         /\ files["data"].data[r] = files["tags"].tags[r]
              /\ \A r, t \in 0 .. n - 1 : files["tags"].tags[r] = files["tags"].tags[t] => r = t
  BY <1>1, <1>3 DEF FilesInv
<1>10. /\ OnRows(data_store')
       /\ \A r \in Rows : r < n => data_store'[r] = files["data"].data[r]
  <2>1. rows \in Nat /\ max \in Nat /\ NumFrozen <= rows /\ rows - NumFrozen <= max
    BY <1>6, <1>7
  <2> HIDE DEF max
  <2>2. OnRows(LoadedStores(rows, max).data)
    BY <2>1, LoadedVectors
  <2>3. \A r \in Rows : r < rows - NumFrozen => LoadedStores(rows, max).data[r] = files["data"].data[r]
    BY <2>1, LoadedVectors
  <2> QED
    BY <1>2, <2>2, <2>3
<1> HIDE DEF n, max
<1>11. \A r \in Rows : r \in Nat
  BY SaveAssumption DEF Rows
<1>12. 0 .. n - 1 \subseteq Rows /\ 0 .. max - 1 \subseteq Rows
  BY <1>4, <1>6, <1>7 DEF Rows
<1>13. NoTag \notin Tags \cup {ZeroTag}
  BY SaveAssumption
<1>14. \A r \in Rows : location_to_tag'[r] = IF r < n THEN files["tags"].tags[r] ELSE NoTag
  BY <1>2
<1>15. LiveSlots' = 0 .. n - 1
  <2>1. \A r \in 0 .. max - 1 : location_to_tag'[r] # NoTag <=> r \in 0 .. n - 1
    <3>1. ASSUME NEW r \in 0 .. max - 1, r < n PROVE location_to_tag'[r] # NoTag
      <4>1. r \in 0 .. n - 1
        BY <1>6, <1>7, <3>1
      <4> QED
        BY <1>8, <1>12, <1>13, <1>14, <3>1, <4>1
    <3>2. ASSUME NEW r \in 0 .. max - 1, ~(r < n) PROVE location_to_tag'[r] = NoTag
      BY <1>12, <1>14, <3>2
    <3>3. \A r \in 0 .. max - 1 : r < n <=> r \in 0 .. n - 1
      BY <1>6, <1>7
    <3> QED
      BY <3>1, <3>2, <3>3
  <2>2. 0 .. n - 1 \subseteq 0 .. max - 1
    BY <1>6, <1>7
  <2> QED
    BY <1>2, <2>1, <2>2 DEF LiveSlots, Slots, HasTag
<1>16. TypeInv'
  <2>1. location_to_tag' \in [Rows -> Tags \cup {ZeroTag, NoTag}]
    <3>1. ASSUME NEW r \in Rows PROVE location_to_tag'[r] \in Tags \cup {ZeroTag, NoTag}
      <4>1. r < n => r \in 0 .. n - 1
        BY <1>6, <1>11
      <4> QED
        BY <1>8, <1>14, <4>1
    <3> QED
      BY <1>2, <3>1
  <2>2. nd' \in 0 .. max_points'
    BY <1>2, <1>6, <1>7
  <2> QED
    BY <1>1, <1>2, <1>7, <1>10, <2>1, <2>2 DEF TypeInv, Lines
<1>17. (TypeInv /\ LiveSlots \subseteq 0 .. nd - 1 /\ delete_set = {}
        /\ empty_slots = Ascending(nd, max_points - 1) /\ (~mixed => LiveSlots = 0 .. nd - 1))'
  BY <1>2, <1>15, <1>16
<1>18. (TypeInv /\ LiveSlots \subseteq 0 .. nd - 1 /\ delete_set = {}
        /\ empty_slots = Ascending(nd, max_points - 1) /\ (~mixed => LiveSlots = 0 .. nd - 1)
        => SlotsApart /\ Counted)'
  BY InOrderApart, InOrderCounted, PTL
<1>19. SlotsApart' /\ Counted'
  BY <1>17, <1>18
<1>20. InSave' /\ FilesInv'
  BY <1>1, <1>2 DEF InSave, FilesInv
<1>21. LiveVectors'
  <2>1. ASSUME whole, NEW r \in 0 .. n - 1 PROVE data_store'[r] = location_to_tag'[r]
    <3>1. r \in Rows /\ r < n
      BY <1>6, <1>12
    <3> QED
      BY <1>9, <1>10, <1>14, <2>1, <3>1
  <2> QED
    BY <1>2, <1>15, <2>1 DEF LiveVectors
<1>22. TagsApart'
  <2>1. \A r \in 0 .. n - 1 : location_to_tag'[r] = files["tags"].tags[r]
    <3>1. \A r \in 0 .. n - 1 : r \in Rows /\ r < n
      BY <1>6, <1>12
    <3> QED
      BY <1>14, <3>1
  <2> QED
    BY <1>2, <1>9, <1>15, <2>1 DEF TagsApart
<1> QED
  BY <1>2, <1>15, <1>16, <1>19, <1>20, <1>21, <1>22 DEF SaveInv

-----------------------------------------------------------------------------

LEMMA SaveInvInit ==
    ASSUME Init
    PROVE  SaveInv
<1>1. /\ setup \in Setups /\ max_points \in setup.capacities
      /\ nd = 0 /\ delete_set = {} /\ saving = "idle" /\ start = max_points /\ whole = FALSE
      /\ empty_slots = Ascending(0, max_points - 1)
      /\ location_to_tag = [r \in Rows |-> NoTag]
      /\ files = [f \in ToSet(Files) |-> Missing]
  BY DEF Init, EmptyIndex
<1>2. OnRows(data_store)
  BY DEF Init, WithStartPoints, OnRows
<1>3. max_points \in 1 .. MaxCapacity
  BY <1>1, SaveAssumption
<1>4. TypeInv
  BY <1>1, <1>2, <1>3 DEF TypeInv, Lines
<1>5. LiveSlots = {} /\ 0 .. nd - 1 = {}
  <2>1. Slots \subseteq Rows
    BY <1>4, LiveFinite
  <2>2. LiveSlots = {}
    BY <1>1, <2>1 DEF LiveSlots, HasTag
  <2>3. 0 .. nd - 1 = {}
    BY <1>1
  <2> QED
    BY <2>2, <2>3
<1>6. SlotsApart /\ Counted
  BY <1>1, <1>4, <1>5, InOrderApart, InOrderCounted
<1>7. InSave /\ LiveVectors /\ TagsApart
  BY <1>1, <1>5 DEF InSave, LiveVectors, TagsApart
<1>8. FilesInv
  BY <1>1, FileNames DEF FilesInv
<1> QED
  BY <1>4, <1>6, <1>7, <1>8 DEF SaveInv

LEMMA SaveInvNext ==
    ASSUME SaveInv, [Next]_vars
    PROVE  SaveInv'
<1>1. CASE Next
  <2>1. UNCHANGED setup
    BY <1>1, Zenon DEF Next
  <2>2. \/ \E t \in Tags : Insert(t) \/ LazyDelete(t)
        \/ Consolidate \/ ConsolidateStartDeleted
        \/ SaveBegin \/ SaveFile \/ SaveEnd \/ SaveThrow
        \/ \E c \in setup.capacities : Load(c)
    BY <1>1, Zenon DEF Next
  <2> QED
    BY <2>1, <2>2, InsertKeeps, LazyDeleteKeeps, ConsolidateKeeps, ConsolidateStartDeletedKeeps,
       SaveBeginKeeps, SaveFileKeeps, SaveEndKeeps, SaveThrowKeeps, LoadKeeps, Zenon
<1>2. CASE UNCHANGED vars
  <2>1. /\ UNCHANGED <<setup, max_points, nd, start, data_compacted, empty_slots, delete_set,
                       location_to_tag, neighbours>>
        /\ UNCHANGED <<data_store, saving, files, whole, mixed, overrun>>
    BY <1>2 DEF vars, index, history
  <2>2. Slots' = Slots /\ LiveSlots' = LiveSlots /\ DataFile' = DataFile
    BY <2>1 DEF Slots, LiveSlots, HasTag, DataFile, LastRow
  <2>3. TypeInv' /\ SlotsApart' /\ Counted'
    BY <2>1, <2>2 DEF SaveInv, TypeInv, OnRows, SlotsApart, Counted, Forgotten
  <2>4. InSave' /\ FilesInv' /\ LiveVectors' /\ TagsApart'
    BY <2>1, <2>2 DEF SaveInv, InSave, FilesInv, LiveVectors, TagsApart
  <2> QED
    BY <2>3, <2>4 DEF SaveInv
<1> QED
  BY <1>1, <1>2

\* The inductive invariant of an index that is saved and loaded: its slots are
\* used, deleted or free, between two files the rows of the frozen points hold no
\* point that is not counted as lost, and files of one save agree.
THEOREM SaveInvHolds == Spec => []SaveInv
<1>1. Init => SaveInv
  BY SaveInvInit
<1>2. SaveInv /\ [Next]_vars => SaveInv'
  BY SaveInvNext
<1> QED
  BY <1>1, <1>2, PTL DEF Spec

\* A tag leads to the vector inserted with it, although save renumbers the points
\* and moves vectors in place, also after a save that throws or a process that ends
\* between two files: except tags at whose rows a save has put a frozen point, and
\* after a load of files that several saves or such a save have written.
THEOREM LiveVectorsHolds == Spec => []LiveVectors
<1>1. SaveInv => LiveVectors
  BY DEF SaveInv
<1> QED
  BY <1>1, SaveInvHolds, PTL
-----------------------------------------------------------------------------
(***************************************************************************)
(* What an index holds, its points with their vectors and edges, is the    *)
(* same after the renumbering of a save and the moves of the frozen        *)
(* points, and after a load of what a save wrote.                          *)
(*                                                                         *)
(* Each of these steps carries rows to new places.  The argument is the    *)
(* same for all: the edges of the rows in use lead to rows in use, so it   *)
(* is enough that vectors, lists and the names in the lists follow one     *)
(* mapping of rows.                                                        *)
(***************************************************************************)
(* What the operations do to the lists.                                    *)

\* A search stays within rows whose edges lead to such rows.
LEMMA FoundWithin ==
    ASSUME NEW C, start \in C, FrozenAt(max_points) \subseteq C,
           \A x \in C : neighbours[x] \subseteq C
    PROVE  Found \subseteq C
<1> DEFINE n == Cardinality(Rows)
           S == {start} \cup FrozenAt(max_points)
<1>1. n \in Nat
  <2>1. MaxCapacity + NumFrozen - 1 \in Int
    BY SaveAssumption
  <2>2. IsFiniteSet(Rows)
    BY <2>1, FS_Interval DEF Rows
  <2> QED
    BY <2>2, FS_CardinalityType
<1>2. Found = Spread(neighbours, S, n)[n]
  BY DEF Found, Spread
<1>3. S \subseteq C
  OBVIOUS
<1> HIDE DEF n, S
<1> QED
  BY <1>1, <1>2, <1>3, SpreadWithin

\* Each list moves down to the new place of its row, with the new numbers in it.
LEMMA CompactedLists ==
    ASSUME TypeInv, OnRows(neighbours)
    PROVE  /\ OnRows(CompactData.graph)
           /\ \A l \in Kept : NewLocation(l) \notin nd .. max_points - 1
                 => CompactData.graph[NewLocation(l)] = Renumbered(neighbours[l])
<1> DEFINE m == max_points + NumFrozen
<1>1. max_points \in Nat /\ m \in Nat
  BY SaveAssumption DEF TypeInv
<1>2. PICK g : /\ g[0] = neighbours
               /\ \A k \in 1 .. m : g[k] = ListRound(g[k - 1], k - 1)
               /\ CompactData.graph = [r \in Rows |->
                     IF r \in nd .. max_points - 1 THEN {} ELSE g[m][r]]
  BY <1>1, CompactRounds, Zenon
<1>3. /\ \A k \in 1 .. m : k - 1 \in Rows
      /\ Kept \subseteq Rows /\ \A l \in Kept : NewLocation(l) \in Rows
  BY <1>1, NewLocations, SaveAssumption DEF Rows, TypeInv
<1> DEFINE Good == {k \in 0 .. m : OnRows(g[k])}
<1>4. 0 \in Good
  BY <1>1, <1>2
<1>5. ASSUME NEW k \in 1 .. m, k - 1 \in Good PROVE k \in Good
  <2>1. OnRows(g[k - 1])
    BY <1>5
  <2>2. OnRows(g[k])
    BY <1>2, <2>1 DEF ListRound, SwapRows, OnRows
  <2> QED
    BY <1>1, <2>2
<1>6. 0 .. m \subseteq Good
  <2>1. \A k \in 1 .. m : k - 1 \in Good => k \in Good
    BY <1>5
  <2> HIDE DEF Good
  <2> QED
    BY <1>1, <1>4, <2>1, Rounds
<1> PICK val : \A l \in Kept : val[l] = Renumbered(neighbours[l])
  <2>1. \A l \in Kept : [l1 \in Kept |-> Renumbered(neighbours[l1])][l] = Renumbered(neighbours[l])
    OBVIOUS
  <2> QED
    BY <2>1
<1>7. ASSUME NEW k \in 1 .. m
      PROVE  /\ \A r \in Rows : r # k - 1 /\ (k - 1 \in Kept => r # NewLocation(k - 1))
                                => g[k][r] = g[k - 1][r]
             /\ k - 1 \in Kept /\ g[k - 1][k - 1] = neighbours[k - 1]
                => g[k][NewLocation(k - 1)] = val[k - 1]
  <2> DEFINE old == k - 1
             h == g[k - 1]
  <2>1. old \in 0 .. m /\ old \in Rows
    BY <1>1, <1>3
  <2>2. h = [r \in Rows |-> h[r]]
    BY <1>6, <2>1 DEF OnRows
  <2>3. g[k] = ListRound(h, old)
    BY <1>2
  <2> HIDE DEF h, old
  <2>4. CASE old \in Kept
    <3> DEFINE new == NewLocation(old)
               e == [h EXCEPT ![old] = Renumbered(h[old])]
    <3>1. new \in Rows
      BY <1>3, <2>4
    <3>2. g[k] = [e EXCEPT ![new] = e[old], ![old] = e[new]]
      BY <2>3, <2>4, Zenon DEF ListRound, SwapRows
    <3>3. e = [r \in Rows |-> e[r]] /\ e[old] = Renumbered(h[old])
          /\ \A r \in Rows : r # old => e[r] = h[r]
      BY <2>1, <2>2
    <3> HIDE DEF e, new
    <3>4. g[k][new] = Renumbered(h[old])
      BY <2>1, <3>1, <3>2, <3>3
    <3>5. \A r \in Rows : r # old /\ r # new => g[k][r] = h[r]
      BY <3>2, <3>3
    <3>6. h[old] = neighbours[old] => g[k][new] = val[old]
      BY <2>4, <3>4
    <3> QED
      BY <2>4, <3>5, <3>6 DEF new, old, h
  <2>5. CASE old \notin Kept
    <3>1. g[k] = [h EXCEPT ![old] = {}]
      BY <2>3, <2>5 DEF ListRound
    <3>2. \A r \in Rows : r # old => g[k][r] = h[r]
      BY <2>2, <3>1
    <3> QED
      BY <2>5, <3>2 DEF old, h
  <2> QED
    BY <2>4, <2>5
<1>8. \A l \in Kept : g[m][NewLocation(l)] = val[l]
  BY <1>2, <1>7, MovedDown
<1>9. \A l \in Kept : g[m][NewLocation(l)] = Renumbered(neighbours[l])
  BY <1>8
<1>10. OnRows(CompactData.graph)
  BY <1>2 DEF OnRows
<1> QED
  BY <1>2, <1>3, <1>9, <1>10
-----------------------------------------------------------------------------
(* Moving a range of rows.                                                 *)

\* An order of the n rows of a range in which no round of swaps finds the row it
\* moves already swapped away.
MovesFirst(seq, n, old, new) ==
    /\ DOMAIN seq = 1 .. n /\ \A j \in 1 .. n : seq[j] \in 0 .. n - 1
    /\ \A j, k \in 1 .. n : j < k => seq[j] # seq[k] /\ new + seq[j] # old + seq[k]

\* What such swaps make: each row of the range is at its new place.
SwappedRows(result, g, seq, n, old, new) ==
    /\ OnRows(result)
    /\ \A j \in 1 .. n : result[new + seq[j]] = g[old + seq[j]]
    /\ \A r \in Rows : (\A j \in 1 .. n : r # new + seq[j] /\ r # old + seq[j])
                       => result[r] = g[r]

LEMMA Swaps ==
    ASSUME NEW n \in Nat, NEW old \in Nat, NEW new \in Nat,
           old .. old + n - 1 \subseteq Rows, new .. new + n - 1 \subseteq Rows,
           NEW loop, loop = <<new, old>>, NEW g, OnRows(g), NEW seq, MovesFirst(seq, n, old, new)
    PROVE  SwappedRows(LoopResult(loop, g, seq), g, seq, n, old, new)
<1>0. /\ DOMAIN seq = 1 .. n /\ \A j \in 1 .. n : seq[j] \in 0 .. n - 1
      /\ \A j, k \in 1 .. n : j < k => seq[j] # seq[k] /\ new + seq[j] # old + seq[k]
  BY DEF MovesFirst
<1> DEFINE result == LoopResult(loop, g, seq)
<1>1. PICK s : /\ s[0] = g
               /\ \A k \in 1 .. n : s[k] = Round(loop, s[k - 1], seq[k])
               /\ s[n] = result
  <2>1. DOMAIN seq = 1 .. n /\ n \in Nat
    BY <1>0
  <2>2. \E s : RoundsOf(s, n, loop, g, seq)
    BY <2>1, LoopRounds, Zenon
  <2> QED
    BY <2>2, Zenon DEF RoundsOf
<1> HIDE DEF result
<1>2. \A j \in 1 .. n : /\ new + seq[j] \in Rows /\ old + seq[j] \in Rows
                        /\ new + seq[j] \in Nat /\ old + seq[j] \in Nat
  <2>1. \A j \in 1 .. n : new + seq[j] \in new .. new + n - 1 /\ old + seq[j] \in old .. old + n - 1
    BY <1>0
  <2>2. \A j \in 1 .. n : new + seq[j] \in Nat /\ old + seq[j] \in Nat
    BY <1>0
  <2> QED
    BY <2>1, <2>2
<1> DEFINE Good == {k \in 0 .. n :
                      /\ OnRows(s[k])
                      /\ \A j \in 1 .. n : j <= k => s[k][new + seq[j]] = g[old + seq[j]]
                      /\ \A j \in 1 .. n : k < j => s[k][old + seq[j]] = g[old + seq[j]]
                      /\ \A r \in Rows : (\A j \in 1 .. n : r # new + seq[j] /\ r # old + seq[j])
                                         => s[k][r] = g[r]}
<1>3. 0 \in Good
  BY <1>1
<1>4. ASSUME NEW k \in 1 .. n, k - 1 \in Good PROVE k \in Good
  <2> DEFINE h == s[k - 1]
             a == new + seq[k]
             b == old + seq[k]
  <2>1. /\ OnRows(h)
        /\ \A j \in 1 .. n : j <= k - 1 => h[new + seq[j]] = g[old + seq[j]]
        /\ \A j \in 1 .. n : k - 1 < j => h[old + seq[j]] = g[old + seq[j]]
        /\ \A r \in Rows : (\A j \in 1 .. n : r # new + seq[j] /\ r # old + seq[j]) => h[r] = g[r]
    BY <1>4
  <2>2. s[k] = [h EXCEPT ![a] = h[b], ![b] = h[a]]
    <3>1. loop # <<>> /\ loop[1] = new /\ loop[2] = old
      OBVIOUS
    <3>2. s[k] = Round(loop, h, seq[k])
      BY <1>1
    <3>3. Round(loop, h, seq[k]) = SwapRows(h, a, b)
      BY <3>1 DEF Round
    <3> HIDE DEF h, a, b
    <3> QED
      BY <3>2, <3>3, Zenon DEF SwapRows
  <2>3. a \in Rows /\ b \in Rows /\ a \in Nat /\ b \in Nat
    BY <1>2
  <2>4. h[b] = g[b]
    BY <2>1
  <2>5. DOMAIN h = Rows
    BY <2>1 DEF OnRows
  <2> HIDE DEF h, a, b
  <2>6. OnRows(s[k]) /\ s[k][a] = h[b] /\ \A r \in Rows : r # a /\ r # b => s[k][r] = h[r]
    <3> DEFINE g1 == [h EXCEPT ![a] = h[b]]
    <3>1. /\ DOMAIN g1 = Rows /\ g1[a] = h[b] /\ g1[b] = h[b]
          /\ \A r \in Rows : r # a => g1[r] = h[r]
      BY <2>3, <2>5
    <3>2. s[k] = [g1 EXCEPT ![b] = h[a]]
      BY <2>2
    <3> HIDE DEF g1
    <3>3. s[k] = [r \in Rows |-> IF r = b THEN h[a] ELSE g1[r]]
      BY <3>1, <3>2
    <3>4. \A r \in Rows : r # a /\ r # b => s[k][r] = h[r]
      BY <3>1, <3>3
    <3>5. s[k][a] = h[b]
      BY <2>3, <3>1, <3>3
    <3>6. OnRows(s[k])
      BY <3>3 DEF OnRows
    <3> QED
      BY <3>4, <3>5, <3>6
  <2>7. ASSUME NEW j \in 1 .. n, j <= k PROVE s[k][new + seq[j]] = g[old + seq[j]]
    <3>1. CASE j = k
      BY <2>4, <2>6, <3>1 DEF a, b
    <3>2. CASE j # k
      <4>1. j < k /\ j <= k - 1
        BY <2>7, <3>2
      <4>2. seq[j] # seq[k] /\ new + seq[j] # b
        BY <1>0, <4>1 DEF b
      <4>3. new + seq[j] # a
        BY <1>0, <4>2 DEF a
      <4> QED
        BY <1>2, <2>1, <2>6, <4>1, <4>2, <4>3
    <3> QED
      BY <3>1, <3>2
  <2>8. ASSUME NEW j \in 1 .. n, k < j PROVE s[k][old + seq[j]] = g[old + seq[j]]
    <3>1. seq[k] # seq[j] /\ a # old + seq[j] /\ k - 1 < j
      BY <1>0, <2>8 DEF a
    <3>2. old + seq[j] # b
      BY <1>0, <3>1 DEF b
    <3> QED
      BY <1>2, <2>1, <2>6, <3>1, <3>2
  <2>9. ASSUME NEW r \in Rows, \A j \in 1 .. n : r # new + seq[j] /\ r # old + seq[j] PROVE s[k][r] = g[r]
    <3>1. r # a /\ r # b
      BY <2>9 DEF a, b
    <3> QED
      BY <2>1, <2>6, <2>9, <3>1
  <2> QED
    BY <2>6, <2>7, <2>8, <2>9
<1>5. n \in Good
  <2>1. \A k \in 1 .. n : k - 1 \in Good => k \in Good
    BY <1>4
  <2> HIDE DEF Good
  <2>2. 0 .. n \subseteq Good
    BY <1>3, <2>1, Rounds
  <2> QED
    BY <2>2
<1>6. /\ OnRows(s[n])
      /\ \A j \in 1 .. n : j <= n => s[n][new + seq[j]] = g[old + seq[j]]
      /\ \A r \in Rows : (\A j \in 1 .. n : r # new + seq[j] /\ r # old + seq[j]) => s[n][r] = g[r]
  BY <1>5, Zenon
<1>7. \A j \in 1 .. n : j <= n
  OBVIOUS
<1>8. s[n] = LoopResult(loop, g, seq)
  BY <1>1 DEF result
<1> QED
  BY <1>6, <1>7, <1>8, Zenon DEF SwappedRows

\* The place of a row, and what a list becomes, when n rows move from old to new.
Shift(x, old, new, n) == IF x \in old .. old + n - 1 THEN x - old + new ELSE x
Shifted(list, old, new, n) == {Shift(x, old, new, n) : x \in list}

\* The rows of a range are at its new place, and those outside both are as they
\* were: the lists with the names in them changed, and the vectors.
ListsMoved(h, g, old, new, n) ==
    /\ OnRows(h)
    /\ \A i \in 0 .. n - 1 : h[new + i] = Shifted(g[old + i], old, new, n)
    /\ \A r \in Rows : r \notin old .. old + n - 1 /\ r \notin new .. new + n - 1
                       => h[r] = Shifted(g[r], old, new, n)

VectorsMoved(h, d, old, new, n) ==
    /\ \A i \in 0 .. n - 1 : h[new + i] = d[old + i]
    /\ \A r \in Rows : r \notin old .. old + n - 1 /\ r \notin new .. new + n - 1
                       => h[r] = d[r]

\* The lists of a range move with their rows, whichever way the range moves and
\* although it may overlap the one it leaves.
LEMMA MovedListsRows ==
    ASSUME NEW g, OnRows(g), NEW old \in Nat, NEW new \in Nat, NEW n \in Nat, old # new,
           old .. old + n - 1 \subseteq Rows, new .. new + n - 1 \subseteq Rows
    PROVE  ListsMoved(MovedLists(g, old, new, n), g, old, new, n)
<1> DEFINE renamed == [r \in Rows |-> {IF x \in old .. old + n - 1 THEN x - old + new ELSE x : x \in g[r]}]
           order == IF new < old THEN Ascending(0, n - 1) ELSE Reverse(Ascending(0, n - 1))
           I == CHOOSE f : f = [S \in SUBSET (DOMAIN order) |->
                  IF S = {} THEN renamed
                  ELSE SwapRows(f[S \ {Max(S)}], new + order[Max(S)], old + order[Max(S)])]
<1>1. MovedLists(g, old, new, n) = I[DOMAIN order]
  BY Zenon DEF MovedLists, FoldLeft, MapThenFoldSet
<1>2. OnRows(renamed) /\ \A r \in Rows : renamed[r] = Shifted(g[r], old, new, n)
  BY DEF OnRows, Shifted, Shift
<1>3. /\ DOMAIN order = 1 .. n
      /\ \A k \in 1 .. n : order[k] = IF new < old THEN k - 1 ELSE n - k
  <2>1. Ascending(0, n - 1) = [i \in 1 .. n |-> i - 1]
    <3>1. ((n - 1) - 0) + 1 = n /\ \A i \in 1 .. n : 0 + (i - 1) = i - 1
      OBVIOUS
    <3>2. Ascending(0, n - 1) = [i \in 1 .. ((n - 1) - 0) + 1 |-> 0 + (i - 1)]
      BY Zenon DEF Ascending
    <3> QED
      BY <3>1, <3>2
  <2> DEFINE up == Ascending(0, n - 1)
  <2>2. Len(up) = n
    <3>1. [i \in 1 .. n |-> i - 1] \in Seq(Int) /\ Len([i \in 1 .. n |-> i - 1]) = n
      OBVIOUS
    <3> QED
      BY <2>1, <3>1
  <2>3. Reverse(up) = [i \in 1 .. n |-> up[(n - i) + 1]]
    BY <2>2 DEF Reverse
  <2> HIDE DEF up
  <2>4. \A k \in 1 .. n : up[k] = k - 1 /\ (n - k) + 1 \in 1 .. n
    BY <2>1 DEF up
  <2>5. DOMAIN up = 1 .. n
    BY <2>1 DEF up
  <2>6. \A k \in 1 .. n : Reverse(up)[k] = n - k
    BY <2>3, <2>4
  <2>7. DOMAIN Reverse(up) = 1 .. n
    BY <2>3
  <2>8. order = IF new < old THEN up ELSE Reverse(up)
    BY DEF up
  <2> HIDE DEF order
  <2> QED
    BY <2>4, <2>5, <2>6, <2>7, <2>8
<1> HIDE DEF renamed, order
<1> PICK loop : loop = <<new, old>>
  OBVIOUS
<1>4. I[DOMAIN order] = LoopResult(loop, renamed, order)
  <2>1. \A s, i : SwapRows(s, new + i, old + i) = Round(loop, s, i)
    <3>1. loop # <<>> /\ loop[1] = new /\ loop[2] = old
      OBVIOUS
    <3> QED
      BY ONLY <3>1 DEF Round
  <2>2. \A f : [S \in SUBSET (DOMAIN order) |->
                  IF S = {} THEN renamed
                  ELSE SwapRows(f[S \ {Max(S)}], new + order[Max(S)], old + order[Max(S)])]
             = [S \in SUBSET (DOMAIN order) |->
                  IF S = {} THEN renamed ELSE Round(loop, f[S \ {Max(S)}], order[Max(S)])]
    BY <2>1
  <2>3. \A f : (f = [S \in SUBSET (DOMAIN order) |->
                  IF S = {} THEN renamed
                  ELSE SwapRows(f[S \ {Max(S)}], new + order[Max(S)], old + order[Max(S)])])
           <=> (f = [S \in SUBSET (DOMAIN order) |->
                  IF S = {} THEN renamed ELSE Round(loop, f[S \ {Max(S)}], order[Max(S)])])
    BY <2>2, Zenon
  <2>4. I = CHOOSE f : f = [S \in SUBSET (DOMAIN order) |->
                  IF S = {} THEN renamed ELSE Round(loop, f[S \ {Max(S)}], order[Max(S)])]
    BY <2>3, Zenon
  <2> HIDE DEF I
  <2> QED
    BY <2>4, Zenon DEF LoopResult
<1> HIDE DEF I
<1>5. \A j \in 1 .. n : order[j] \in 0 .. n - 1
  BY <1>3
<1>6. \A j, k \in 1 .. n : j < k => order[j] # order[k] /\ new + order[j] # old + order[k]
  BY <1>3
<1> DEFINE result == LoopResult(loop, renamed, order)
<1>7. /\ OnRows(result)
      /\ \A j \in 1 .. n : result[new + order[j]] = renamed[old + order[j]]
      /\ \A r \in Rows : (\A j \in 1 .. n : r # new + order[j] /\ r # old + order[j]) => result[r] = renamed[r]
  <2>1. MovesFirst(order, n, old, new)
    BY <1>3, <1>5, <1>6 DEF MovesFirst
  <2>2. SwappedRows(result, renamed, order, n, old, new)
    BY <1>2, <2>1, Swaps
  <2> HIDE DEF result
  <2> QED
    BY <2>2 DEF SwappedRows
<1>8. MovedLists(g, old, new, n) = result
  BY <1>1, <1>4
<1> HIDE DEF result
<1>9. ASSUME NEW i \in 0 .. n - 1 PROVE result[new + i] = Shifted(g[old + i], old, new, n)
  <2>1. PICK j \in 1 .. n : order[j] = i
    <3>1. i + 1 \in 1 .. n /\ n - i \in 1 .. n
      OBVIOUS
    <3>2. new < old => order[i + 1] = i
      BY <1>3, <3>1
    <3>3. ~(new < old) => order[n - i] = i
      BY <1>3, <3>1
    <3> QED
      BY <3>1, <3>2, <3>3
  <2>2. old + i \in Rows
    <3>1. old + i \in old .. old + n - 1
      OBVIOUS
    <3> QED
      BY <3>1
  <2> QED
    BY <1>2, <1>7, <2>1, <2>2
<1>10. ASSUME NEW r \in Rows, r \notin old .. old + n - 1, r \notin new .. new + n - 1
       PROVE  result[r] = Shifted(g[r], old, new, n)
  <2>1. ASSUME NEW j \in 1 .. n PROVE r # new + order[j] /\ r # old + order[j]
    <3>1. new + order[j] \in new .. new + n - 1 /\ old + order[j] \in old .. old + n - 1
      BY <1>5
    <3> QED
      BY <1>10, <3>1
  <2> QED
    BY <1>2, <1>7, <2>1
<1> QED
  BY <1>7, <1>8, <1>9, <1>10 DEF ListsMoved
\* The vectors of a range are at its new place, and what is zeroed is neither
\* there nor outside the range.
LEMMA MovedVectorsRows ==
    ASSUME NEW d, NEW old \in Nat, NEW new \in Nat, NEW n \in Nat, old # new,
           old .. old + n - 1 \subseteq Rows, new .. new + n - 1 \subseteq Rows
    PROVE  VectorsMoved(MovedVectors(d, old, new, n), d, old, new, n)
<1> DEFINE copied == [r \in Rows |-> IF r \in new .. new + n - 1 THEN d[r - new + old] ELSE d[r]]
           top == Max({old, new + n})
           bottom == Min({old + n, new})
           cleared == IF new < old THEN top .. old + n - 1 ELSE old .. bottom - 1
<1>1. MovedVectors(d, old, new, n) = [r \in Rows |-> IF r \in cleared THEN NoVector ELSE copied[r]]
  BY Zenon DEF MovedVectors
<1>2. top \in Nat /\ old <= top /\ new + n <= top
  <2>1. \E x \in {old, new + n} : \A y \in {old, new + n} : x >= y
    <3>1. old >= new + n \/ new + n >= old
      OBVIOUS
    <3> QED
      BY <3>1
  <2> QED
    BY <2>1 DEF Max
<1>3. bottom \in Nat /\ bottom <= old + n /\ bottom <= new
  <2>1. \E x \in {old + n, new} : \A y \in {old + n, new} : x <= y
    <3>1. old + n <= new \/ new <= old + n
      OBVIOUS
    <3> QED
      BY <3>1
  <2> QED
    BY <2>1 DEF Min
<1> HIDE DEF top, bottom
<1>4. ASSUME NEW i \in 0 .. n - 1
      PROVE  new + i \in Rows /\ new + i \notin cleared /\ copied[new + i] = d[old + i]
  <2>1. new + i \in new .. new + n - 1 /\ new + i - new + old = old + i
    OBVIOUS
  <2>2. new + i \in Rows
    BY <2>1
  <2>3. copied[new + i] = d[old + i]
    BY <2>1, <2>2
  <2>4. new + i \notin cleared
    BY <1>2, <1>3
  <2> QED
    BY <2>2, <2>3, <2>4
<1>5. ASSUME NEW r \in Rows, r \notin old .. old + n - 1, r \notin new .. new + n - 1
      PROVE  r \notin cleared /\ copied[r] = d[r]
  <2>1. cleared \subseteq old .. old + n - 1
    BY <1>2, <1>3
  <2> HIDE DEF cleared
  <2> QED
    BY <1>5, <2>1
<1> HIDE DEF copied, cleared
<1> QED
  BY <1>1, <1>4, <1>5 DEF VectorsMoved

-----------------------------------------------------------------------------
(* What an index holds, and steps that carry its rows to new places.       *)

\* An index as the properties see it.
View(rows, tags, stores, first) ==
    [rows |-> rows, tags |-> tags, data |-> stores.data, graph |-> stores.graph, first |-> first]

Holds(v) == ContentOf(v.rows, v.tags, v.data, v.graph, v.first)

\* Its edges lead to its points and its frozen points.
InUse(v) == v.rows \cup FrozenAt(v.first)
Inside(v) == \A r \in InUse(v) : v.graph[r] \subseteq InUse(v)

\* Vectors, lists, the names in the lists and tags follow one mapping of rows,
\* which keeps the order of the frozen points.
Carried(f, v, w) ==
    /\ w.rows = {f[l] : l \in v.rows}
    /\ \A i \in 0 .. NumFrozen - 1 : f[v.first + i] = w.first + i
    /\ \A l \in v.rows : w.tags[f[l]] = v.tags[l]
    /\ \A r \in InUse(v) : w.data[f[r]] = v.data[r] /\ w.graph[f[r]] = {f[x] : x \in v.graph[r]}

LEMMA FrozenRows ==
    ASSUME NEW first \in Nat
    PROVE  /\ \A i \in 0 .. NumFrozen - 1 : first + i \in FrozenAt(first)
           /\ \A r \in FrozenAt(first) : \E i \in 0 .. NumFrozen - 1 : r = first + i
<1>1. NumFrozen \in Nat
  BY SaveAssumption
<1>2. ASSUME NEW r \in FrozenAt(first) PROVE \E i \in 0 .. NumFrozen - 1 : r = first + i
  <2>1. r - first \in 0 .. NumFrozen - 1 /\ r = first + (r - first)
    BY <1>1, <1>2 DEF FrozenAt
  <2> QED
    BY <2>1
<1>3. \A i \in 0 .. NumFrozen - 1 : first + i \in FrozenAt(first)
  BY <1>1 DEF FrozenAt
<1> QED
  BY <1>2, <1>3

\* The mapping changes neither what the index holds nor that its edges stay inside.
LEMMA CarriedHolds ==
    ASSUME NEW f, NEW v, NEW w, v.first \in Nat, w.first \in Nat, Inside(v), Carried(f, v, w)
    PROVE  Holds(w) = Holds(v) /\ Inside(w)
<1> DEFINE LedIn(u, r) == {u.data[x] : x \in u.graph[r]}
<1>1. /\ w.rows = {f[l] : l \in v.rows}
      /\ \A i \in 0 .. NumFrozen - 1 : f[v.first + i] = w.first + i
      /\ \A l \in v.rows : w.tags[f[l]] = v.tags[l]
      /\ \A r \in InUse(v) : w.data[f[r]] = v.data[r] /\ w.graph[f[r]] = {f[x] : x \in v.graph[r]}
  BY DEF Carried
<1>2. \A r \in InUse(v) : v.graph[r] \subseteq InUse(v)
  BY DEF Inside
<1>3. ASSUME NEW r \in InUse(v) PROVE LedIn(w, f[r]) = LedIn(v, r)
  <2>1. w.graph[f[r]] = {f[x] : x \in v.graph[r]} /\ \A x \in v.graph[r] : w.data[f[x]] = v.data[x]
    BY <1>1, <1>2
  <2>2. LedIn(w, f[r]) = {w.data[f[x]] : x \in v.graph[r]}
    BY <2>1
  <2> QED
    BY <2>1, <2>2
<1>4. v.rows \subseteq InUse(v) /\ FrozenAt(v.first) \subseteq InUse(v)
  BY DEF InUse
<1> HIDE DEF LedIn
<1>5. {<<w.tags[l], w.data[l], LedIn(w, l)>> : l \in w.rows} = {<<v.tags[l], v.data[l], LedIn(v, l)>> : l \in v.rows}
  <2>1. {<<w.tags[l], w.data[l], LedIn(w, l)>> : l \in w.rows}
        = {<<w.tags[f[l]], w.data[f[l]], LedIn(w, f[l])>> : l \in v.rows}
    BY <1>1
  <2>2. \A l \in v.rows : <<w.tags[f[l]], w.data[f[l]], LedIn(w, f[l])>> = <<v.tags[l], v.data[l], LedIn(v, l)>>
    BY <1>1, <1>3, <1>4
  <2> QED
    BY <2>1, <2>2
<1>6. [i \in 0 .. NumFrozen - 1 |-> <<w.data[w.first + i], LedIn(w, w.first + i)>>]
      = [i \in 0 .. NumFrozen - 1 |-> <<v.data[v.first + i], LedIn(v, v.first + i)>>]
  <2>1. ASSUME NEW i \in 0 .. NumFrozen - 1
        PROVE  <<w.data[w.first + i], LedIn(w, w.first + i)>> = <<v.data[v.first + i], LedIn(v, v.first + i)>>
    <3> DEFINE r == v.first + i
    <3>1. r \in InUse(v)
      BY <1>4, FrozenRows
    <3>2. f[r] = w.first + i
      BY <1>1
    <3> HIDE DEF r
    <3>3. w.data[w.first + i] = v.data[r] /\ LedIn(w, w.first + i) = LedIn(v, r)
      BY <1>1, <1>3, <3>1, <3>2
    <3> QED
      BY <3>3 DEF r
  <2> QED
    BY <2>1
<1>7. Holds(w) = Holds(v)
  BY <1>5, <1>6, Zenon DEF Holds, ContentOf, LedIn
<1>8. InUse(w) = {f[r] : r \in InUse(v)}
  <2>1. FrozenAt(w.first) = {f[r] : r \in FrozenAt(v.first)}
    <3>1. ASSUME NEW r \in FrozenAt(w.first) PROVE r \in {f[x] : x \in FrozenAt(v.first)}
      <4>1. PICK i \in 0 .. NumFrozen - 1 : r = w.first + i
        BY FrozenRows
      <4>2. v.first + i \in FrozenAt(v.first) /\ f[v.first + i] = r
        BY <1>1, <4>1, FrozenRows
      <4> QED
        BY <4>2
    <3>2. ASSUME NEW r \in FrozenAt(v.first) PROVE f[r] \in FrozenAt(w.first)
      <4>1. PICK i \in 0 .. NumFrozen - 1 : r = v.first + i
        BY FrozenRows
      <4> QED
        BY <1>1, <4>1, FrozenRows
    <3> QED
      BY <3>1, <3>2
  <2> QED
    BY <1>1, <2>1 DEF InUse
<1>9. Inside(w)
  BY <1>1, <1>2, <1>8 DEF Inside
<1> QED
  BY <1>7, <1>9
\* The lists of a store whose frozen points have moved.
LEMMA RepositionedLists ==
    ASSUME NEW s, OnRows(s.graph), NEW old \in Nat, NEW new \in Nat,
           FrozenAt(old) \subseteq Rows, FrozenAt(new) \subseteq Rows
    PROVE  OnRows(RepositionPoints(s, old, new, NumFrozen).graph)
<1>1. CASE old = new
  BY <1>1 DEF RepositionPoints
<1>2. CASE old # new
  <2>1. RepositionPoints(s, old, new, NumFrozen).graph = MovedLists(s.graph, old, new, NumFrozen)
    BY <1>2 DEF RepositionPoints
  <2>2. NumFrozen \in Nat
    BY SaveAssumption
  <2>3. OnRows(MovedLists(s.graph, old, new, NumFrozen))
    BY <1>2, <2>2, MovedListsRows DEF FrozenAt, ListsMoved
  <2> QED
    BY <2>1, <2>3
<1> QED
  BY <1>1, <1>2

\* Moving the frozen points past rows that are not in use changes nothing the
\* index holds.
LEMMA RepositionHolds ==
    ASSUME NEW rows, rows \subseteq Rows, NEW tags, NEW s, OnRows(s.graph),
           NEW old \in Nat, NEW new \in Nat, old # new,
           FrozenAt(old) \subseteq Rows, FrozenAt(new) \subseteq Rows,
           rows \cap FrozenAt(old) = {}, rows \cap FrozenAt(new) = {},
           NEW t, t = RepositionPoints(s, old, new, NumFrozen),
           Inside(View(rows, tags, s, old))
    PROVE  /\ Holds(View(rows, tags, t, new)) = Holds(View(rows, tags, s, old))
           /\ Inside(View(rows, tags, t, new))
<1> DEFINE n == NumFrozen
           v == View(rows, tags, s, old)
           w == View(rows, tags, t, new)
           f == [x \in Rows |-> Shift(x, old, new, n)]
<1>1. n \in Nat
  BY SaveAssumption
<1>2. /\ v.rows = rows /\ v.tags = tags /\ v.data = s.data /\ v.graph = s.graph /\ v.first = old
      /\ w.rows = rows /\ w.tags = tags /\ w.data = t.data /\ w.graph = t.graph /\ w.first = new
  BY DEF View
<1>3. t.graph = MovedLists(s.graph, old, new, n) /\ t.data = MovedVectors(s.data, old, new, n)
  BY DEF RepositionPoints
<1>4. FrozenAt(old) = old .. old + n - 1 /\ FrozenAt(new) = new .. new + n - 1
  BY DEF FrozenAt
<1>5. /\ \A i \in 0 .. n - 1 : t.graph[new + i] = Shifted(s.graph[old + i], old, new, n)
      /\ \A r \in Rows : r \notin FrozenAt(old) /\ r \notin FrozenAt(new)
                         => t.graph[r] = Shifted(s.graph[r], old, new, n)
  <2>1. old .. old + n - 1 \subseteq Rows /\ new .. new + n - 1 \subseteq Rows
    BY <1>4
  <2>2. ListsMoved(MovedLists(s.graph, old, new, n), s.graph, old, new, n)
    BY <1>1, <2>1, MovedListsRows, Zenon
  <2>3. ListsMoved(t.graph, s.graph, old, new, n)
    BY <1>3, <2>2
  <2> QED
    BY <1>4, <2>3, Zenon DEF ListsMoved
<1>6. /\ \A i \in 0 .. n - 1 : t.data[new + i] = s.data[old + i]
      /\ \A r \in Rows : r \notin FrozenAt(old) /\ r \notin FrozenAt(new) => t.data[r] = s.data[r]
  <2>1. old .. old + n - 1 \subseteq Rows /\ new .. new + n - 1 \subseteq Rows
    BY <1>4
  <2>2. VectorsMoved(MovedVectors(s.data, old, new, n), s.data, old, new, n)
    BY <1>1, <2>1, MovedVectorsRows, Zenon
  <2>3. VectorsMoved(t.data, s.data, old, new, n)
    BY <1>3, <2>2
  <2> QED
    BY <1>4, <2>3, Zenon DEF VectorsMoved
<1>7. InUse(v) = rows \cup FrozenAt(old)
  BY <1>2 DEF InUse
<1>8. \A l \in rows : l \in Rows /\ f[l] = l /\ l \notin FrozenAt(old) /\ l \notin FrozenAt(new)
  BY <1>4 DEF Shift
<1>9. \A i \in 0 .. n - 1 : old + i \in FrozenAt(old) /\ old + i \in Rows /\ f[old + i] = new + i
  <2>1. ASSUME NEW i \in 0 .. n - 1 PROVE old + i \in FrozenAt(old) /\ old + i \in Rows /\ f[old + i] = new + i
    <3>1. old + i \in FrozenAt(old) /\ old + i \in Rows
      BY FrozenRows
    <3>2. f[old + i] = old + i - old + new
      BY <1>4, <3>1 DEF Shift
    <3> QED
      BY <1>1, <3>1, <3>2
  <2> QED
    BY <2>1
<1>10. ASSUME NEW r \in InUse(v)
       PROVE  t.data[f[r]] = s.data[r] /\ t.graph[f[r]] = {f[x] : x \in s.graph[r]}
  <2>1. Shifted(s.graph[r], old, new, n) = {f[x] : x \in s.graph[r]}
    <3>1. s.graph[r] \subseteq Rows
      BY <1>2, <1>7 DEF Inside
    <3> QED
      BY <3>1 DEF Shifted
  <2> HIDE DEF f
  <2>2. CASE r \in rows
    BY <1>5, <1>6, <1>8, <2>1, <2>2
  <2>3. CASE r \in FrozenAt(old)
    <3>1. PICK i \in 0 .. n - 1 : r = old + i
      BY <2>3, FrozenRows
    <3> QED
      BY <1>5, <1>6, <1>9, <2>1, <3>1
  <2> QED
    BY <1>7, <2>2, <2>3
<1>11. Carried(f, v, w)
  <2>1. rows = {f[l] : l \in rows} /\ \A l \in rows : tags[f[l]] = tags[l]
    BY <1>8
  <2> HIDE DEF f, v, w
  <2>2. w.rows = {f[l] : l \in v.rows} /\ \A l \in v.rows : w.tags[f[l]] = v.tags[l]
    BY <1>2, <2>1
  <2>3. \A i \in 0 .. NumFrozen - 1 : f[v.first + i] = w.first + i
    BY <1>2, <1>9
  <2>4. \A l \in InUse(v) : w.data[f[l]] = v.data[l] /\ w.graph[f[l]] = {f[x] : x \in v.graph[l]}
    <3>1. ASSUME NEW l \in InUse(v)
          PROVE  w.data[f[l]] = v.data[l] /\ w.graph[f[l]] = {f[x] : x \in v.graph[l]}
      BY <1>2, <1>10
    <3> QED
      BY <3>1, Zenon
  <2> QED
    BY <2>2, <2>3, <2>4, Zenon DEF Carried
<1> HIDE DEF f, v, w
<1>12. Inside(v)
  BY DEF v
<1>13. Holds(w) = Holds(v) /\ Inside(w)
  BY <1>2, <1>11, <1>12, CarriedHolds
<1> QED
  BY <1>13 DEF v, w

\* Compaction changes nothing the index holds: no edge it drops was there.
LEMMA CompactHolds ==
    ASSUME TypeInv, OnRows(neighbours), Cardinality(LiveSlots) = nd,
           \A l \in LiveSlots : Named(l),
           Inside(View(LiveSlots, location_to_tag, Stores, max_points))
    PROVE  /\ Holds(View(0 .. nd - 1, CompactedTag, CompactData, max_points))
              = Holds(View(LiveSlots, location_to_tag, Stores, max_points))
           /\ Inside(View(0 .. nd - 1, CompactedTag, CompactData, max_points))
<1> DEFINE L == LiveSlots
           v == View(LiveSlots, location_to_tag, Stores, max_points)
           w == View(0 .. nd - 1, CompactedTag, CompactData, max_points)
           f == [l \in Kept |-> NewLocation(l)]
<1>1. /\ max_points \in Nat /\ nd \in Nat /\ L \subseteq Nat /\ IsFiniteSet(L)
      /\ L \subseteq Slots /\ NumFrozen \in Nat
  BY LiveFinite, SaveAssumption DEF TypeInv
<1>2. /\ \A l \in L : NewLocation(l) = Rank(l, L)
      /\ \A l \in FrozenAt(max_points) : l \notin L /\ NewLocation(l) = l
  BY NewLocations
<1>3. /\ v.rows = L /\ v.tags = location_to_tag /\ v.data = data_store /\ v.graph = neighbours
      /\ v.first = max_points /\ w.first = max_points
      /\ w.rows = 0 .. nd - 1 /\ w.tags = CompactedTag
      /\ w.data = CompactData.data /\ w.graph = CompactData.graph
  BY DEF View, Stores
<1>4. InUse(v) = Kept
  BY <1>3 DEF InUse, Kept
<1>5. \A l \in L : NewLocation(l) \in 0 .. nd - 1
  <2>1. ASSUME NEW l \in L PROVE Rank(l, L) \in 0 .. nd - 1
    <3>1. Rank(l, L) \in Nat
      BY <1>1, RankType
    <3>2. Rank(l, L) < Cardinality(L)
      BY <1>1, RankBelow
    <3> QED
      BY <1>1, <3>1, <3>2
  <2> QED
    BY <1>2, <2>1
<1>6. \A r \in 0 .. nd - 1 : \E l \in L : r = NewLocation(l) /\ CompactedTag[r] = location_to_tag[l]
  BY <1>2, CompactedTags
<1>7. \A l \in L : CompactedTag[NewLocation(l)] = location_to_tag[l]
  <2>1. ASSUME NEW l \in L PROVE CompactedTag[NewLocation(l)] = location_to_tag[l]
    <3>1. PICK k \in L : NewLocation(l) = NewLocation(k) /\ CompactedTag[NewLocation(l)] = location_to_tag[k]
      BY <1>5, <1>6
    <3>2. k = l
      <4>1. Rank(l, L) = Rank(k, L)
        BY <1>2, <3>1
      <4> QED
        BY <1>1, <4>1, RankInjective
    <3> QED
      BY <3>1, <3>2
  <2> QED
    BY <2>1
<1>8. \A l \in Kept : NewLocation(l) \notin nd .. max_points - 1
  <2>1. \A l \in L : NewLocation(l) \notin nd .. max_points - 1
    BY <1>1, <1>5
  <2>2. \A l \in FrozenAt(max_points) : l \notin nd .. max_points - 1
    BY <1>1 DEF FrozenAt
  <2> QED
    BY <1>2, <2>1, <2>2 DEF Kept
<1>9. ASSUME NEW l \in Kept
      PROVE  CompactData.data[f[l]] = data_store[l] /\ CompactData.graph[f[l]] = {f[x] : x \in neighbours[l]}
  <2>1. CompactData.data[NewLocation(l)] = data_store[l]
    BY CompactedVectors
  <2>2. CompactData.graph[NewLocation(l)] = Renumbered(neighbours[l])
    BY <1>8, CompactedLists
  <2>3. neighbours[l] \subseteq Kept
    BY <1>3, <1>4 DEF Inside
  <2>4. neighbours[l] \ (Slots \ LiveSlots) = neighbours[l]
    <3>1. Kept \cap (Slots \ LiveSlots) = {}
      BY <1>1 DEF Kept, FrozenAt, Slots
    <3> QED
      BY <2>3, <3>1
  <2>5. Renumbered(neighbours[l]) = {f[x] : x \in neighbours[l]}
    BY <2>3, <2>4 DEF Renumbered
  <2> QED
    BY <2>1, <2>2, <2>5
<1>10. Carried(f, v, w)
  <2>1. 0 .. nd - 1 = {f[l] : l \in L}
    <3>1. \A l \in L : f[l] = NewLocation(l)
      BY DEF Kept
    <3> HIDE DEF f
    <3> QED
      BY <1>5, <1>6, <3>1
  <2>2. \A i \in 0 .. NumFrozen - 1 : f[max_points + i] = max_points + i
    <3>1. ASSUME NEW i \in 0 .. NumFrozen - 1 PROVE f[max_points + i] = max_points + i
      <4>1. max_points + i \in FrozenAt(max_points)
        BY <1>1, FrozenRows
      <4> QED
        BY <1>2, <4>1 DEF Kept
    <3> QED
      BY <3>1
  <2>3. \A l \in L : CompactedTag[f[l]] = location_to_tag[l]
    BY <1>7 DEF Kept
  <2> HIDE DEF f, v, w
  <2> QED
    BY <1>3, <1>4, <1>9, <2>1, <2>2, <2>3 DEF Carried
<1> HIDE DEF f, v, w
<1>11. Inside(v)
  BY DEF v
<1>12. Holds(w) = Holds(v) /\ Inside(w)
  BY <1>1, <1>3, <1>10, <1>11, CarriedHolds
<1> QED
  BY <1>12 DEF v, w
-----------------------------------------------------------------------------
(* The inductive invariant.                                                *)

\* The rows an index uses: the deleted ones too, whose lists a consolidation
\* reads.
Used == LiveSlots \cup delete_set \cup FrozenAt(start)

\* The edges of rows in use lead to rows in use, except after a save that threw
\* has left the frozen points among the slots or one has given rows of points away.
EdgesInside ==
    ~mixed /\ overrun = {} /\ (saving = "idle" => start = max_points)
    => \A r \in Used : neighbours[r] \subseteq Used

\* The files of a whole save, as an index.
FileView ==
    View(0 .. files["data"].rows - NumFrozen - 1, files["tags"].tags,
         [graph |-> files["graph"].graph, data |-> files["data"].data], files["graph"].start)

FilesInside ==
    /\ saving \in {"data", "tags"} => files["graph"] = GraphFile
    /\ whole => files["graph"].start = files["data"].rows - NumFrozen /\ Inside(FileView)

ContentInv == OnRows(neighbours) /\ EdgesInside /\ FilesInside

\* The index as a view.
Current == View(LiveSlots, location_to_tag, Stores, start)

LEMMA ContentIs == Content = Holds(Current) /\ FileContent = Holds(FileView)
BY DEF Content, FileContent, Holds, Current, FileView, View, Stores

\* Without deleted points the edges of an index are inside.
LEMMA CurrentInside ==
    ASSUME delete_set = {}
    PROVE  Inside(Current) <=> \A r \in Used : neighbours[r] \subseteq Used
<1>1. InUse(Current) = Used /\ Current.graph = neighbours
  BY DEF InUse, Current, View, Stores, Used
<1> QED
  BY <1>1 DEF Inside

-----------------------------------------------------------------------------
(* Each action keeps the invariant.                                        *)

LEMMA InsertKeepsContent ==
    ASSUME SaveInv, ContentInv, NEW t \in Tags, Insert(t), UNCHANGED setup
    PROVE  ContentInv'
<1> DEFINE l == PopAny(empty_slots).id
<1>1. TypeInv /\ SlotsApart
  BY DEF SaveInv
<1>2. /\ nd < max_points /\ saving = "idle"
      /\ UNCHANGED <<setup, max_points, start, saving, files, whole, mixed, overrun>>
  BY Zenon DEF Insert, history
<1>3. /\ empty_slots # <<>> /\ l \in Slots \ (LiveSlots \cup delete_set)
  BY <1>1, <1>2, FreeSlot, Zenon
<1>4. /\ delete_set' = delete_set \ {l}
      /\ location_to_tag' = [location_to_tag EXCEPT ![l] = t]
  BY <1>3, Zenon DEF Insert, WithTag
<1> DEFINE Linking(linked) == [r \in Rows |->
              CASE r = l -> linked
                [] r \in linked -> neighbours[r] \cup {l}
                [] OTHER -> neighbours[r]]
<1>5. \E linked \in SUBSET (Found \ {l}) : neighbours' = Linking(linked)
  <2> DEFINE fresh == data_compacted /\ empty_slots = <<>>
             l0 == IF fresh THEN nd ELSE PopAny(empty_slots).id
  <2>1. \E linked \in SUBSET (Found \ {l0}) :
          neighbours' = [r \in Rows |->
              CASE r = l0 -> linked
                [] r \in linked -> neighbours[r] \cup {l0}
                [] OTHER -> neighbours[r]]
    BY Zenon DEF Insert
  <2>2. l0 = l
    BY <1>3
  <2> HIDE DEF l0, l
  <2>3. PICK linked \in SUBSET (Found \ {l0}) :
          neighbours' = [r \in Rows |->
              CASE r = l0 -> linked
                [] r \in linked -> neighbours[r] \cup {l0}
                [] OTHER -> neighbours[r]]
    BY <2>1
  <2>4. linked \in SUBSET (Found \ {l}) /\ neighbours' = Linking(linked)
    BY <2>2, <2>3
  <2> QED
    BY <2>4
<1>5a. PICK linked \in SUBSET (Found \ {l}) : neighbours' = Linking(linked)
  BY <1>5
<1> HIDE DEF l
<1>6. Slots \subseteq Rows /\ Slots' = Slots
  BY <1>1, <1>2, LiveFinite DEF Slots
<1>7. Used' = Used \cup {l}
  <2>1. LiveSlots' = LiveSlots \cup {l}
    <3>1. DOMAIN location_to_tag = Rows /\ t # NoTag
      BY <1>1, SaveAssumption DEF TypeInv
    <3>2. \A r \in Slots : location_to_tag'[r] = IF r = l THEN t ELSE location_to_tag[r]
      BY <1>4, <1>6, <3>1
    <3> QED
      BY <1>3, <1>6, <3>1, <3>2 DEF LiveSlots, HasTag
  <2>2. delete_set' = delete_set
    BY <1>3, <1>4
  <2> QED
    BY <1>2, <2>1, <2>2 DEF Used, FrozenAt
<1>8. OnRows(neighbours)'
  BY <1>5a DEF OnRows
<1>9. EdgesInside'
  <2>1. SUFFICES ASSUME ~mixed, overrun = {}, start = max_points
                 PROVE  \A r \in Used' : neighbours'[r] \subseteq Used'
    BY <1>2 DEF EdgesInside
  <2>2. \A r \in Used : neighbours[r] \subseteq Used
    BY <2>1 DEF ContentInv, EdgesInside
  <2>3. Used \subseteq Rows
    <3>1. FrozenAt(start) \subseteq Rows
      BY <1>1, <2>1, NewLocations DEF Kept
    <3> QED
      BY <1>1, <1>6, <3>1 DEF Used, SlotsApart, LiveSlots
  <2>4. Found \subseteq Used
    <3>1. start \in Used
      <4>1. start \in Nat
        BY <1>1, <2>1 DEF TypeInv
      <4>2. start + 0 \in FrozenAt(start)
        BY <4>1, FrozenRows, SaveAssumption
      <4> QED
        BY <4>1, <4>2 DEF Used
    <3>2. FrozenAt(max_points) \subseteq Used
      BY <2>1 DEF Used
    <3> QED
      BY <2>2, <3>1, <3>2, FoundWithin
  <2>5. l \in Rows
    BY <1>3, <1>6
  <2>6. ASSUME NEW r \in Used' PROVE neighbours'[r] \subseteq Used'
    <3>1. CASE r = l
      BY <1>5a, <1>7, <2>4, <2>5, <3>1
    <3>2. CASE r # l
      <4>1. r \in Used /\ r \in Rows
        BY <1>7, <2>3, <3>2
      <4>2. neighbours'[r] \subseteq neighbours[r] \cup {l}
        BY <1>5a, <3>2, <4>1
      <4> QED
        BY <1>7, <2>2, <4>1, <4>2
    <3> QED
      BY <3>1, <3>2
  <2> QED
    BY <2>6
<1>10. FilesInside'
  BY <1>2 DEF ContentInv, FilesInside, FileView
<1> QED
  BY <1>8, <1>9, <1>10 DEF ContentInv

LEMMA LazyDeleteKeepsContent ==
    ASSUME SaveInv, ContentInv, NEW t \in Tags, LazyDelete(t), UNCHANGED setup
    PROVE  ContentInv'
<1> DEFINE x == LocationOf(t)
<1>1. TypeInv /\ SlotsApart
  BY DEF SaveInv
<1>2. /\ UNCHANGED <<setup, max_points, start, neighbours, data_store, saving, files, whole,
                      mixed, overrun>>
      /\ saving = "idle"
  BY Zenon DEF LazyDelete, history
<1>3. Slots \subseteq Rows /\ Slots' = Slots
  BY <1>1, <1>2, LiveFinite DEF Slots
<1>4. Used' = Used
  <2>1. CASE \E l \in LiveSlots : location_to_tag[l] = t
    <3>1. x \in LiveSlots
      BY <2>1, Zenon DEF LocationOf
    <3>2. delete_set' = delete_set \cup {x} /\ location_to_tag' = [location_to_tag EXCEPT ![x] = NoTag]
      BY <2>1, Zenon DEF LazyDelete, WithoutTag
    <3> HIDE DEF x
    <3>3. LiveSlots' = LiveSlots \ {x}
      <4>1. \A r \in Slots : location_to_tag'[r] = IF r = x THEN NoTag ELSE location_to_tag[r]
        BY <1>1, <1>3, <3>1, <3>2 DEF TypeInv
      <4> QED
        BY <1>3, <3>1, <4>1 DEF LiveSlots, HasTag
    <3> QED
      BY <1>2, <3>1, <3>2, <3>3 DEF Used, FrozenAt
  <2>2. CASE ~ \E l \in LiveSlots : location_to_tag[l] = t
    <3>1. UNCHANGED <<delete_set, location_to_tag>>
      BY <2>2, Zenon DEF LazyDelete
    <3> QED
      BY <1>2, <1>3, <3>1 DEF Used, FrozenAt, LiveSlots, HasTag
  <2> QED
    BY <2>1, <2>2
<1> QED
  BY <1>2, <1>4 DEF ContentInv, OnRows, EdgesInside, FilesInside, FileView

LEMMA ConsolidateKeepsContent ==
    ASSUME SaveInv, ContentInv, Consolidate, UNCHANGED setup
    PROVE  ContentInv'
<1> DEFINE processed == (Slots \ (delete_set \cup ToSet(empty_slots))) \cup FrozenAt(max_points)
<1>1. TypeInv /\ SlotsApart
  BY DEF SaveInv
<1>2. /\ UNCHANGED <<setup, max_points, start, location_to_tag, saving, files, whole, mixed, overrun>>
      /\ saving = "idle" /\ delete_set' = {}
  BY Zenon DEF Consolidate, history
<1>3. neighbours' = [r \in Rows |->
             IF r \in processed
             THEN (neighbours[r] \ delete_set) \cup
                  UNION {neighbours[d] \ (delete_set \cup {r}) : d \in neighbours[r] \cap delete_set}
             ELSE neighbours[r]]
  BY Zenon DEF Consolidate
<1>4. LiveSlots' = LiveSlots
  BY <1>2 DEF LiveSlots, Slots, HasTag
<1>5. OnRows(neighbours)'
  <2> HIDE DEF processed
  <2> QED
    BY <1>3 DEF OnRows
<1>6. EdgesInside'
  <2>1. SUFFICES ASSUME ~mixed, overrun = {}, start = max_points
                 PROVE  \A r \in Used' : neighbours'[r] \subseteq Used'
    BY <1>2 DEF EdgesInside
  <2>2. \A r \in Used : neighbours[r] \subseteq Used
    BY <2>1 DEF ContentInv, EdgesInside
  <2>3. LiveSlots \subseteq processed /\ FrozenAt(start) \subseteq processed
    BY <1>1, <2>1 DEF SlotsApart, LiveSlots
  <2>4. LiveSlots \cup FrozenAt(start) \subseteq Rows
    BY <1>1, <2>1, NewLocations DEF Kept
  <2>5. LiveSlots \cap delete_set = {} /\ FrozenAt(start) \cap delete_set = {}
    BY <1>1, <2>1 DEF SlotsApart, Slots, FrozenAt, TypeInv
  <2>6. Used' = LiveSlots \cup FrozenAt(start) /\ Used' = Used \ delete_set
    BY <1>2, <1>4, <2>5 DEF Used, FrozenAt
  <2>7. ASSUME NEW r \in Used' PROVE neighbours'[r] \subseteq Used'
    <3>1. r \in processed /\ r \in Rows /\ r \in Used
      BY <2>3, <2>4, <2>6
    <3> HIDE DEF processed
    <3>2. neighbours'[r] = (neighbours[r] \ delete_set) \cup
              UNION {neighbours[d] \ (delete_set \cup {r}) : d \in neighbours[r] \cap delete_set}
      BY <1>3, <3>1
    <3>3. \A d \in delete_set : neighbours[d] \subseteq Used
      BY <2>2 DEF Used
    <3>4. neighbours[r] \subseteq Used
      BY <2>2, <3>1
    <3> QED
      BY <2>6, <3>2, <3>3, <3>4
  <2> QED
    BY <2>7
<1>7. FilesInside'
  BY <1>2 DEF ContentInv, FilesInside, FileView
<1> QED
  BY <1>5, <1>6, <1>7 DEF ContentInv

LEMMA ConsolidateStartDeletedKeepsContent ==
    ASSUME SaveInv, ContentInv, ConsolidateStartDeleted, UNCHANGED setup
    PROVE  ContentInv'
<1>1. TypeInv /\ SlotsApart
  BY DEF SaveInv
<1>2. /\ UNCHANGED <<setup, max_points, start, neighbours, saving, files, whole, mixed, overrun>>
      /\ saving = "idle" /\ start \in delete_set
  BY Zenon DEF ConsolidateStartDeleted, history
<1>3. start # max_points
  BY <1>1, <1>2 DEF SlotsApart, Slots, TypeInv
<1> QED
  BY <1>2, <1>3 DEF ContentInv, OnRows, EdgesInside, FilesInside, FileView
\* The frozen points fit behind the last point and at the end.
LEMMA FrozenFit ==
    ASSUME TypeInv
    PROVE  /\ max_points \in Nat /\ nd \in Nat /\ nd <= max_points
           /\ FrozenAt(nd) \subseteq Rows /\ FrozenAt(max_points) \subseteq Rows
           /\ Slots \subseteq Rows /\ Slots \cap FrozenAt(max_points) = {}
BY SaveAssumption DEF TypeInv, FrozenAt, Rows, Slots

\* What a save makes of an index before it writes the first file holds what the
\* index held, if it gives no row of these away.
LEMMA SaveBeginKeepsContent ==
    ASSUME SaveInv, ContentInv, SaveBegin, UNCHANGED setup
    PROVE  ContentInv' /\ (~mixed /\ overrun' = {} => Content' = Content)
<1> DEFINE compacted == IF ~data_compacted THEN CompactData ELSE Stores
           t == RepositionPoints(compacted, max_points, nd, NumFrozen)
           v == View(LiveSlots', location_to_tag', compacted, max_points)
<1>1. TypeInv /\ InSave /\ OnRows(neighbours)
  BY DEF SaveInv, ContentInv
<1>2. /\ UNCHANGED <<setup, max_points, nd, delete_set, files, whole, mixed>>
      /\ saving = "idle" /\ saving' = "graph"
      /\ data_compacted \/ delete_set = {}
      /\ overrun' = overrun \cup OverrunBy(location_to_tag')
  BY FileNames, Zenon DEF SaveBegin
<1>3. /\ start' = IF nd < max_points THEN nd ELSE start
      /\ data_store' = IF nd < max_points THEN t.data ELSE compacted.data
      /\ neighbours' = IF nd < max_points THEN t.graph ELSE compacted.graph
  BY Zenon DEF SaveBegin
<1>4. location_to_tag' = IF ~data_compacted THEN CompactedTag ELSE location_to_tag
  BY Zenon DEF SaveBegin
<1>5. delete_set = {} /\ delete_set' = {}
  BY <1>1, <1>2 DEF InSave
<1>6. /\ SaveInv'
      /\ ~data_compacted /\ ~mixed
         => /\ LiveSlots' = 0 .. nd - 1
            /\ Cardinality(LiveSlots) = nd /\ \A l \in LiveSlots : Named(l)
  BY SaveBeginKeeps
<1>7. OnRows(compacted.graph)
  <2>1. CASE data_compacted
    BY <1>1, <2>1 DEF Stores
  <2>2. CASE ~data_compacted
    BY <1>1, <2>2, CompactedLists
  <2> QED
    BY <2>1, <2>2
<1>8. /\ max_points \in Nat /\ nd \in Nat /\ nd <= max_points
      /\ FrozenAt(nd) \subseteq Rows /\ FrozenAt(max_points) \subseteq Rows
      /\ Slots \subseteq Rows /\ Slots \cap FrozenAt(max_points) = {}
  BY <1>1, FrozenFit
<1>9. LiveSlots' \subseteq Slots
  BY <1>2 DEF LiveSlots, Slots
<1> DEFINE Kind == ~mixed /\ overrun' = {}
<1>10. ASSUME Kind
       PROVE  /\ overrun = {} /\ start = max_points /\ start' = nd
              /\ LiveSlots' \cap FrozenAt(nd) = {}
  <2>1. start = max_points
    <3>1. CASE start # max_points
      <4>1. 1 .. NumFrozen \subseteq overrun'
        BY <1>2, <3>1 DEF OverrunBy
      <4>2. 1 \in 1 .. NumFrozen
        BY SaveAssumption
      <4> QED
        BY <1>10, <4>1, <4>2
    <3> QED
      BY <3>1
  <2>2. start' = nd
    BY <1>3, <1>8, <2>1
  <2>3. LiveSlots' \cap FrozenAt(nd) = {}
    <3>1. FrozenAt(nd') = FrozenAt(nd)
      BY <1>2
    <3> QED
      BY <1>2, <1>6, <1>10, <3>1 DEF SaveInv, InSave
  <2> QED
    BY <1>2, <1>10, <2>1, <2>2, <2>3
<1>11. ASSUME Kind PROVE Holds(v) = Holds(Current) /\ Inside(v)
  <2>1. Inside(Current)
    BY <1>2, <1>5, <1>10, <1>11, CurrentInside DEF ContentInv, EdgesInside
  <2>2. CASE data_compacted
    <3>1. LiveSlots' = LiveSlots
      BY <1>2, <1>4, <2>2 DEF LiveSlots, Slots, HasTag
    <3> QED
      BY <1>4, <1>10, <1>11, <2>1, <2>2, <3>1 DEF Current
  <2>3. CASE ~data_compacted
    <3>1. Current = View(LiveSlots, location_to_tag, Stores, max_points)
      BY <1>10, <1>11 DEF Current
    <3>2. LiveSlots' = 0 .. nd - 1 /\ Cardinality(LiveSlots) = nd /\ \A l \in LiveSlots : Named(l)
      BY <1>6, <1>11, <2>3
    <3>3. v = View(0 .. nd - 1, CompactedTag, CompactData, max_points)
      BY <1>4, <2>3, <3>2
    <3> QED
      BY <1>1, <2>1, <3>1, <3>2, <3>3, CompactHolds
  <2> QED
    BY <2>2, <2>3
<1>12. Kind => Current' = [rows |-> LiveSlots', tags |-> location_to_tag', data |-> data_store',
                           graph |-> neighbours', first |-> nd]
  BY <1>10 DEF Current, View, Stores
<1> HIDE DEF compacted
<1>13. ASSUME Kind PROVE Holds(Current') = Holds(Current) /\ Inside(Current')
  <2>1. CASE nd < max_points
    <3>1. Current' = View(LiveSlots', location_to_tag', t, nd)
      BY <1>3, <1>12, <1>13, <2>1 DEF View
    <3>2. PICK r : r = t
      OBVIOUS
    <3>3. PICK tags : tags = location_to_tag'
      OBVIOUS
    <3>4. PICK rows : rows = LiveSlots'
      OBVIOUS
    <3>5. Inside(View(rows, tags, compacted, max_points))
      BY <1>11, <1>13, <3>3, <3>4
    <3>6. rows \subseteq Rows /\ rows \cap FrozenAt(nd) = {} /\ rows \cap FrozenAt(max_points) = {}
      BY <1>8, <1>9, <1>10, <1>13, <3>4
    <3> HIDE DEF t
    <3>7. /\ Holds(View(rows, tags, r, nd)) = Holds(View(rows, tags, compacted, max_points))
          /\ Inside(View(rows, tags, r, nd))
      BY <1>7, <1>8, <2>1, <3>2, <3>5, <3>6, RepositionHolds DEF t
    <3> QED
      BY <1>11, <1>13, <3>1, <3>2, <3>3, <3>4, <3>7
  <2>2. CASE ~(nd < max_points)
    <3>1. nd = max_points
      BY <1>8, <2>2
    <3>2. Current' = v
      BY <1>3, <1>12, <1>13, <2>2, <3>1 DEF View
    <3> QED
      BY <1>11, <1>13, <3>2
  <2> QED
    BY <2>1, <2>2
<1>14. OnRows(neighbours)'
  <2>1. CASE nd < max_points
    BY <1>3, <1>7, <1>8, <2>1, RepositionedLists
  <2>2. CASE ~(nd < max_points)
    BY <1>3, <1>7, <2>2
  <2> QED
    BY <2>1, <2>2
<1>15. EdgesInside'
  <2>1. (delete_set = {} => (Inside(Current) <=> \A r \in Used : neighbours[r] \subseteq Used))'
    BY CurrentInside, PTL
  <2>2. Inside(Current)' <=> Inside(Current')
    BY DEF Inside, InUse, FrozenAt
  <2> QED
    BY <1>2, <1>5, <1>13, <2>1, <2>2 DEF EdgesInside
<1>16. FilesInside'
  BY <1>2 DEF ContentInv, FilesInside, FileView
<1>17. Kind => Content' = Content
  <2>1. (Content = Holds(Current))'
    BY ContentIs, PTL
  <2> QED
    BY <1>13, <2>1, ContentIs
<1> QED
  BY <1>14, <1>15, <1>16, <1>17 DEF ContentInv
LEMMA SaveFileKeepsContent ==
    ASSUME SaveInv, ContentInv, SaveFile, UNCHANGED setup
    PROVE  ContentInv'
<1>1. TypeInv /\ InSave /\ FilesInv /\ OnRows(neighbours) /\ EdgesInside /\ FilesInside
  BY DEF SaveInv, ContentInv
<1>2. /\ UNCHANGED <<setup, max_points, nd, start, delete_set,
                      location_to_tag, neighbours, data_store, mixed, overrun>>
      /\ saving \in {"graph", "data", "tags"}
      /\ files' = [files EXCEPT ![saving] = Written(saving)]
      /\ whole' = (saving = "tags" /\ ~mixed /\ overrun = {} /\ LiveSlots = 0 .. nd - 1)
      /\ saving' = CASE saving = "graph" -> "data" [] saving = "data" -> "tags" [] OTHER -> "end"
  BY FileNames, Zenon DEF SaveFile, index
<1>3. delete_set = {} /\ (overrun = {} => start = nd)
  BY <1>1, <1>2 DEF InSave
<1>4. files = [f \in {"graph", "data", "tags"} |-> files[f]]
  BY <1>1, FileNames DEF FilesInv
<1>5. Used' = Used
  BY <1>2 DEF Used, LiveSlots, Slots, HasTag, FrozenAt
<1>6. OnRows(neighbours)' /\ EdgesInside'
  <2>1. saving # "idle" /\ saving' # "idle"
    BY <1>2
  <2> QED
    BY <1>1, <1>2, <1>5, <2>1 DEF OnRows, EdgesInside
<1>7. GraphFile' = GraphFile
  BY <1>2 DEF GraphFile, LastRow
<1>8. FilesInside'
  <2>1. CASE saving = "graph"
    <3>1. files'["graph"] = GraphFile /\ ~whole'
      <4>1. Written("graph") = GraphFile
        BY DEF Written
      <4> QED
        BY <1>2, <1>4, <2>1, <4>1
    <3> QED
      BY <1>7, <3>1 DEF FilesInside
  <2>2. CASE saving = "data"
    <3>1. files'["graph"] = GraphFile /\ ~whole'
      BY <1>1, <1>2, <1>4, <2>2 DEF FilesInside
    <3> QED
      BY <1>7, <3>1 DEF FilesInside
  <2>3. CASE saving = "tags"
    <3>1. files'["graph"] = GraphFile /\ files'["data"] = DataFile /\ saving' = "end"
      BY <1>1, <1>2, <1>4, <2>3 DEF FilesInside, InSave
    <3>2. LastRow + 1 = nd + NumFrozen /\ nd \in Nat /\ NumFrozen \in Nat
      BY <1>1, WrittenRows, SaveAssumption
    <3>3. files'["graph"].start = start /\ files'["data"].rows - NumFrozen = nd
      BY <3>1, <3>2 DEF GraphFile, DataFile
    <3> DEFINE v == FileView'
    <3>4. v.rows = 0 .. nd - 1 /\ v.first = start /\ v.graph = GraphFile.graph
      BY <3>1, <3>3 DEF FileView, View
    <3> HIDE DEF v
    <3>5. ASSUME whole' PROVE start = nd /\ Inside(v)
      <4>1. ~mixed /\ overrun = {} /\ LiveSlots = 0 .. nd - 1 /\ start = nd
        BY <1>2, <1>3, <3>5
      <4>2. InUse(v) = Used
        BY <1>3, <3>4, <4>1 DEF InUse, Used
      <4>3. Used \subseteq 0 .. LastRow
        BY <1>3, <3>2, <4>1 DEF Used, FrozenAt, LastRow
      <4>4. \A r \in Used : v.graph[r] = neighbours[r]
        BY <3>4, <4>3 DEF GraphFile
      <4> QED
        BY <1>1, <1>2, <4>1, <4>2, <4>4 DEF EdgesInside, Inside
    <3>6. Inside(FileView)' <=> Inside(v)
      BY DEF Inside, InUse, FrozenAt, v
    <3> QED
      BY <3>1, <3>3, <3>5, <3>6 DEF FilesInside
  <2> QED
    BY <1>2, <2>1, <2>2, <2>3
<1> QED
  BY <1>6, <1>8 DEF ContentInv

\* And so does the index with the frozen points moved back.
LEMMA SaveEndKeepsContent ==
    ASSUME SaveInv, ContentInv, SaveEnd, UNCHANGED setup
    PROVE  ContentInv' /\ (~mixed /\ overrun = {} => Content' = Content)
<1> DEFINE t == RepositionPoints(Stores, nd, max_points, NumFrozen)
<1>1. TypeInv /\ InSave /\ OnRows(neighbours) /\ EdgesInside /\ FilesInside
  BY DEF SaveInv, ContentInv
<1>2. /\ UNCHANGED <<setup, max_points, nd, delete_set, location_to_tag, files, whole, mixed, overrun>>
      /\ saving = "end" /\ saving' = "idle"
      /\ start' = IF nd = max_points THEN start ELSE max_points
      /\ neighbours' = (IF nd = max_points THEN Stores ELSE t).graph
      /\ data_store' = (IF nd = max_points THEN Stores ELSE t).data
  BY Zenon DEF SaveEnd, history
<1>3. delete_set = {} /\ delete_set' = {} /\ LiveSlots' = LiveSlots
  BY <1>1, <1>2 DEF InSave, LiveSlots, Slots, HasTag
<1>4. ASSUME ~mixed, overrun = {}
      PROVE  start = nd /\ start' = max_points /\ LiveSlots \cap FrozenAt(nd) = {}
  BY <1>1, <1>2, <1>4 DEF InSave
<1>5. /\ max_points \in Nat /\ nd \in Nat
      /\ FrozenAt(nd) \subseteq Rows /\ FrozenAt(max_points) \subseteq Rows
      /\ LiveSlots \subseteq Rows /\ LiveSlots \cap FrozenAt(max_points) = {}
  BY <1>1, FrozenFit, LiveFinite
<1>6. OnRows(Stores.graph) /\ Stores.graph = neighbours /\ Stores.data = data_store
  BY <1>1 DEF Stores
<1>7. ~mixed /\ overrun = {} =>
         /\ Current = View(LiveSlots, location_to_tag, Stores, nd)
         /\ Current' = [rows |-> LiveSlots, tags |-> location_to_tag, data |-> data_store',
                        graph |-> neighbours', first |-> max_points]
  BY <1>2, <1>3, <1>4 DEF Current, View, Stores
<1>8. ASSUME ~mixed, overrun = {} PROVE Holds(Current') = Holds(Current) /\ Inside(Current')
  <2>1. Inside(Current)
    BY <1>1, <1>2, <1>3, <1>8, CurrentInside DEF EdgesInside
  <2>2. CASE nd = max_points
    BY <1>2, <1>6, <1>7, <1>8, <2>1, <2>2 DEF View
  <2>3. CASE nd # max_points
    <3>1. Current' = View(LiveSlots, location_to_tag, t, max_points)
      BY <1>2, <1>7, <1>8, <2>3 DEF View
    <3>2. PICK r : r = t
      OBVIOUS
    <3>3. PICK rows : rows = LiveSlots
      OBVIOUS
    <3> HIDE DEF t
    <3>4. Inside(View(rows, location_to_tag, Stores, nd))
      BY <1>7, <1>8, <2>1, <3>3
    <3>5. rows \cap FrozenAt(nd) = {} /\ rows \subseteq Rows /\ rows \cap FrozenAt(max_points) = {}
      BY <1>4, <1>5, <1>8, <3>3
    <3>6. /\ Holds(View(rows, location_to_tag, r, max_points)) = Holds(View(rows, location_to_tag, Stores, nd))
          /\ Inside(View(rows, location_to_tag, r, max_points))
      BY <1>5, <1>6, <2>3, <3>2, <3>4, <3>5, RepositionHolds DEF t
    <3> QED
      BY <1>7, <1>8, <3>1, <3>2, <3>3, <3>6
  <2> QED
    BY <2>2, <2>3
<1>9. OnRows(neighbours)'
  <2>1. CASE nd = max_points
    BY <1>2, <1>6, <2>1
  <2>2. CASE nd # max_points
    BY <1>2, <1>5, <1>6, <2>2, RepositionedLists
  <2> QED
    BY <2>1, <2>2
<1>10. EdgesInside'
  <2>1. (delete_set = {} => (Inside(Current) <=> \A r \in Used : neighbours[r] \subseteq Used))'
    BY CurrentInside, PTL
  <2>2. Inside(Current)' <=> Inside(Current')
    BY DEF Inside, InUse, FrozenAt
  <2> QED
    BY <1>2, <1>3, <1>8, <2>1, <2>2 DEF EdgesInside
<1>11. FilesInside'
  BY <1>1, <1>2 DEF FilesInside, FileView
<1>12. ~mixed /\ overrun = {} => Content' = Content
  <2>1. (Content = Holds(Current))'
    BY ContentIs, PTL
  <2> QED
    BY <1>8, <2>1, ContentIs
<1> QED
  BY <1>9, <1>10, <1>11, <1>12 DEF ContentInv

LEMMA SaveThrowKeepsContent ==
    ASSUME SaveInv, ContentInv, SaveThrow, UNCHANGED setup
    PROVE  ContentInv'
<1>1. /\ UNCHANGED <<setup, max_points, start, delete_set, location_to_tag, neighbours, mixed, overrun>>
      /\ saving \in {"graph", "data", "tags"} /\ saving' = "idle" /\ ~whole'
  BY FileNames, Zenon DEF SaveThrow, index
<1>2. Used' = Used
  BY <1>1 DEF Used, LiveSlots, Slots, HasTag, FrozenAt
<1>3. OnRows(neighbours)' /\ EdgesInside'
  BY <1>1, <1>2 DEF ContentInv, OnRows, EdgesInside
<1>4. FilesInside'
  BY <1>1 DEF FilesInside
<1> QED
  BY <1>3, <1>4 DEF ContentInv
\* A loaded index holds what the files hold, with the frozen points at its end.
LEMMA LoadKeepsContent ==
    ASSUME SaveInv, ContentInv, NEW c \in setup.capacities, Load(c), UNCHANGED setup
    PROVE  ContentInv' /\ (whole => Content' = FileContent /\ start' = max_points')
<1> DEFINE rows == files["data"].rows
           n == rows - NumFrozen
           max == Resized(c, n)
           read == [graph |-> ReadLists(max), data |-> ReadVectors(max)]
           t == RepositionPoints(read, n, max, NumFrozen)
           points == 0 .. n - 1
<1>1. TypeInv /\ FilesInv /\ FilesInside
  BY DEF SaveInv, ContentInv
<1>2. /\ UNCHANGED <<setup, files, whole>>
      /\ FilesAgree /\ max_points' = max /\ nd' = n
      /\ delete_set' = {} /\ saving' = "idle"
      /\ location_to_tag' = [r \in Rows |-> IF r < n THEN files["tags"].tags[r] ELSE NoTag]
      /\ data_store' = LoadedStores(rows, max).data
      /\ neighbours' = LoadedStores(rows, max).graph
      /\ start' = IF n = max THEN files["graph"].start ELSE EmptyIndex(max).start
      /\ mixed' = ~whole /\ overrun' = {}
  BY Zenon DEF Load
<1>3. LiveSlots' = points
  <2>1. LiveSlots' = 0 .. nd' - 1
    BY LoadKeeps
  <2> QED
    BY <1>2, <2>1
<1>4. files["data"] # Missing /\ files["graph"].rows = rows
  BY <1>2, FileNames DEF FilesAgree
<1>5. /\ c \in Nat /\ NumFrozen \in Nat /\ MaxCapacity \in Nat /\ rows \in Nat
      /\ n \in Nat /\ max \in Nat /\ n <= max /\ rows = n + NumFrozen /\ max <= MaxCapacity
  <2>1. c \in 1 .. MaxCapacity /\ MaxCapacity \in Nat /\ NumFrozen \in Nat \ {0}
    BY <1>1, SaveAssumption DEF TypeInv
  <2>2. rows \in RowCounts
    BY <1>1, <1>4 DEF FilesInv
  <2> QED
    BY <2>1, <2>2 DEF RowCounts, Resized
<1>6. LoadedStores(rows, max) = IF n = max THEN read ELSE t
  BY Zenon DEF LoadedStores
<1>7. /\ OnRows(read.graph)
      /\ \A r \in Rows : r < rows => read.graph[r] = files["graph"].graph[r] /\ read.data[r] = files["data"].data[r]
  BY <1>4 DEF ReadLists, ReadVectors, OnRows
<1>8. EmptyIndex(max).start = max
  BY DEF EmptyIndex
<1>9. whole => start' = max_points'
  BY <1>1, <1>2, <1>8 DEF FilesInside
<1> HIDE DEF max, read, n
<1>10. /\ points \subseteq Rows /\ FrozenAt(n) \subseteq Rows /\ FrozenAt(max) \subseteq Rows
       /\ points \cap FrozenAt(n) = {} /\ points \cap FrozenAt(max) = {}
       /\ \A r \in points \cup FrozenAt(n) : r \in Rows /\ r < rows
       /\ \A r \in points : r < n
  BY <1>5 DEF FrozenAt, Rows
<1>11. OnRows(neighbours)'
  <2>1. CASE n = max
    BY <1>2, <1>6, <1>7, <2>1
  <2>2. CASE n # max
    BY <1>2, <1>5, <1>6, <1>7, <1>10, <2>2, RepositionedLists
  <2> QED
    BY <2>1, <2>2
<1>12. ASSUME whole PROVE Holds(Current') = Holds(FileView) /\ Inside(Current')
  <2> DEFINE v == FileView
             u == View(points, location_to_tag', read, n)
             f == [x \in InUse(v) |-> x]
  <2>1. /\ v.rows = points /\ v.first = n /\ Inside(v)
        /\ v.tags = files["tags"].tags /\ v.data = files["data"].data /\ v.graph = files["graph"].graph
    BY <1>1, <1>12 DEF FilesInside, FileView, View, n
  <2>2. /\ u.rows = points /\ u.first = n /\ u.tags = location_to_tag'
        /\ u.data = read.data /\ u.graph = read.graph
    BY DEF View
  <2>3. InUse(v) = points \cup FrozenAt(n)
    BY <2>1 DEF InUse
  <2>4. \A x \in InUse(v) : f[x] = x
    OBVIOUS
  <2> HIDE DEF v, u, f
  <2>5. Carried(f, v, u)
    <3>1. u.rows = {f[l] : l \in v.rows}
      BY <2>1, <2>2, <2>3, <2>4
    <3>2. \A i \in 0 .. NumFrozen - 1 : f[v.first + i] = u.first + i
      <4>1. \A i \in 0 .. NumFrozen - 1 : n + i \in FrozenAt(n)
        BY <1>5, FrozenRows
      <4> QED
        BY <2>1, <2>2, <2>3, <2>4, <4>1
    <3>3. \A l \in v.rows : u.tags[f[l]] = v.tags[l]
      BY <1>2, <1>10, <2>1, <2>2, <2>3, <2>4
    <3>4. ASSUME NEW r \in InUse(v)
          PROVE  u.data[f[r]] = v.data[r] /\ u.graph[f[r]] = {f[x] : x \in v.graph[r]}
      <4>1. r \in Rows /\ r < rows /\ f[r] = r
        BY <1>10, <2>3, <2>4
      <4>2. v.graph[r] \subseteq InUse(v)
        BY <2>1 DEF Inside
      <4>3. {f[x] : x \in v.graph[r]} = v.graph[r]
        BY <2>4, <4>2
      <4> QED
        BY <1>7, <2>1, <2>2, <4>1, <4>3
    <3> QED
      BY <3>1, <3>2, <3>3, <3>4 DEF Carried
  <2>6. Holds(u) = Holds(v) /\ Inside(u)
    BY <1>5, <2>1, <2>2, <2>5, CarriedHolds
  <2>7. Current' = [rows |-> points, tags |-> location_to_tag', data |-> data_store',
                    graph |-> neighbours', first |-> max]
    BY <1>2, <1>3, <1>9, <1>12 DEF Current, View, Stores
  <2>8. CASE n = max
    <3>1. Current' = u
      BY <1>2, <1>6, <2>7, <2>8 DEF u, View
    <3> QED
      BY <2>6, <3>1 DEF v
  <2>9. CASE n # max
    <3>1. Current' = View(points, location_to_tag', t, max)
      BY <1>2, <1>6, <2>7, <2>9 DEF View
    <3>2. PICK r : r = t
      OBVIOUS
    <3>3. PICK tags : tags = location_to_tag'
      OBVIOUS
    <3>4. PICK ps : ps = points
      OBVIOUS
    <3>5. PICK s : s = read
      OBVIOUS
    <3>6. Inside(View(ps, tags, s, n))
      BY <2>6, <3>3, <3>4, <3>5 DEF u
    <3>7. r = RepositionPoints(s, n, max, NumFrozen)
      BY <3>2, <3>5
    <3> HIDE DEF t, points
    <3>8. /\ Holds(View(ps, tags, r, max)) = Holds(View(ps, tags, s, n))
          /\ Inside(View(ps, tags, r, max))
      BY <1>5, <1>7, <1>10, <2>9, <3>4, <3>5, <3>6, <3>7, RepositionHolds
    <3> QED
      BY <2>6, <3>1, <3>2, <3>3, <3>4, <3>5, <3>8 DEF u, v
  <2> QED
    BY <2>8, <2>9
<1>13. EdgesInside'
  <2>1. (delete_set = {} => (Inside(Current) <=> \A r \in Used : neighbours[r] \subseteq Used))'
    BY CurrentInside, PTL
  <2>2. Inside(Current)' <=> Inside(Current')
    BY DEF Inside, InUse, FrozenAt
  <2> QED
    BY <1>2, <1>12, <2>1, <2>2 DEF EdgesInside
<1>14. FilesInside'
  BY <1>1, <1>2 DEF FilesInside, FileView
<1>15. whole => Content' = FileContent
  <2>1. (Content = Holds(Current))'
    BY ContentIs, PTL
  <2> QED
    BY <1>12, <2>1, ContentIs
<1> QED
  BY <1>9, <1>11, <1>13, <1>14, <1>15 DEF ContentInv
-----------------------------------------------------------------------------

LEMMA ContentInvInit ==
    ASSUME Init
    PROVE  ContentInv
<1>1. SaveInv
  BY SaveInvInit
<1>2. /\ delete_set = {} /\ saving = "idle" /\ start = max_points /\ ~whole /\ ~mixed
      /\ neighbours = [r \in Rows |-> {}]
      /\ location_to_tag = [r \in Rows |-> NoTag]
      /\ files = [f \in ToSet(Files) |-> Missing]
  BY <1>1 DEF Init, EmptyIndex
<1>3. Used \subseteq Rows
  <2>1. Slots \subseteq Rows /\ FrozenAt(max_points) \subseteq Rows
    BY <1>1, LiveFinite, FrozenFit DEF SaveInv
  <2> QED
    BY <1>2, <2>1 DEF Used, LiveSlots
<1>4. OnRows(neighbours) /\ EdgesInside
  BY <1>2, <1>3 DEF OnRows, EdgesInside
<1>5. FilesInside
  BY <1>2, FileNames DEF FilesInside
<1> QED
  BY <1>4, <1>5 DEF ContentInv

LEMMA ContentInvNext ==
    ASSUME SaveInv, ContentInv, [Next]_vars
    PROVE  ContentInv'
<1>1. CASE Next
  <2>1. UNCHANGED setup
    BY <1>1, Zenon DEF Next
  <2>2. \/ \E t \in Tags : Insert(t) \/ LazyDelete(t)
        \/ Consolidate \/ ConsolidateStartDeleted
        \/ SaveBegin \/ SaveFile \/ SaveEnd \/ SaveThrow
        \/ \E c \in setup.capacities : Load(c)
    BY <1>1, Zenon DEF Next
  <2> QED
    BY <2>1, <2>2, InsertKeepsContent, LazyDeleteKeepsContent, ConsolidateKeepsContent,
       ConsolidateStartDeletedKeepsContent, SaveBeginKeepsContent, SaveFileKeepsContent,
       SaveEndKeepsContent, SaveThrowKeepsContent, LoadKeepsContent, Zenon
<1>2. CASE UNCHANGED vars
  <2>1. /\ UNCHANGED <<setup, max_points, nd, start, data_compacted, empty_slots, delete_set,
                       location_to_tag, neighbours>>
        /\ UNCHANGED <<data_store, saving, files, whole, mixed, overrun>>
    BY <1>2 DEF vars, index, history
  <2>2. Used' = Used /\ GraphFile' = GraphFile
    BY <2>1 DEF Used, LiveSlots, Slots, HasTag, FrozenAt, GraphFile, LastRow
  <2>3. FileView' = FileView
    BY <2>1 DEF FileView
  <2> QED
    BY <2>1, <2>2, <2>3 DEF ContentInv, OnRows, EdgesInside, FilesInside
<1> QED
  BY <1>1, <1>2

\* Edges of rows in use lead to rows in use, of an index in the middle of a save
\* and of the files a save has completed too: what a deletion leaves dangling is
\* gone before compact_data drops it.
THEOREM ContentInvHolds == Spec => []ContentInv
<1>1. Init => ContentInv
  BY ContentInvInit
<1>2. SaveInv /\ ContentInv /\ [Next]_vars => ContentInv'
  BY ContentInvNext
<1> QED
  BY <1>1, <1>2, SaveInvHolds, PTL DEF Spec

\* A save renumbers the points, moves the frozen points behind the last one and
\* back, and loses, mixes up or invents no point, tag, vector or edge, whatever slots
\* are free and whatever saves have failed: unless it puts frozen points where points
\* lie, as a save does of a part-filled index that counts as compacted, or moves rows
\* that the frozen points have left in a save that failed.
THEOREM SaveKeepsContentHolds == Spec => SaveKeepsContent
<1> DEFINE Same == (SaveBegin \/ SaveEnd) /\ ~mixed /\ overrun' = {} => Content' = Content
<1>1. SaveInv /\ ContentInv /\ [Next]_vars => [Same]_vars
  <2>1. SUFFICES ASSUME SaveInv, ContentInv, Next, SaveBegin \/ SaveEnd, ~mixed, overrun' = {}
                 PROVE  Content' = Content
    BY DEF Same
  <2>2. UNCHANGED setup
    BY <2>1, Zenon DEF Next
  <2>3. CASE SaveBegin
    BY <2>1, <2>2, <2>3, SaveBeginKeepsContent
  <2>4. CASE SaveEnd
    <3>1. overrun' = overrun
      BY <2>4, Zenon DEF SaveEnd, history
    <3> QED
      BY <2>1, <2>2, <2>4, <3>1, SaveEndKeepsContent
  <2> QED
    BY <2>1, <2>3, <2>4
<1> QED
  BY <1>1, SaveInvHolds, ContentInvHolds, PTL DEF Spec, SaveKeepsContent

\* The files of a completed save bring back what was saved into an index of any
\* capacity, and the frozen points are where a search starts.
THEOREM LoadRestoresHolds == Spec => LoadRestores
<1> DEFINE Restored == whole /\ (\E c \in setup.capacities : Load(c)) =>
                          Content' = FileContent /\ start' = max_points'
<1>1. SaveInv /\ ContentInv /\ [Next]_vars => [Restored]_vars
  <2>1. SUFFICES ASSUME SaveInv, ContentInv, Next, whole, NEW c \in setup.capacities, Load(c)
                 PROVE  Content' = FileContent /\ start' = max_points'
    BY DEF Restored
  <2>2. UNCHANGED setup
    BY <2>1, Zenon DEF Next
  <2> QED
    BY <2>1, <2>2, LoadKeepsContent
<1> QED
  BY <1>1, SaveInvHolds, ContentInvHolds, PTL DEF Spec, LoadRestores
=============================================================================
