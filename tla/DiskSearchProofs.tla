-------------------------- MODULE DiskSearchProofs --------------------------
(***************************************************************************)
(* Proofs about DiskSearch and the ShardMerge it extends, for any rows,    *)
(* shards, nodes per sector and sectors per node: the search finds each    *)
(* node in the sector where it computes it to be; where searches start;    *)
(* merging the shards loses no link and brings in no other; and a search   *)
(* leaves nothing behind.                                                  *)
(***************************************************************************)
EXTENDS DiskSearch, RankProofs, SequenceTheorems

-----------------------------------------------------------------------------
(* Numbers.                                                                *)

\* Division with rest.
LEMMA DivRest ==
    ASSUME NEW a \in Nat, NEW d \in Nat \ {0}
    PROVE  a \div d \in Nat /\ a % d \in 0 .. d - 1 /\ a = ((a \div d) * d) + (a % d)
OBVIOUS

\* A number of nodes per sector is zero or counts nodes.
LEMMA NatSplits ==
    \A n \in Nat : (n \in Nat \ {0} /\ n > 0 /\ ~(n = 0)) \/ (n = 0 /\ ~(n > 0))
OBVIOUS

LEMMA DivOfSum ==
    ASSUME NEW q \in Nat, NEW d \in Nat \ {0}, NEW m \in 0 .. d - 1
    PROVE  ((q * d) + m) \div d = q /\ ((q * d) + m) % d = m
OBVIOUS

LEMMA NextMultiple ==
    ASSUME NEW q \in Nat, NEW p \in Nat, NEW d \in Nat \ {0}, q < p
    PROVE  (q * d) + d <= p * d
OBVIOUS

\* The rounded-up quotient counts the blocks of d that hold n things: each of
\* them is in a block below it.
LEMMA BlockOf ==
    ASSUME NEW n \in Nat, NEW d \in Nat \ {0}, NEW r \in 0 .. n - 1
    PROVE  CeilDiv(n, d) \in Nat /\ r \div d < CeilDiv(n, d)
<1> DEFINE q == r \div d
           p == CeilDiv(n, d)
<1>1. q \in Nat /\ r % d \in 0 .. d - 1 /\ r = (q * d) + (r % d)
  <2>1. r \in Nat
    OBVIOUS
  <2> QED
    BY <2>1, DivRest
<1>2. n + d - 1 \in Nat /\ p = (n + d - 1) \div d
  BY DEF CeilDiv
<1>3. p \in Nat /\ (n + d - 1) % d \in 0 .. d - 1 /\ n + d - 1 = (p * d) + ((n + d - 1) % d)
  BY <1>2, DivRest
<1> HIDE DEF q, p
<1>4. ASSUME p <= q PROVE FALSE
  <2>1. p * d <= q * d
    BY <1>1, <1>3, <1>4
  <2>2. q * d \in Int /\ p * d \in Int
    BY <1>1, <1>3
  <2> QED
    BY <1>1, <1>3, <2>1, <2>2
<1> QED
  BY <1>1, <1>3, <1>4 DEF q, p

LEMMA MinOfTwo ==
    ASSUME NEW a \in Int, NEW b \in Int
    PROVE  Min({a, b}) = IF a <= b THEN a ELSE b
<1> DEFINE m == IF a <= b THEN a ELSE b
<1>1. m \in {a, b} /\ \A y \in {a, b} : m <= y
  OBVIOUS
<1>2. \A x \in {a, b} : (\A y \in {a, b} : x <= y) => x = m
  OBVIOUS
<1> QED
  BY <1>1, <1>2 DEF Min

-----------------------------------------------------------------------------
(* The rows.                                                               *)

\* A sequence of sequences put one after the other is a sequence.
LEMMA FlattenType ==
    ASSUME NEW R, NEW seqs \in Seq(Seq(R))
    PROVE  FlattenSeq(seqs) \in Seq(R)
<1> DEFINE num == Len(seqs)
           Solves(f, m) ==
               f = [i \in 1 .. m |-> IF i = 1 THEN seqs[i] ELSE f[i - 1] \o seqs[i]]
           Good == {m \in Nat : \E f : Solves(f, m)}
<1>1. num \in Nat /\ \A i \in 1 .. num : seqs[i] \in Seq(R)
  OBVIOUS
<1>2. 0 \in Good
  <2>1. Solves([i \in 1 .. 0 |-> seqs[i]], 0)
    OBVIOUS
  <2> QED
    BY <2>1
<1>3. ASSUME NEW m \in 1 .. num, m - 1 \in Good PROVE m \in Good
  <2>1. PICK f : Solves(f, m - 1)
    BY <1>3
  <2> DEFINE g == [i \in 1 .. m |-> IF i = m THEN (IF m = 1 THEN seqs[m] ELSE f[m - 1] \o seqs[m])
                                    ELSE f[i]]
  <2>2. ASSUME NEW i \in 1 .. m
        PROVE  g[i] = IF i = 1 THEN seqs[i] ELSE g[i - 1] \o seqs[i]
    <3>1. \A j \in 1 .. m - 1 : f[j] = IF j = 1 THEN seqs[j] ELSE f[j - 1] \o seqs[j]
      BY <2>1
    <3>2. CASE i = m
      <4>1. m # 1 => m - 1 \in 1 .. m /\ m - 1 # m
        OBVIOUS
      <4>2. m # 1 => g[m - 1] = f[m - 1]
        BY <4>1
      <4> QED
        BY <3>2, <4>2
    <3>3. CASE i # m
      <4>1. i \in 1 .. m - 1 /\ g[i] = f[i]
        BY <3>3
      <4>2. i # 1 => i - 1 \in 1 .. m /\ i - 1 # m
        BY <4>1
      <4>3. i # 1 => g[i - 1] = f[i - 1]
        BY <4>2
      <4> QED
        BY <4>1, <4>3, <3>1
    <3> QED
      BY <3>2, <3>3
  <2>3. g = [i \in 1 .. m |-> g[i]]
    OBVIOUS
  <2> HIDE DEF g
  <2>4. Solves(g, m)
    BY <2>2, <2>3, Zenon
  <2>5. m \in Nat
    BY <1>1
  <2> QED
    BY <2>4, <2>5
<1>4. num \in Good
  <2> HIDE DEF Good
  <2>1. 0 .. num \subseteq Good
    BY <1>1, <1>2, <1>3, Rounds
  <2> QED
    BY <1>1, <2>1
<1> DEFINE glued == CHOOSE f : Solves(f, num)
<1>5. Solves(glued, num)
  BY <1>4
<1> HIDE DEF glued
<1>6. \A i \in 1 .. num : glued[i] = IF i = 1 THEN seqs[i] ELSE glued[i - 1] \o seqs[i]
  BY <1>5
<1> DEFINE Fine == {m \in 0 .. num : m > 0 => glued[m] \in Seq(R)}
<1>7. 0 \in Fine
  BY <1>1
<1>8. ASSUME NEW m \in 1 .. num, m - 1 \in Fine PROVE m \in Fine
  <2>1. CASE m = 1
    <3>1. glued[1] = seqs[1] /\ seqs[1] \in Seq(R)
      BY <1>1, <1>6, <2>1
    <3> QED
      BY <1>1, <2>1, <3>1
  <2>2. CASE m # 1
    <3>1. glued[m - 1] \in Seq(R) /\ seqs[m] \in Seq(R)
      BY <1>1, <1>8, <2>2
    <3>2. glued[m - 1] \o seqs[m] \in Seq(R)
      BY <3>1
    <3>3. glued[m] = glued[m - 1] \o seqs[m]
      BY <1>6, <2>2
    <3>4. glued[m] \in Seq(R)
      BY <3>2, <3>3
    <3> QED
      BY <1>1, <3>4
  <2> QED
    BY <2>1, <2>2
<1>9. num > 0 => glued[num] \in Seq(R)
  <2> HIDE DEF Fine
  <2>1. 0 .. num \subseteq Fine
    BY <1>1, <1>7, <1>8, Rounds
  <2> QED
    BY <1>1, <2>1 DEF Fine
<1>10. num > 0 => FlattenSeq(seqs) = glued[num]
  BY <1>1 DEF FlattenSeq, glued
<1>11. num = 0 => FlattenSeq(seqs) = <<>>
  BY DEF FlattenSeq
<1> QED
  BY <1>1, <1>9, <1>10, <1>11
-----------------------------------------------------------------------------
(* The inductive invariant.                                                *)

\* The stages before the layout is written, when there is no index on disk.
Building == {"asked", "rows", "shards", "merge", "merged", "indexed"}

\* Rows are numbered from zero.
RowsNumbered == stage # "asked" => N \in Nat /\ DOMAIN rows = 0 .. N - 1

\* Each is at the place of a point.
RowsPlaced == stage # "asked" => \A r \in DOMAIN rows : \E i \in 1 .. Len(ask.coord) : rows[r].coord = ask.coord[i]

DiskInv ==
    /\ ask \in Setups
    /\ RowsNumbered
    /\ stage \in Building => file = <<>> /\ cache = <<>>
    /\ ReadsFindTheNode

LEMMA RowsFromSeq ==
    ASSUME NEW R, NEW s \in Seq(R)
    PROVE  Len(s) \in Nat /\ DOMAIN FromSeq(s) = 0 .. Len(s) - 1
           /\ Cardinality(0 .. Len(s) - 1) = Len(s)
           /\ \A r \in DOMAIN FromSeq(s) : FromSeq(s)[r] \in R
<1>1. Len(s) \in Nat
  OBVIOUS
<1>2. DOMAIN FromSeq(s) = 0 .. Len(s) - 1
  BY DEF FromSeq, Ids
<1>3. Cardinality(0 .. Len(s) - 1) = Len(s)
  <2> DEFINE n == Len(s)
  <2> HIDE DEF n
  <2>1. n \in Nat /\ 0 \in Int /\ n - 1 \in Int
    BY <1>1 DEF n
  <2>2. Cardinality(0 .. n - 1) = IF 0 > n - 1 THEN 0 ELSE n - 1 - 0 + 1
    BY <2>1, FS_Interval
  <2> QED
    BY <2>1, <2>2 DEF n
<1>4. ASSUME NEW r \in DOMAIN FromSeq(s) PROVE FromSeq(s)[r] \in R
  <2>1. r \in 0 .. Len(s) - 1 /\ r + 1 \in 1 .. Len(s)
    BY <1>1, <1>2
  <2> QED
    BY <2>1 DEF FromSeq, Ids
<1> QED
  BY <1>1, <1>2, <1>3, <1>4

\* breakup_dense_points numbers the rows, dummies after the points.
LEMMA BreakUpRows ==
    ASSUME ask \in Setups, BreakUp
    PROVE  RowsNumbered' /\ RowsPlaced'
<1> DEFINE R == {Row(p, Chunks(ask.labels[p + 1])[j]) : p \in 0 .. Len(ask.coord) - 1, j \in Nat}
           Placed(row) == \E i \in 1 .. Len(ask.coord) : row.coord = ask.coord[i]
           chunks(p) == Chunks(ask.labels[p + 1])
           hosts == [i \in DOMAIN ask.coord |-> Row(i - 1, chunks(i - 1)[1])]
           extra(p) == [j \in 1 .. Len(chunks(p)) - 1 |-> Row(p, chunks(p)[j + 1])]
           extras == [i \in DOMAIN ask.coord |-> extra(i - 1)]
           n == Len(ask.coord)
<1>1. /\ n \in Nat /\ DOMAIN ask.coord = 1 .. n /\ Len(ask.labels) = n
      /\ \A i \in 1 .. n : ask.labels[i] \in Seq(Nat)
      /\ ask.density \in Nat
      /\ ask.density > 0 => \A i \in 1 .. n : ask.labels[i] # <<>>
  BY SetupAssumption
<1>2. rows' = FromSeq(IF ask.density > 0 THEN hosts \o FlattenSeq(extras) ELSE Whole)
  BY DEF BreakUp, Broken
<1>3. CASE ask.density > 0
  <2>1. ASSUME NEW i \in 1 .. n PROVE extra(i - 1) \in Seq(R)
    <3>1. i - 1 \in 0 .. n - 1 /\ i - 1 + 1 = i
      BY <1>1
    <3>2. Len(ask.labels[i]) \in Nat \ {0}
      <4>1. ask.labels[i] \in Seq(Nat) /\ ask.labels[i] # <<>>
        BY <1>1, <1>3
      <4> QED
        BY <4>1, EmptySeq
    <3> DEFINE len == (Len(ask.labels[i]) + ask.density - 1) \div ask.density
    <3>3. len \in Nat \ {0}
      <4>1. 0 \in 0 .. Len(ask.labels[i]) - 1
        BY <3>2
      <4>2. CeilDiv(Len(ask.labels[i]), ask.density) \in Nat
            /\ 0 \div ask.density < CeilDiv(Len(ask.labels[i]), ask.density)
        <5>1. ask.density \in Nat \ {0} /\ Len(ask.labels[i]) \in Nat
          BY <1>1, <1>3, <3>2
        <5> QED
          BY <4>1, <5>1, BlockOf
      <4>3. 0 \div ask.density \in Nat
        <5>1. ask.density \in Nat \ {0} /\ 0 \in Nat
          BY <1>1, <1>3
        <5> QED
          BY <5>1, DivRest
      <4> QED
        BY <4>2, <4>3 DEF CeilDiv
    <3> HIDE DEF len
    <3>4. Len(chunks(i - 1)) = len
      BY <3>1, <3>3 DEF Chunks, len
    <3>5. ASSUME NEW j \in 1 .. len - 1 PROVE Row(i - 1, chunks(i - 1)[j + 1]) \in R
      <4>1. j + 1 \in Nat
        BY <3>3
      <4> QED
        BY <3>1, <4>1
    <3> HIDE DEF R, chunks
    <3>6. extra(i - 1) = [j \in 1 .. len - 1 |-> Row(i - 1, chunks(i - 1)[j + 1])]
      BY <3>4
    <3> QED
      BY <3>3, <3>5, <3>6
  <2>2. extras \in Seq(Seq(R))
    <3> HIDE DEF R, extra
    <3>1. extras = [i \in 1 .. n |-> extra(i - 1)]
      BY <1>1
    <3> QED
      BY <1>1, <2>1, <3>1
  <2>3. hosts \in Seq(R)
    <3>1. ASSUME NEW i \in 1 .. n PROVE Row(i - 1, chunks(i - 1)[1]) \in R
      <4>1. i - 1 \in 0 .. n - 1 /\ 1 \in Nat
        BY <1>1
      <4>2. \A p \in 0 .. n - 1, j \in Nat : Row(p, chunks(p)[j]) \in R
        OBVIOUS
      <4> HIDE DEF R, chunks
      <4> QED
        BY <4>1, <4>2
    <3>2. hosts = [i \in 1 .. n |-> Row(i - 1, chunks(i - 1)[1])]
      BY <1>1
    <3> HIDE DEF R, chunks, hosts
    <3> QED
      BY <1>1, <3>1, <3>2
  <2>7. \A row \in R : Placed(row)
    <3>1. ASSUME NEW p \in 0 .. n - 1, NEW labels PROVE Placed(Row(p, labels))
      <4>1. p + 1 \in 1 .. n /\ Row(p, labels).coord = ask.coord[p + 1]
        BY <1>1 DEF Row
      <4> QED
        BY <4>1
    <3> HIDE DEF Placed
    <3> QED
      BY <3>1
  <2> HIDE DEF R, hosts, extras, Placed
  <2>4. FlattenSeq(extras) \in Seq(R)
    BY <2>2, FlattenType
  <2>5. hosts \o FlattenSeq(extras) \in Seq(R)
    BY <2>3, <2>4
  <2>6. N' \in Nat /\ DOMAIN rows' = 0 .. N' - 1 /\ \A r \in DOMAIN rows' : Placed(rows'[r])
    <3> DEFINE s == hosts \o FlattenSeq(extras)
    <3>1. rows' = FromSeq(s) /\ s \in Seq(R)
      BY <1>2, <1>3, <2>5
    <3> HIDE DEF s
    <3>2. Len(s) \in Nat /\ DOMAIN rows' = 0 .. Len(s) - 1 /\ Cardinality(0 .. Len(s) - 1) = Len(s)
          /\ \A r \in DOMAIN rows' : rows'[r] \in R
      BY <3>1, RowsFromSeq
    <3> QED
      BY <2>7, <3>2 DEF N
  <2> QED
    BY <2>6 DEF RowsNumbered, RowsPlaced, Placed, BreakUp
<1>4. CASE ~(ask.density > 0)
  <2> DEFINE S == {Row(i - 1, ask.labels[i]) : i \in 1 .. n}
  <2>1. Whole \in Seq(S)
    BY <1>1 DEF Whole
  <2>2. rows' = FromSeq(Whole)
    BY <1>2, <1>4
  <2>3. \A row \in S : Placed(row)
    <3>1. ASSUME NEW i \in 1 .. n PROVE Placed(Row(i - 1, ask.labels[i]))
      <4>1. (i - 1) + 1 = i /\ Row(i - 1, ask.labels[i]).coord = ask.coord[(i - 1) + 1]
        BY <1>1 DEF Row
      <4> QED
        BY <4>1
    <3> HIDE DEF Placed
    <3> QED
      BY <3>1
  <2> HIDE DEF S, Placed
  <2>4. N' \in Nat /\ DOMAIN rows' = 0 .. N' - 1 /\ \A r \in DOMAIN rows' : Placed(rows'[r])
    <3>1. Len(Whole) \in Nat /\ DOMAIN rows' = 0 .. Len(Whole) - 1
          /\ Cardinality(0 .. Len(Whole) - 1) = Len(Whole)
          /\ \A r \in DOMAIN rows' : rows'[r] \in S
      BY <2>1, <2>2, RowsFromSeq
    <3> QED
      BY <2>3, <3>1 DEF N
  <2> QED
    BY <2>4 DEF RowsNumbered, RowsPlaced, Placed, BreakUp
<1> QED
  BY <1>3, <1>4

-----------------------------------------------------------------------------
(* The layout.                                                             *)

\* A node of a shared sector is at its place in it: r / per sectors come before,
\* and r % per nodes.
LEMMA SharedSector ==
    ASSUME N \in Nat, NEW per \in Nat \ {0}, NEW pv, NEW r \in 0 .. N - 1
    PROVE  /\ 1 + (r \div per) \in 1 .. NSectors(per)
           /\ Sector(per, pv, 1 + (r \div per))[(r % per) + 1] = NodeRecord(pv, r)
<1> DEFINE q == r \div per
           m == r % per
           first == q * per
<1>1. r \in Nat /\ q \in Nat /\ m \in 0 .. per - 1 /\ r = (q * per) + m
  <2>1. r \in Nat
    OBVIOUS
  <2> QED
    BY <2>1, DivRest
<1>2. NSectors(per) = CeilDiv(N, per) /\ CeilDiv(N, per) \in Nat /\ q < CeilDiv(N, per)
  <2>1. per > 0
    OBVIOUS
  <2>2. CeilDiv(N, per) \in Nat /\ q < CeilDiv(N, per)
    BY BlockOf
  <2> QED
    BY <2>1, <2>2, Zenon DEF NSectors
<1> HIDE DEF q, m
<1>3. first = q * per /\ q * per \in Nat
  BY <1>1
<1> HIDE DEF first
<1>4. m + 1 \in 1 .. Min({per, N - first})
  <2>1. N - first \in Int /\ m + 1 <= N - first /\ m + 1 <= per
    BY <1>1, <1>3
  <2>2. Min({per, N - first}) = IF per <= N - first THEN per ELSE N - first
    BY <2>1, MinOfTwo
  <2> QED
    BY <1>1, <2>1, <2>2
<1>5. first + (m + 1) - 1 = r
  BY <1>1, <1>3
<1>6. Sector(per, pv, 1 + q) = [i \in 1 .. Min({per, N - first}) |-> NodeRecord(pv, first + i - 1)]
  <2> DEFINE s == 1 + q
  <2>1. (s - 1) * per = first /\ per > 0
    <3>1. s - 1 = q
      BY <1>1
    <3> QED
      BY <1>3, <3>1
  <2> HIDE DEF s
  <2>2. Sector(per, pv, s) = [i \in 1 .. Min({per, N - ((s - 1) * per)}) |->
                                NodeRecord(pv, ((s - 1) * per) + i - 1)]
    BY <2>1 DEF Sector
  <2> QED
    BY <2>1, <2>2, Zenon DEF s
<1>7. Sector(per, pv, 1 + q)[m + 1] = NodeRecord(pv, r)
  BY <1>4, <1>5, <1>6
<1>8. 1 + q \in 1 .. NSectors(per)
  BY <1>1, <1>2
<1> QED
  BY <1>7, <1>8 DEF q, m

\* A node with sectors of its own is at the beginning of the first of them.
LEMMA OwnSectors ==
    ASSUME N \in Nat, NEW pv, NEW r \in 0 .. N - 1
    PROVE  /\ 1 + (r * SectorsPerNode) \in 1 .. NSectors(0)
           /\ Sector(0, pv, 1 + (r * SectorsPerNode))[1] = NodeRecord(pv, r)
<1> DEFINE S == SectorsPerNode
           s == 1 + (r * S)
<1>1. S \in Nat \ {0} /\ r \in Nat /\ r < N
  BY LayoutAssumption
<1>2. (r * S) + S <= N * S
  BY <1>1, NextMultiple
<1>3. r * S \in Nat /\ N * S \in Nat /\ NSectors(0) = N * S
  BY <1>1 DEF NSectors
<1>4. ((r * S) + 0) \div S = r /\ ((r * S) + 0) % S = 0
  <2>1. 0 \in 0 .. S - 1
    BY <1>1
  <2> QED
    BY <1>1, <2>1, DivOfSum
<1>5. s - 1 = (r * S) + 0
  BY <1>3
<1>6. (s - 1) % S = 0 /\ (s - 1) \div S = r
  BY <1>4, <1>5
<1>7. s \in 1 .. NSectors(0)
  BY <1>1, <1>2, <1>3
<1> HIDE DEF s
<1>8. Sector(0, pv, s) = <<NodeRecord(pv, r)>>
  BY <1>6 DEF Sector
<1> QED
  BY <1>7, <1>8 DEF s
\* As long as the index is being built nothing is on disk.
LEMMA BuildingKeeps ==
    ASSUME DiskInv, stage \in Building, UNCHANGED <<ask, diskVars>>, RowsNumbered'
    PROVE  DiskInv'
<1>1. file' = <<>> /\ cache' = <<>> /\ ask' \in Setups
  BY DEF DiskInv, diskVars
<1> QED
  BY <1>1 DEF DiskInv, ReadsFindTheNode

\* create_disk_layout puts every node where a search will look for it.
LEMMA LayoutReads ==
    ASSUME DiskInv, CreateDiskLayout, stage' = "laid out"
    PROVE  \A r \in DOMAIN rows : NodeSector(r)' \in DOMAIN file' /\ ReadNode(r)' = NodeRecord(vectors', r)
<1>1. stage = "indexed" /\ N \in Nat /\ DOMAIN rows = 0 .. N - 1
  BY DEF CreateDiskLayout, DiskInv, RowsNumbered
<1>2. PICK per \in NodesPerSector, perVector \in VectorsPerSector :
         /\ perSector' = per /\ vectors' = perVector
         /\ file' = [s \in 1 .. NSectors(per) |-> Sector(per, perVector, s)]
  BY DEF CreateDiskLayout
<1>3. (per \in Nat \ {0} /\ per > 0 /\ ~(per = 0)) \/ (per = 0 /\ ~(per > 0))
  <2>1. per \in Nat
    BY LayoutAssumption
  <2> QED
    BY <2>1, NatSplits, Zenon
<1>4. ASSUME NEW r \in 0 .. N - 1
      PROVE  NodeSector(r)' \in DOMAIN file' /\ ReadNode(r)' = NodeRecord(perVector, r)
  <2>1. CASE per \in Nat \ {0} /\ per > 0 /\ ~(per = 0)
    <3>1. /\ 1 + (r \div per) \in 1 .. NSectors(per)
          /\ Sector(per, perVector, 1 + (r \div per))[(r % per) + 1] = NodeRecord(perVector, r)
      BY <1>1, <2>1, SharedSector
    <3>2. NodeSector(r)' = 1 + (r \div per)
      BY <1>2, <2>1 DEF NodeSector
    <3>3. file'[1 + (r \div per)] = Sector(per, perVector, 1 + (r \div per))
          /\ DOMAIN file' = 1 .. NSectors(per)
      BY <1>2, <3>1
    <3>4. ReadNode(r)' = file'[NodeSector(r)'][(r % per) + 1]
      BY <1>2, <2>1 DEF ReadNode, OffsetToNode
    <3> QED
      BY <3>1, <3>2, <3>3, <3>4
  <2>2. CASE per = 0 /\ ~(per > 0)
    <3>1. /\ 1 + (r * SectorsPerNode) \in 1 .. NSectors(0)
          /\ Sector(0, perVector, 1 + (r * SectorsPerNode))[1] = NodeRecord(perVector, r)
      BY <1>1, OwnSectors
    <3>2. NodeSector(r)' = 1 + (r * SectorsPerNode)
      BY <1>2, <2>2 DEF NodeSector
    <3>3. file'[1 + (r * SectorsPerNode)] = Sector(0, perVector, 1 + (r * SectorsPerNode))
          /\ DOMAIN file' = 1 .. NSectors(0)
      BY <1>2, <2>2, <3>1
    <3>4. ReadNode(r)' = file'[NodeSector(r)'][1]
      BY <1>2, <2>2 DEF ReadNode, OffsetToNode
    <3> QED
      BY <3>1, <3>2, <3>3, <3>4
  <2> QED
    BY <1>3, <2>1, <2>2
<1> QED
  BY <1>1, <1>2, <1>4

LEMMA LayoutKeeps ==
    ASSUME DiskInv, CreateDiskLayout
    PROVE  DiskInv'
<1>1. /\ stage = "indexed" /\ UNCHANGED <<ask, rows, cache>>
      /\ ask \in Setups /\ N \in Nat /\ DOMAIN rows = 0 .. N - 1
      /\ file = <<>> /\ cache = <<>>
  BY DEF CreateDiskLayout, DiskInv, RowsNumbered, Building
<1>2. N' = N /\ RowsNumbered'
  BY <1>1 DEF N, RowsNumbered
<1>3. (stage' = "threw" /\ UNCHANGED file) \/ stage' = "laid out"
  BY DEF CreateDiskLayout
<1>4. CASE stage' = "threw" /\ UNCHANGED file
  BY <1>1, <1>2, <1>4 DEF DiskInv, Building, ReadsFindTheNode
<1>5. CASE stage' = "laid out"
  <2>1. ASSUME NEW r \in DOMAIN rows'
        PROVE  NodeSector(r)' \in DOMAIN file' /\ ReadNode(r)'.coord = PlaceOnDisk(vectors, r)'
    <3>1. NodeSector(r)' \in DOMAIN file' /\ ReadNode(r)' = NodeRecord(vectors', r)
      BY <1>1, <1>5, LayoutReads
    <3>2. NodeRecord(vectors', r).coord = PlaceOnDisk(vectors', r)
      BY DEF NodeRecord
    <3>3. PlaceOnDisk(vectors, r)' = PlaceOnDisk(vectors', r)
      BY <1>1 DEF PlaceOnDisk
    <3> QED
      BY <3>1, <3>2, <3>3
  <2>2. DOMAIN cache' = {}
    BY <1>1
  <2>3. ReadsFindTheNode'
    BY <2>1, <2>2 DEF ReadsFindTheNode
  <2> QED
    BY <1>1, <1>2, <1>5, <2>3 DEF DiskInv, Building
<1> QED
  BY <1>3, <1>4, <1>5

\* Afterwards the file stays, and the cache is filled by reading from it.
LEMMA ServingKeeps ==
    ASSUME DiskInv, stage \notin Building, stage' \notin Building,
           UNCHANGED <<ask, rows, perSector, vectors, file>>,
           \A r \in DOMAIN cache' :
              (r \in DOMAIN cache /\ cache'[r] = cache[r]) \/ cache'[r] = ReadNode(r)
    PROVE  DiskInv'
<1>1. N' = N /\ RowsNumbered'
  BY DEF N, DiskInv, RowsNumbered, Building
<1>2. \A r : NodeSector(r)' = NodeSector(r) /\ ReadNode(r)' = ReadNode(r)
             /\ PlaceOnDisk(vectors, r)' = PlaceOnDisk(vectors, r)
  BY DEF NodeSector, ReadNode, OffsetToNode, PlaceOnDisk
<1>3. ReadsFindTheNode'
  BY <1>2 DEF DiskInv, ReadsFindTheNode
<1> QED
  BY <1>1, <1>3 DEF DiskInv

\* A call of a user, or of the warm-up, begins a search.
LEMMA CallBegins ==
    /\ WarmUpCall => stage = "warm-up" /\ \E c : Begin(c)
    /\ (\E c \in Searches : Call(c)) => stage = "serving" /\ \E c : Begin(c)
<1>1. ASSUME WarmUpCall PROVE stage = "warm-up" /\ \E c : Begin(c)
  <2> DEFINE drawn(label) == [place |-> Head(sampling.left), label |-> label, k |-> 1, l |-> SampleL,
                              beam |-> SampleBeam, limit |-> 1000, reorder |-> FALSE]
  <2>1. stage = "warm-up" /\ \E label \in RandomLabels : Begin(drawn(label))
    BY <1>1, Zenon DEF WarmUpCall
  <2> HIDE DEF drawn
  <2> QED
    BY <2>1, Zenon
<1>2. ASSUME NEW c \in Searches, Call(c) PROVE stage = "serving" /\ Begin(c)
  BY <1>2, Zenon DEF Call
<1> QED
  BY <1>1, <1>2, Zenon

LEMMA DiskInvInit ==
    ASSUME Init PROVE DiskInv
BY DEF Init, BuildInit, DiskInv, RowsNumbered, Building, ReadsFindTheNode

LEMMA DiskInvNext ==
    ASSUME DiskInv, [Next]_vars PROVE DiskInv'
<1>1. CASE BuildNext /\ UNCHANGED <<diskVars, warmVars, searchVars>>
  <2>1. CASE BreakUp
    <3>1. RowsNumbered' /\ stage \in Building /\ ask' = ask
      BY <2>1, BreakUpRows DEF DiskInv, BreakUp, Building
    <3> QED
      BY <1>1, <3>1, BuildingKeeps
  <2>2. CASE OneShot \/ Partition \/ BuildShard \/ StartMerge \/ MergeNode \/ EndMerge \/ RemoveTempFiles
    <3>1. stage \in Building /\ stage # "asked" /\ UNCHANGED <<ask, rows>>
      BY <2>2 DEF OneShot, Partition, BuildShard, StartMerge, MergeNode, EndMerge, RemoveTempFiles, Building
    <3>2. RowsNumbered'
      BY <3>1 DEF DiskInv, RowsNumbered, N
    <3> QED
      BY <1>1, <3>1, <3>2, BuildingKeeps
  <2> QED
    BY <1>1, <2>1, <2>2 DEF BuildNext
<1>2. CASE CreateDiskLayout
  BY <1>2, LayoutKeeps
<1>3. CASE Open \/ NoReorderData \/ Hop \/ Finish \/ FinishWarmUpCall \/ NextCall
  <2>1. stage \notin Building /\ stage' \notin Building /\ UNCHANGED <<ask, rows, perSector, vectors, file, cache>>
    <3>1. CASE Open
      BY <3>1 DEF Open, Building
    <3>2. CASE NoReorderData
      BY <3>2 DEF NoReorderData, Ended, diskVars, Building
    <3>3. CASE Hop
      BY <3>3 DEF Hop, buildVars, diskVars, Building
    <3>4. CASE Finish
      BY <3>4 DEF Finish, Ended, diskVars, Building
    <3>5. CASE FinishWarmUpCall
      BY <3>5 DEF FinishWarmUpCall, Ended, GiveBack, diskVars, Building
    <3>6. CASE NextCall
      BY <3>6 DEF NextCall, GiveBack, diskVars, Building
    <3> QED
      BY <1>3, <3>1, <3>2, <3>3, <3>4, <3>5, <3>6
  <2> QED
    BY <2>1, ServingKeeps
<1>4. CASE WarmUpCall \/ \E c \in Searches : Call(c)
  <2>1. \A c : Begin(c) => stage' = "searching" /\ UNCHANGED <<ask, rows, perSector, vectors, file, cache>>
    BY DEF Begin, diskVars
  <2>2. stage \notin Building /\ stage' \notin Building /\ UNCHANGED <<ask, rows, perSector, vectors, file, cache>>
    <3>1. CASE WarmUpCall
      <4>1. stage = "warm-up" /\ \E c : Begin(c)
        BY <3>1, CallBegins
      <4> QED
        BY <2>1, <4>1 DEF Building
    <3>2. CASE \E c \in Searches : Call(c)
      <4>1. stage = "serving" /\ \E c : Begin(c)
        BY <3>2, CallBegins
      <4> QED
        BY <2>1, <4>1 DEF Building
    <3> QED
      BY <1>4, <3>1, <3>2
  <2> QED
    BY <2>2, ServingKeeps
<1>5. CASE LoadCache
  <2>1. PICK S : cache' = [r \in S |-> ReadNode(r)]
    BY <1>5 DEF LoadCache
  <2>2. stage \notin Building /\ stage' \notin Building /\ UNCHANGED <<ask, rows, perSector, vectors, file>>
    BY <1>5 DEF LoadCache, Building
  <2> QED
    BY <2>1, <2>2, ServingKeeps
<1>6. CASE WarmUp
  <2>1. UNCHANGED cache \/ \E S : cache' = [r \in S |-> ReadNode(r)]
    BY <1>6 DEF WarmUp
  <2>2. stage \notin Building /\ stage' \notin Building /\ UNCHANGED <<ask, rows, perSector, vectors, file>>
    BY <1>6 DEF WarmUp, Building
  <2>3. \A r \in DOMAIN cache' :
           (r \in DOMAIN cache /\ cache'[r] = cache[r]) \/ cache'[r] = ReadNode(r)
    BY <2>1
  <2> QED
    BY <2>2, <2>3, ServingKeeps
<1>7. CASE EndWarmUp
  <2>1. PICK S : cache' = [r \in S |-> ReadNode(r)]
    BY <1>7 DEF EndWarmUp
  <2>2. stage \notin Building /\ stage' \notin Building /\ UNCHANGED <<ask, rows, perSector, vectors, file>>
    BY <1>7 DEF EndWarmUp, Building
  <2> QED
    BY <2>1, <2>2, ServingKeeps
<1>8. CASE Done \/ UNCHANGED vars
  <2>1. UNCHANGED <<ask, stage, rows, perSector, vectors, file, cache>>
    BY <1>8 DEF Done, vars, buildVars, diskVars
  <2>2. N' = N /\ \A r : NodeSector(r)' = NodeSector(r) /\ ReadNode(r)' = ReadNode(r)
             /\ PlaceOnDisk(vectors, r)' = PlaceOnDisk(vectors, r)
    BY <2>1 DEF N, NodeSector, ReadNode, OffsetToNode, PlaceOnDisk
  <2> QED
    BY <2>1, <2>2 DEF DiskInv, RowsNumbered, ReadsFindTheNode
<1> QED
  BY <1>1, <1>2, <1>3, <1>4, <1>5, <1>6, <1>7, <1>8 DEF Next

\* Where a search computes a node to be, in a sector shared with others or in the
\* first of its own, is that node, and the cache holds what the file does
\* (create_disk_layout of src/disk_utils.cpp, get_node_sector and offset_to_node of
\* src/pq_flash_index.cpp), for any layout and whatever fills the cache.
THEOREM ReadsFindTheNodeHolds == Spec => []ReadsFindTheNode
<1>1. Init => DiskInv
  BY DiskInvInit
<1>2. DiskInv /\ [Next]_vars => DiskInv'
  BY DiskInvNext
<1>3. DiskInv => ReadsFindTheNode
  BY DEF DiskInv
<1> QED
  BY <1>1, <1>2, <1>3, PTL DEF Spec

-----------------------------------------------------------------------------
(* Ranks, row by row.                                                      *)

LEMMA RankStep ==
    ASSUME NEW S, IsFiniteSet(S), S \subseteq Nat, NEW n \in Nat
    PROVE  Rank(n + 1, S) = Rank(n, S) + (IF n \in S THEN 1 ELSE 0)
<1> DEFINE A == {z \in S : z < n}
           B == {z \in S : z < n + 1}
<1>1. IsFiniteSet(A) /\ Cardinality(A) \in Nat
  BY RankType, FS_CardinalityType
<1>2. \A z \in S : z < n + 1 <=> z < n \/ z = n
  OBVIOUS
<1>3. CASE n \in S
  <2>1. B = A \cup {n} /\ n \notin A
    <3>1. \A z \in B : z \in A \cup {n}
      BY <1>2
    <3>2. \A z \in A \cup {n} : z \in B
      BY <1>2, <1>3
    <3>3. n \notin A
      OBVIOUS
    <3> QED
      BY <3>1, <3>2, <3>3
  <2>2. Cardinality(A \cup {n}) = Cardinality(A) + 1
    BY <1>1, <2>1, FS_AddElement
  <2> QED
    BY <1>3, <2>1, <2>2 DEF Rank
<1>4. CASE n \notin S
  <2>1. B = A
    BY <1>2, <1>4
  <2> QED
    BY <1>1, <1>4, <2>1 DEF Rank
<1> QED
  BY <1>3, <1>4

LEMMA RankEnds ==
    ASSUME NEW S, S \subseteq Nat, NEW n \in Nat, \A x \in S : x < n
    PROVE  Rank(0, S) = 0 /\ Rank(n, S) = Cardinality(S)
<1>1. {y \in S : y < 0} = {} /\ {y \in S : y < n} = S
  <2>1. \A y \in S : y \in Nat /\ ~(y < 0)
    OBVIOUS
  <2> QED
    BY <2>1
<1> QED
  BY <1>1, FS_EmptySet DEF Rank

-----------------------------------------------------------------------------
(* The rows of a shard.                                                    *)

\* What the pass over the rows has after one more of them.
Taken(got, ids, n) ==
    IF Len(got) < Len(ids) /\ ids[Len(got) + 1] = n - 1 THEN Append(got, rows[n - 1]) ELSE got

IsPass(f, ids) ==
    f[0] = <<>> /\ \A n \in 1 .. N : f[n] = Taken(f[n - 1], ids, n)

\* The pass is defined, row by row.
LEMMA PassExists ==
    ASSUME N \in Nat, NEW ids
    PROVE  \E f : IsPass(f, ids) /\ Retrieved(ids) = f[N]
<1> DEFINE Solves(f, m) ==
               f = [n \in 0 .. m |-> IF n = 0 THEN <<>> ELSE Taken(f[n - 1], ids, n)]
           Good == {m \in 0 .. N : \E f : Solves(f, m)}
           pass == CHOOSE f : Solves(f, N)
<1>1. Retrieved(ids) = pass[N]
  BY DEF Retrieved, Taken
<1>2. 0 \in Good
  <2>1. Solves([n \in 0 .. 0 |-> <<>>], 0)
    OBVIOUS
  <2>2. \E f : Solves(f, 0)
    <3> HIDE DEF Solves
    <3> QED
      BY <2>1
  <2> QED
    BY <2>2
<1>3. ASSUME NEW m \in 1 .. N, m - 1 \in Good PROVE m \in Good
  <2>1. PICK f : Solves(f, m - 1)
    BY <1>3
  <2> DEFINE h == [n \in 0 .. m |-> IF n = m THEN Taken(f[m - 1], ids, m) ELSE f[n]]
  <2>2. ASSUME NEW n \in 0 .. m PROVE h[n] = IF n = 0 THEN <<>> ELSE Taken(h[n - 1], ids, n)
    <3>1. CASE n = m
      BY <3>1
    <3>2. CASE n # m
      <4>1. n \in 0 .. m - 1 /\ h[n] = f[n]
        BY <3>2
      <4>2. f[n] = IF n = 0 THEN <<>> ELSE Taken(f[n - 1], ids, n)
        BY <2>1, <4>1
      <4>3. n # 0 => h[n - 1] = f[n - 1]
        BY <4>1
      <4> QED
        BY <4>1, <4>2, <4>3
    <3> QED
      BY <3>1, <3>2
  <2>3. h = [n \in 0 .. m |-> h[n]]
    OBVIOUS
  <2> HIDE DEF h
  <2>4. Solves(h, m)
    BY <2>2, <2>3
  <2> QED
    BY <2>4
<1>4. \E f : Solves(f, N)
  <2> HIDE DEF Good
  <2>1. 0 .. N \subseteq Good
    BY <1>2, <1>3, Rounds
  <2>2. N \in Good
    BY <2>1
  <2> QED
    BY <2>2 DEF Good
<1>5. Solves(pass, N)
  <2> HIDE DEF Solves
  <2> QED
    BY <1>4
<1> HIDE DEF pass
<1>6. pass[0] = <<>> /\ \A n \in 1 .. N : pass[n] = Taken(pass[n - 1], ids, n)
  <2>1. 0 \in 0 .. N /\ \A n \in 1 .. N : n \in 0 .. N /\ n # 0
    OBVIOUS
  <2> QED
    BY <1>5, <2>1
<1> QED
  BY <1>1, <1>6 DEF IsPass

\* One pass over the rows finds all of the shard's, because its ids go up.
LEMMA RetrievedRows ==
    ASSUME N \in Nat, NEW S, S \subseteq 0 .. N - 1
    PROVE  Retrieved(RankOrder(S)) = [i \in 1 .. Cardinality(S) |-> rows[RankOrder(S)[i]]]
<1> DEFINE ids == RankOrder(S)
           all == Cardinality(S)
           first(k) == [i \in 1 .. k |-> rows[ids[i]]]
<1>1. IsFiniteSet(S) /\ S \subseteq Nat
  <2>1. S \in SUBSET (0 .. N - 1) /\ IsFiniteSet(0 .. N - 1) /\ 0 .. N - 1 \subseteq Nat
    BY FS_Interval
  <2> QED
    BY <2>1, FS_Subset
<1>2. /\ all \in Nat /\ ids \in [1 .. all -> S]
      /\ \A x \in S : Rank(x, S) + 1 \in 1 .. all /\ ids[Rank(x, S) + 1] = x
  BY <1>1, RankOrderType
<1>3. Len(ids) = all
  BY <1>2
<1>4. PICK f : IsPass(f, ids) /\ Retrieved(ids) = f[N]
  BY PassExists
<1>5. \A n \in 0 .. N : Rank(n, S) \in Nat /\ Rank(n, S) <= all
  BY <1>1, RankType
<1>6. Rank(0, S) = 0 /\ Rank(N, S) = all
  <2>1. \A x \in S : x < N
    OBVIOUS
  <2> QED
    BY <1>1, <2>1, RankEnds
<1> HIDE DEF ids, all
<1> DEFINE Good == {n \in 0 .. N : f[n] = first(Rank(n, S))}
<1>7. 0 \in Good
  BY <1>4, <1>6 DEF IsPass
<1>8. ASSUME NEW n \in 1 .. N, n - 1 \in Good PROVE n \in Good
  <2> DEFINE k == Rank(n - 1, S)
  <2>1. f[n - 1] = first(k) /\ k \in Nat /\ k <= all /\ n - 1 \in Nat
    BY <1>5, <1>8
  <2>2. Rank(n, S) = k + (IF n - 1 \in S THEN 1 ELSE 0)
    <3>1. Rank((n - 1) + 1, S) = k + (IF n - 1 \in S THEN 1 ELSE 0)
      BY <1>1, <2>1, RankStep
    <3>2. (n - 1) + 1 = n
      OBVIOUS
    <3> QED
      BY <3>1, <3>2
  <2>3. n - 1 \in S => k + 1 \in 1 .. all /\ ids[k + 1] = n - 1
    BY <1>2
  <2> HIDE DEF k
  <2>4. Len(first(k)) = k
    BY <2>1
  <2>5. f[n] = Taken(first(k), ids, n)
    BY <1>4, <2>1 DEF IsPass
  <2>6. CASE n - 1 \in S
    <3>1. k < Len(ids) /\ ids[k + 1] = n - 1
      BY <1>3, <2>1, <2>3, <2>6, <1>2
    <3>2. f[n] = Append(first(k), rows[n - 1])
      BY <2>4, <2>5, <3>1 DEF Taken
    <3>3. Append(first(k), rows[ids[k + 1]]) = first(k + 1)
      BY <2>1
    <3>4. f[n] = first(k + 1)
      <4> HIDE DEF first
      <4> QED
        BY <3>1, <3>2, <3>3
    <3> QED
      BY <2>2, <2>6, <3>4
  <2>7. CASE n - 1 \notin S
    <3>1. k < Len(ids) => ids[k + 1] # n - 1
      <4>1. k < all => k + 1 \in 1 .. all
        BY <1>2, <2>1
      <4> QED
        BY <1>2, <1>3, <2>7, <4>1
    <3>2. f[n] = first(k)
      BY <2>4, <2>5, <3>1 DEF Taken
    <3>3. Rank(n, S) = k
      BY <2>1, <2>2, <2>7
    <3> QED
      BY <3>2, <3>3
  <2> QED
    BY <2>6, <2>7
<1>9. 0 .. N \subseteq Good
  <2> HIDE DEF Good
  <2> QED
    BY <1>7, <1>8, Rounds
<1>10. f[N] = first(all)
  BY <1>6, <1>9
<1> QED
  BY <1>4, <1>10 DEF ids, all

-----------------------------------------------------------------------------
(* What the shards are.                                                    *)

ShardData(s) == [i \in Ids(Len(idmaps[s])) |-> rows[idmaps[s][i + 1]]]

ShardBuilt(s) ==
    /\ shards[s].entry \in Ids(Len(idmaps[s]))
    /\ shards[s].lists \in [Ids(Len(idmaps[s])) -> Seq(Ids(Len(idmaps[s])))]
    /\ shards[s].starts \in StartChoices(ShardData(s))

\* The shards list their rows in order, and every row is in one.
IdMapsRight ==
    /\ DOMAIN idmaps = 1 .. parts
    /\ \A s \in 1 .. parts : \E S \in SUBSET DOMAIN rows : idmaps[s] = RankOrder(S)
    /\ \A r \in DOMAIN rows : \E s \in 1 .. parts : r \in ToSet(idmaps[s])

ShardsRight ==
    /\ \E T : shards \in Seq(T)
    /\ Len(shards) <= parts
    /\ \A s \in 1 .. Len(shards) : ShardBuilt(s)

ShardInv ==
    /\ parts \in Nat \ {0}
    /\ DOMAIN index = {"lists", "entry", "size"}
    /\ stage \in {"shards", "merge", "merged"} => IdMapsRight /\ ShardsRight
    /\ stage \in {"asked", "rows"} => shards = <<>>
    /\ stage \in {"merge", "merged"} => Len(shards) = parts

\* Where searches may start.
StartsRight ==
    /\ DOMAIN starts = LabelsIn(rows)
    /\ \A l \in DOMAIN starts :
          /\ starts[l] # <<>>
          /\ \A r \in ToSet(starts[l]) : r \in DOMAIN rows /\ HasLabel(rows[r].labels, l)
    /\ ToSet(medoids) \cup {index.entry} \subseteq DOMAIN rows

MedoidsInShards == \A s \in DOMAIN idmaps : Contains(idmaps[s], medoids[s])

EntriesInv ==
    /\ stage \in {"merge", "merged", "indexed"} => StartsRight
    /\ stage \in {"merge", "merged"} => MedoidsInShards

BuildInv == RowsNumbered /\ ShardInv /\ EntriesInv

\* The rows of a shard, by its file of ids.
LEMMA IdMapRows ==
    ASSUME RowsNumbered, stage # "asked", IdMapsRight, NEW s \in 1 .. parts
    PROVE  /\ ToSet(idmaps[s]) \subseteq DOMAIN rows /\ IsFiniteSet(ToSet(idmaps[s]))
           /\ ToSet(idmaps[s]) \subseteq Nat
           /\ idmaps[s] = RankOrder(ToSet(idmaps[s]))
           /\ idmaps[s] \in Seq(DOMAIN rows) /\ Len(idmaps[s]) = Cardinality(ToSet(idmaps[s]))
<1>1. PICK S \in SUBSET DOMAIN rows : idmaps[s] = RankOrder(S)
  BY DEF IdMapsRight
<1>2. N \in Nat /\ DOMAIN rows = 0 .. N - 1
  BY DEF RowsNumbered
<1>3. IsFiniteSet(S) /\ S \subseteq Nat
  <2>1. S \in SUBSET (0 .. N - 1) /\ IsFiniteSet(0 .. N - 1) /\ 0 .. N - 1 \subseteq Nat
    BY <1>1, <1>2, FS_Interval
  <2> QED
    BY <2>1, FS_Subset
<1>4. /\ Cardinality(S) \in Nat /\ RankOrder(S) \in [1 .. Cardinality(S) -> S]
      /\ \A x \in S : \E i \in 1 .. Cardinality(S) : RankOrder(S)[i] = x
  BY <1>3, RankOrderType
<1>5. ToSet(RankOrder(S)) = S
  BY <1>4 DEF ToSet
<1>6. RankOrder(S) \in Seq(DOMAIN rows) /\ Len(RankOrder(S)) = Cardinality(S)
  <2> DEFINE k == Cardinality(S)
             f == RankOrder(S)
  <2> HIDE DEF k, f
  <2>1. k \in Nat /\ f \in [1 .. k -> DOMAIN rows]
    BY <1>1, <1>4 DEF k, f
  <2>2. f \in Seq(DOMAIN rows) /\ Len(f) = k
    BY <2>1
  <2> QED
    BY <2>2 DEF k, f
<1> QED
  BY <1>1, <1>3, <1>5, <1>6

LEMMA ShardInitially ==
    Init => BuildInv
BY DEF Init, BuildInit, BuildInv, RowsNumbered, ShardInv, EntriesInv, None

\* The steps that leave the shards and the entries as they are.
LEMMA OthersKeepShards ==
    ASSUME BuildInv, RowsNumbered',
           UNCHANGED <<parts, rows, idmaps, shards, medoids, starts>>,
           index'.entry = index.entry, DOMAIN index' = {"lists", "entry", "size"},
           stage' \in {"shards", "merge", "merged", "indexed"} =>
               stage' = stage \/ (stage = "merge" /\ stage' = "merged"),
           stage' \notin {"asked", "rows"}
    PROVE  BuildInv'
<1>1. UNCHANGED <<IdMapsRight, ShardsRight, MedoidsInShards>>
  BY DEF IdMapsRight, ShardsRight, ShardBuilt, ShardData, StartChoices, LabelsIn, HasLabel, MedoidsInShards
<1>2. UNCHANGED StartsRight
  BY DEF StartsRight, LabelsIn, HasLabel
<1>3. ShardInv'
  BY <1>1 DEF BuildInv, ShardInv
<1>4. EntriesInv'
  BY <1>1, <1>2 DEF BuildInv, EntriesInv
<1> QED
  BY <1>3, <1>4 DEF BuildInv

LEMMA OneShotKeeps ==
    ASSUME BuildInv, OneShot PROVE BuildInv'
<1>1. /\ stage = "rows" /\ stage' = "indexed" /\ UNCHANGED <<rows, parts, idmaps, shards>>
      /\ medoids' = <<>> /\ N \in Nat /\ DOMAIN rows = 0 .. N - 1
  BY DEF OneShot, BuildInv, RowsNumbered
<1>2. PICK g \in GraphsOf(N), f \in StartChoices(rows) :
         /\ index' = [lists |-> g.lists, entry |-> g.entry, size |-> SizeOf(g.lists)]
         /\ starts' = [l \in DOMAIN f |-> <<f[l]>>]
  BY DEF OneShot
<1>3. g.entry \in DOMAIN rows
  BY <1>1 DEF GraphsOf, Ids
<1>4. /\ f \in [LabelsIn(rows) -> DOMAIN rows]
      /\ \A l \in DOMAIN f : HasLabel(rows[f[l]].labels, l)
  BY DEF StartChoices
<1>5. index'.entry = g.entry /\ DOMAIN index' = {"lists", "entry", "size"}
  BY <1>2
<1>6. DOMAIN starts' = LabelsIn(rows) /\ \A l \in LabelsIn(rows) : starts'[l] = <<f[l]>>
  BY <1>2, <1>4
<1>7. StartsRight'
  <2>1. LabelsIn(rows)' = LabelsIn(rows)
    BY <1>1 DEF LabelsIn
  <2>2. ASSUME NEW l \in DOMAIN starts'
        PROVE  /\ starts'[l] # <<>>
               /\ \A r \in ToSet(starts'[l]) : r \in DOMAIN rows' /\ HasLabel(rows'[r].labels, l)
    <3>1. starts'[l] = <<f[l]>> /\ f[l] \in DOMAIN rows /\ HasLabel(rows[f[l]].labels, l)
      BY <1>4, <1>6
    <3>2. ToSet(<<f[l]>>) = {f[l]}
      BY DEF ToSet
    <3> QED
      BY <1>1, <3>1, <3>2
  <2>3. ToSet(medoids') = {}
    BY <1>1 DEF ToSet
  <2>4. ToSet(medoids') \cup {index'.entry} \subseteq DOMAIN rows'
    BY <1>1, <1>3, <1>5, <2>3
  <2> QED
    BY <1>6, <2>1, <2>2, <2>4 DEF StartsRight, HasLabel
<1>8. RowsNumbered'
  BY <1>1 DEF RowsNumbered, N
<1>9. ShardInv'
  BY <1>1, <1>5 DEF BuildInv, ShardInv
<1>10. EntriesInv'
  BY <1>1, <1>7 DEF EntriesInv
<1> QED
  BY <1>8, <1>9, <1>10 DEF BuildInv

\* Every row is in the shards of its nearest centres.
LEMMA PartitionKeeps ==
    ASSUME BuildInv, Partition PROVE BuildInv'
<1>1. /\ stage = "rows" /\ UNCHANGED <<rows, shards, index, medoids, starts>>
      /\ shards = <<>> /\ parts \in Nat \ {0} /\ DOMAIN index = {"lists", "entry", "size"}
      /\ RowsNumbered
  BY DEF Partition, BuildInv, ShardInv
<1>2. PICK near \in NearestCentres :
          \/ /\ idmaps' = [s \in 1 .. parts |-> IdsOf(near, s - 1)]
             /\ stage' = "shards" /\ parts' = parts
          \/ parts' = parts + 2 /\ stage' = stage
  BY DEF Partition
<1>3. RowsNumbered'
  BY <1>1, <1>2 DEF RowsNumbered, N
<1>4. CASE parts' = parts + 2 /\ stage' = stage
  <2>1. parts' \in Nat \ {0}
    BY <1>1, <1>4
  <2>2. ShardInv'
    BY <1>1, <1>4, <2>1 DEF ShardInv
  <2>3. EntriesInv'
    BY <1>1, <1>4 DEF EntriesInv
  <2> QED
    BY <1>3, <2>2, <2>3 DEF BuildInv
<1>5. CASE /\ idmaps' = [s \in 1 .. parts |-> IdsOf(near, s - 1)]
           /\ stage' = "shards" /\ parts' = parts
  <2>1. near \in [DOMAIN rows -> kSubset(KBase, Ids(parts))]
    BY DEF NearestCentres
  <2>2. ASSUME NEW r \in DOMAIN rows PROVE near[r] \subseteq Ids(parts) /\ near[r] # {}
    <3>1. near[r] \in SUBSET Ids(parts) /\ Cardinality(near[r]) = KBase
      BY <2>1 DEF kSubset
    <3> QED
      BY <3>1, ShardAssumption, FS_EmptySet
  <2>3. \A s \in 1 .. parts : idmaps'[s] = RankOrder({r \in DOMAIN rows : s - 1 \in near[r]})
    BY <1>5, <2>1 DEF IdsOf
  <2>4. ASSUME NEW r \in DOMAIN rows PROVE \E s \in 1 .. parts : r \in ToSet(idmaps'[s])
    <3>1. PICK c \in near[r] : c \in 0 .. parts - 1
      BY <2>2 DEF Ids
    <3>2. c + 1 \in 1 .. parts /\ (c + 1) - 1 = c
      BY <1>1, <3>1
    <3> DEFINE S == {x \in DOMAIN rows : (c + 1) - 1 \in near[x]}
    <3>3. r \in S /\ idmaps'[c + 1] = RankOrder(S)
      BY <2>3, <3>1, <3>2
    <3> HIDE DEF S
    <3>4. S \in SUBSET (0 .. N - 1) /\ IsFiniteSet(0 .. N - 1) /\ 0 .. N - 1 \subseteq Nat
      <4>1. N \in Nat /\ DOMAIN rows = 0 .. N - 1
        BY <1>1 DEF RowsNumbered
      <4>2. S \in SUBSET DOMAIN rows
        BY DEF S
      <4>3. IsFiniteSet(0 .. N - 1) /\ 0 .. N - 1 \subseteq Nat
        BY <4>1, FS_Interval
      <4> QED
        BY <4>1, <4>2, <4>3
    <3>5. IsFiniteSet(S) /\ S \subseteq Nat
      BY <3>4, FS_Subset
    <3>6. /\ RankOrder(S) \in [1 .. Cardinality(S) -> S]
          /\ \E i \in 1 .. Cardinality(S) : RankOrder(S)[i] = r
      BY <3>3, <3>5, RankOrderType
    <3>7. r \in ToSet(RankOrder(S))
      BY <3>6 DEF ToSet
    <3> QED
      BY <3>2, <3>3, <3>7
  <2>5. IdMapsRight'
    <3>1. DOMAIN idmaps' = 1 .. parts'
      BY <1>5
    <3>2. \A s \in 1 .. parts' : \E S \in SUBSET DOMAIN rows' : idmaps'[s] = RankOrder(S)
      BY <1>1, <1>5, <2>3
    <3> QED
      BY <1>1, <1>5, <2>4, <3>1, <3>2 DEF IdMapsRight
  <2>6. ShardsRight'
    <3>1. shards' = <<>> /\ <<>> \in Seq({}) /\ Len(<<>>) = 0
      BY <1>1
    <3> QED
      BY <1>1, <1>5, <3>1 DEF ShardsRight
  <2>7. ShardInv'
    BY <1>1, <1>5, <2>5, <2>6 DEF ShardInv
  <2>8. EntriesInv'
    BY <1>5 DEF EntriesInv
  <2> QED
    BY <1>3, <2>7, <2>8 DEF BuildInv
<1> QED
  BY <1>2, <1>4, <1>5

\* A shard's data are its rows, so its graph and starts are of them.
LEMMA BuildShardKeeps ==
    ASSUME BuildInv, BuildShard PROVE BuildInv'
<1> DEFINE t == Len(shards) + 1
           ids == idmaps[t]
           data == FromSeq(Retrieved(ids))
           n == Cardinality(DOMAIN data)
<1>1. /\ stage = "shards" /\ Len(shards) < parts
      /\ UNCHANGED <<rows, parts, idmaps, index, medoids, starts>>
      /\ parts \in Nat \ {0} /\ DOMAIN index = {"lists", "entry", "size"}
      /\ IdMapsRight /\ ShardsRight /\ RowsNumbered /\ N \in Nat /\ DOMAIN rows = 0 .. N - 1
  BY DEF BuildShard, BuildInv, ShardInv, RowsNumbered
<1>2. RowsNumbered'
  BY <1>1 DEF BuildShard, RowsNumbered, N
<1>3. \/ stage' = "threw"
      \/ \E g \in GraphsOf(n), f \in StartChoices(data) :
            /\ shards' = Append(shards, [data |-> data, lists |-> g.lists, entry |-> g.entry, starts |-> f])
            /\ stage' = stage
  BY DEF BuildShard
<1>4. CASE stage' = "threw"
  BY <1>1, <1>2, <1>4 DEF BuildInv, ShardInv, EntriesInv
<1>5. ASSUME NEW g \in GraphsOf(n), NEW f \in StartChoices(data),
             shards' = Append(shards, [data |-> data, lists |-> g.lists, entry |-> g.entry, starts |-> f]),
             stage' = stage
      PROVE  BuildInv'
  <2>1. PICK T : shards \in Seq(T)
    BY <1>1 DEF ShardsRight
  <2>2. t \in 1 .. parts /\ Len(shards) \in Nat
    BY <1>1, <2>1
  <2>3. /\ ToSet(ids) \subseteq 0 .. N - 1 /\ ids = RankOrder(ToSet(ids))
        /\ Len(ids) = Cardinality(ToSet(ids)) /\ ids \in Seq(DOMAIN rows)
    BY <1>1, <2>2, IdMapRows
  <2> DEFINE k == Len(ids)
  <2>4. Retrieved(ids) = [i \in 1 .. k |-> rows[ids[i]]]
    <3> DEFINE S == ToSet(ids)
    <3>1. S \subseteq 0 .. N - 1 /\ ids = RankOrder(S) /\ k = Cardinality(S)
      BY <2>3
    <3> HIDE DEF S, ids, k
    <3>2. Retrieved(RankOrder(S)) = [i \in 1 .. Cardinality(S) |-> rows[RankOrder(S)[i]]]
      BY <1>1, <3>1, RetrievedRows
    <3> QED
      BY <3>1, <3>2
  <2>5. k \in Nat
    BY <2>3
  <2>6. data = ShardData(t) /\ DOMAIN data = Ids(k) /\ n = k
    <3> DEFINE got == [i \in 1 .. k |-> rows[ids[i]]]
    <3>1. Len(got) = k /\ \A i \in 0 .. k - 1 : got[i + 1] = rows[ids[i + 1]]
      <4> HIDE DEF ids, k
      <4>1. k \in Nat
        BY <2>5
      <4> QED
        BY <4>1
    <3>2. data = FromSeq(got)
      BY <2>4
    <3> HIDE DEF got, data
    <3>3. data = [i \in Ids(k) |-> rows[ids[i + 1]]]
      BY <3>1, <3>2 DEF FromSeq, Ids
    <3>4. Cardinality(0 .. k - 1) = k
      <4> HIDE DEF k
      <4>1. k \in Nat
        BY <2>5
      <4> QED
        BY <4>1, FS_Interval
    <3> QED
      BY <3>3, <3>4 DEF ShardData, Ids
  <2> HIDE DEF data, n, k, ids
  <2> DEFINE shard == [data |-> data, lists |-> g.lists, entry |-> g.entry, starts |-> f]
  <2>7. g.entry \in Ids(k) /\ g.lists \in [Ids(k) -> Seq(Ids(k))]
    BY <2>6 DEF GraphsOf
  <2>8. shard.entry = g.entry /\ shard.lists = g.lists /\ shard.starts = f
    OBVIOUS
  <2>9. shards' = Append(shards, shard)
    BY <1>5
  <2> HIDE DEF shard, t
  <2>10. /\ shards' \in Seq(T \cup {shard}) /\ Len(shards') = Len(shards) + 1
         /\ shards'[Len(shards) + 1] = shard
         /\ \A s \in 1 .. Len(shards) : shards'[s] = shards[s]
    BY <2>1, <2>9
  <2>11. ASSUME NEW s \in 1 .. Len(shards') PROVE ShardBuilt(s)'
    <3>1. ShardData(s)' = ShardData(s)
      BY <1>1 DEF ShardData
    <3>2. CASE s = t
      <4>1. shards'[s] = shard /\ idmaps'[s] = idmaps[t] /\ Len(idmaps[t]) = k
        BY <1>1, <2>10, <3>2 DEF t, k, ids
      <4>2. shards'[s].starts \in StartChoices(ShardData(s)')
        BY <1>5, <2>6, <2>8, <3>1, <3>2, <4>1
      <4>3. shards'[s].entry \in Ids(Len(idmaps'[s]))
        BY <2>7, <2>8, <4>1
      <4>4. shards'[s].lists \in [Ids(Len(idmaps'[s])) -> Seq(Ids(Len(idmaps'[s])))]
        BY <2>7, <2>8, <4>1
      <4> QED
        BY <4>2, <4>3, <4>4 DEF ShardBuilt, StartChoices, LabelsIn, HasLabel
    <3>3. CASE s # t
      <4>1. s \in 1 .. Len(shards) /\ shards'[s] = shards[s]
        BY <2>2, <2>10, <3>3 DEF t
      <4>2. ShardBuilt(s)
        BY <1>1, <4>1 DEF ShardsRight
      <4>3. idmaps'[s] = idmaps[s]
        BY <1>1
      <4> QED
        BY <3>1, <4>1, <4>2, <4>3 DEF ShardBuilt, StartChoices, LabelsIn, HasLabel
    <3> QED
      BY <3>2, <3>3
  <2>12. ShardsRight'
    BY <1>1, <2>2, <2>10, <2>11 DEF ShardsRight
  <2>13. IdMapsRight'
    BY <1>1 DEF IdMapsRight
  <2>14. ShardInv'
    BY <1>1, <1>5, <2>12, <2>13 DEF ShardInv
  <2>15. EntriesInv'
    BY <1>1, <1>5 DEF EntriesInv
  <2> QED
    BY <1>2, <2>14, <2>15 DEF BuildInv
<1> QED
  BY <1>3, <1>4, <1>5

\* Renaming gives a shard's start for a label, and its entry, as rows of the shard.
LEMMA ShardStarts ==
    ASSUME RowsNumbered, stage # "asked", IdMapsRight, NEW s \in 1 .. parts, ShardBuilt(s)
    PROVE  /\ Renamed(s, shards[s].entry) \in DOMAIN rows
           /\ Contains(idmaps[s], Renamed(s, shards[s].entry))
           /\ DOMAIN shards[s].starts = LabelsIn(ShardData(s))
           /\ \A l \in DOMAIN shards[s].starts :
                 /\ Renamed(s, shards[s].starts[l]) \in DOMAIN rows
                 /\ HasLabel(rows[Renamed(s, shards[s].starts[l])].labels, l)
<1> DEFINE k == Len(idmaps[s])
           f == shards[s].starts
           data == ShardData(s)
           e == shards[s].entry
<1>1. idmaps[s] \in Seq(DOMAIN rows)
  BY IdMapRows
<1>2. k \in Nat /\ \A i \in 0 .. k - 1 : i + 1 \in 1 .. k /\ idmaps[s][i + 1] \in DOMAIN rows
  BY <1>1
<1>3. data = [i \in 0 .. k - 1 |-> rows[idmaps[s][i + 1]]]
  BY DEF ShardData, Ids
<1>4. e \in 0 .. k - 1
  BY DEF ShardBuilt, Ids
<1>5. f \in [LabelsIn(data) -> DOMAIN data] /\ \A l \in DOMAIN f : HasLabel(data[f[l]].labels, l)
  BY DEF ShardBuilt, StartChoices
<1> HIDE DEF k, f, data, e
<1>6. Renamed(s, e) \in DOMAIN rows /\ Contains(idmaps[s], Renamed(s, e))
  BY <1>2, <1>4 DEF Renamed, Contains, k
<1>7. ASSUME NEW l \in DOMAIN f
      PROVE  Renamed(s, f[l]) \in DOMAIN rows /\ HasLabel(rows[Renamed(s, f[l])].labels, l)
  <2>1. f[l] \in 0 .. k - 1 /\ data[f[l]] = rows[idmaps[s][f[l] + 1]]
    BY <1>3, <1>5
  <2> QED
    BY <1>2, <1>5, <2>1 DEF Renamed
<1> QED
  BY <1>5, <1>6, <1>7 DEF f, data, e

\* The labels of all shards are those of all rows.
LEMMA ShardLabels ==
    ASSUME RowsNumbered, stage # "asked", IdMapsRight, \A s \in 1 .. parts : ShardBuilt(s)
    PROVE  UNION {DOMAIN shards[s].starts : s \in 1 .. parts} = LabelsIn(rows)
<1>1. \A s \in 1 .. parts : DOMAIN shards[s].starts = LabelsIn(ShardData(s))
  BY ShardStarts
<1>2. ASSUME NEW s \in 1 .. parts, NEW l \in LabelsIn(ShardData(s)) PROVE l \in LabelsIn(rows)
  <2>1. idmaps[s] \in Seq(DOMAIN rows)
    BY IdMapRows
  <2>2. PICK i \in Ids(Len(idmaps[s])) : l \in ToSet(rows[idmaps[s][i + 1]].labels)
    BY DEF LabelsIn, ShardData
  <2>3. idmaps[s][i + 1] \in DOMAIN rows
    BY <2>1 DEF Ids
  <2> QED
    BY <2>2, <2>3 DEF LabelsIn
<1>3. ASSUME NEW l \in LabelsIn(rows) PROVE \E s \in 1 .. parts : l \in LabelsIn(ShardData(s))
  <2>1. PICK r \in DOMAIN rows : l \in ToSet(rows[r].labels)
    BY DEF LabelsIn
  <2>2. PICK s \in 1 .. parts : r \in ToSet(idmaps[s])
    BY DEF IdMapsRight
  <2>3. idmaps[s] \in Seq(DOMAIN rows)
    BY IdMapRows
  <2>4. PICK i \in 1 .. Len(idmaps[s]) : idmaps[s][i] = r
    BY <2>2, <2>3 DEF ToSet
  <2>5. i - 1 \in Ids(Len(idmaps[s])) /\ (i - 1) + 1 = i
    BY <2>3 DEF Ids
  <2>6. i - 1 \in DOMAIN ShardData(s) /\ ShardData(s)[i - 1] = rows[r]
    BY <2>4, <2>5 DEF ShardData
  <2> QED
    BY <2>1, <2>6 DEF LabelsIn
<1> QED
  BY <1>1, <1>2, <1>3

LEMMA StartMergeKeeps ==
    ASSUME BuildInv, StartMerge PROVE BuildInv'
<1> DEFINE Having(l) == {s \in 1 .. parts : l \in DOMAIN shards[s].starts}
           list(l) == [i \in DOMAIN RankOrder(Having(l)) |->
                         Renamed(RankOrder(Having(l))[i], shards[RankOrder(Having(l))[i]].starts[l])]
<1>1. /\ stage = "shards" /\ stage' = "merge" /\ Len(shards) = parts
      /\ UNCHANGED <<rows, parts, idmaps, shards>>
      /\ parts \in Nat \ {0} /\ IdMapsRight /\ ShardsRight /\ RowsNumbered
  BY DEF StartMerge, BuildInv, ShardInv
<1>2. DOMAIN shards = 1 .. parts
  BY <1>1 DEF ShardsRight
<1>3. /\ starts' = [l \in UNION {DOMAIN shards[s].starts : s \in 1 .. parts} |-> list(l)]
      /\ medoids' = [s \in 1 .. parts |-> Renamed(s, shards[s].entry)]
      /\ index' = [None EXCEPT !.entry = Last(medoids')]
  BY <1>2 DEF StartMerge
<1>4. \A s \in 1 .. parts : ShardBuilt(s)
  BY <1>1 DEF ShardsRight
<1>5. UNION {DOMAIN shards[s].starts : s \in 1 .. parts} = LabelsIn(rows)
  BY <1>1, <1>4, ShardLabels
<1>6. \A s \in 1 .. parts :
         /\ Renamed(s, shards[s].entry) \in DOMAIN rows
         /\ Contains(idmaps[s], Renamed(s, shards[s].entry))
         /\ \A l \in DOMAIN shards[s].starts :
               /\ Renamed(s, shards[s].starts[l]) \in DOMAIN rows
               /\ HasLabel(rows[Renamed(s, shards[s].starts[l])].labels, l)
  BY <1>1, <1>4, ShardStarts
<1>7. DOMAIN starts' = LabelsIn(rows) /\ \A l \in LabelsIn(rows) : starts'[l] = list(l)
  <2> HIDE DEF list
  <2> QED
    BY <1>3, <1>5
<1>8. ASSUME NEW l \in LabelsIn(rows)
      PROVE  /\ list(l) # <<>>
             /\ \A r \in ToSet(list(l)) : r \in DOMAIN rows /\ HasLabel(rows[r].labels, l)
  <2> DEFINE S == Having(l)
             order == RankOrder(S)
  <2>1. S # {} /\ S \in SUBSET (1 .. parts)
    BY <1>5
  <2>2. \A s \in S : Renamed(s, shards[s].starts[l]) \in DOMAIN rows
                     /\ HasLabel(rows[Renamed(s, shards[s].starts[l])].labels, l)
    BY <1>6
  <2> HIDE DEF S
  <2>3. IsFiniteSet(S) /\ S \subseteq Nat
    <3>1. IsFiniteSet(1 .. parts) /\ 1 .. parts \subseteq Nat
      BY <1>1, FS_Interval
    <3> QED
      BY <2>1, <3>1, FS_Subset
  <2>4. /\ order \in [1 .. Cardinality(S) -> S]
        /\ \A x \in S : Rank(x, S) + 1 \in 1 .. Cardinality(S)
    BY <2>3, RankOrderType
  <2>5. DOMAIN order # {} /\ \A i \in DOMAIN order : order[i] \in S
    BY <2>1, <2>4
  <2>6. list(l) = [i \in DOMAIN order |-> Renamed(order[i], shards[order[i]].starts[l])]
    BY DEF S
  <2> HIDE DEF order, list
  <2>7. list(l) # <<>>
    BY <2>5, <2>6
  <2>8. \A r \in ToSet(list(l)) : \E s \in S : r = Renamed(s, shards[s].starts[l])
    BY <2>5, <2>6 DEF ToSet
  <2> QED
    BY <2>2, <2>7, <2>8
<1>9. medoids' \in Seq(DOMAIN rows) /\ Len(medoids') = parts
  BY <1>1, <1>3, <1>6
<1>10. ToSet(medoids') \subseteq DOMAIN rows /\ Last(medoids') \in DOMAIN rows
  BY <1>1, <1>9 DEF ToSet, Last
<1>11. index'.entry = Last(medoids') /\ DOMAIN index' = {"lists", "entry", "size"}
  BY <1>3 DEF None
<1>12. MedoidsInShards'
  BY <1>1, <1>3, <1>6 DEF MedoidsInShards, IdMapsRight
<1>13. StartsRight'
  <2> HIDE DEF list
  <2>1. LabelsIn(rows)' = LabelsIn(rows)
    BY <1>1 DEF LabelsIn
  <2>2. \A l \in DOMAIN starts' :
          /\ starts'[l] # <<>>
          /\ \A r \in ToSet(starts'[l]) : r \in DOMAIN rows' /\ HasLabel(rows'[r].labels, l)
    BY <1>1, <1>7, <1>8
  <2>3. ToSet(medoids') \cup {index'.entry} \subseteq DOMAIN rows'
    BY <1>1, <1>10, <1>11
  <2> QED
    BY <1>7, <2>1, <2>2, <2>3 DEF StartsRight, HasLabel
<1>14. RowsNumbered'
  BY <1>1 DEF RowsNumbered, N
<1>15. UNCHANGED <<IdMapsRight, ShardsRight>>
  <2>1. UNCHANGED <<rows, parts, idmaps, shards>>
    BY <1>1
  <2> QED
    BY <2>1 DEF IdMapsRight, ShardsRight, ShardBuilt, ShardData, StartChoices, LabelsIn, HasLabel
<1>16. ShardInv'
  BY <1>1, <1>11, <1>15 DEF ShardInv
<1>17. EntriesInv'
  BY <1>12, <1>13 DEF EntriesInv
<1> QED
  BY <1>14, <1>16, <1>17 DEF BuildInv

\* What the temporary files were is not needed any more.
LEMMA RemoveTempFilesKeeps ==
    ASSUME BuildInv, RemoveTempFiles PROVE BuildInv'
<1>1. /\ stage = "merged" /\ stage' = "indexed"
      /\ UNCHANGED <<rows, parts, index, medoids, starts>>
  BY DEF RemoveTempFiles
<1>2. UNCHANGED StartsRight /\ RowsNumbered'
  BY <1>1 DEF StartsRight, LabelsIn, HasLabel, BuildInv, RowsNumbered, N
<1> QED
  BY <1>1, <1>2 DEF BuildInv, ShardInv, EntriesInv

LEMMA BuildInvNext ==
    ASSUME DiskInv, BuildInv, [Next]_vars PROVE BuildInv'
<1>1. RowsNumbered'
  BY DiskInvNext DEF DiskInv
<1>2. CASE BuildNext /\ UNCHANGED <<diskVars, warmVars, searchVars>>
  <2>1. CASE BreakUp
    <3>1. /\ stage = "asked" /\ stage' = "rows"
          /\ UNCHANGED <<parts, idmaps, shards, index, medoids, starts>>
      BY <2>1 DEF BreakUp
    <3> QED
      BY <3>1, <1>1 DEF BuildInv, ShardInv, EntriesInv
  <2>2. CASE MergeNode
    <3>1. /\ UNCHANGED <<parts, rows, idmaps, shards, medoids, starts>>
          /\ stage = "merge" /\ stage' = "merge" /\ index' = index
      BY <2>2 DEF MergeNode
    <3>2. index'.entry = index.entry /\ DOMAIN index' = {"lists", "entry", "size"}
      BY <3>1 DEF BuildInv, ShardInv
    <3> QED
      BY <3>1, <3>2, <1>1, OthersKeepShards
  <2>3. CASE EndMerge
    <3>1. /\ stage = "merge" /\ stage' = "merged"
          /\ UNCHANGED <<parts, rows, idmaps, shards, medoids, starts>>
          /\ \E lists, size : index' = [index EXCEPT !.lists = lists, !.size = size]
      BY <2>3 DEF EndMerge
    <3>2. DOMAIN index = {"lists", "entry", "size"}
      BY DEF BuildInv, ShardInv
    <3>3. index'.entry = index.entry /\ DOMAIN index' = {"lists", "entry", "size"}
      BY <3>1, <3>2
    <3> QED
      BY <3>1, <3>3, <1>1, OthersKeepShards
  <2> QED
    BY <1>2, <2>1, <2>2, <2>3, OneShotKeeps, PartitionKeeps, BuildShardKeeps, StartMergeKeeps,
       RemoveTempFilesKeeps DEF BuildNext
<1>3. CASE Done \/ UNCHANGED vars
  <2>1. UNCHANGED <<stage, parts, rows, idmaps, shards, index, medoids, starts>>
    BY <1>3 DEF Done, vars, buildVars
  <2>2. DOMAIN index' = {"lists", "entry", "size"} /\ index'.entry = index.entry
    BY <2>1 DEF BuildInv, ShardInv
  <2>3. UNCHANGED <<IdMapsRight, ShardsRight, MedoidsInShards, StartsRight>>
    BY <2>1 DEF IdMapsRight, ShardsRight, ShardBuilt, ShardData, StartChoices, LabelsIn, HasLabel,
                MedoidsInShards, StartsRight
  <2> QED
    BY <1>1, <2>1, <2>2, <2>3 DEF BuildInv, ShardInv, EntriesInv
<1> DEFINE Served == {"laid out", "threw", "open", "serving", "warm-up", "searching", "answered"}
<1>4. ASSUME stage' \in Served, UNCHANGED parts, DOMAIN index' = {"lists", "entry", "size"}
      PROVE  BuildInv'
  BY <1>1, <1>4 DEF BuildInv, ShardInv, EntriesInv
<1>5. parts \in Nat \ {0} /\ DOMAIN index = {"lists", "entry", "size"}
  BY DEF BuildInv, ShardInv
<1>6. CASE CreateDiskLayout
  <2>1. stage' \in Served /\ UNCHANGED parts /\ index' = [None EXCEPT !.entry = index.entry]
    BY <1>6 DEF CreateDiskLayout
  <2> QED
    BY <1>4, <2>1 DEF None
<1>7. CASE Open \/ LoadCache \/ WarmUp \/ EndWarmUp
  BY <1>4, <1>5, <1>7 DEF Open, LoadCache, WarmUp, EndWarmUp
<1>8. CASE WarmUpCall \/ \E c \in Searches : Call(c)
  <2>1. \E c : Begin(c)
    BY <1>8, CallBegins
  <2>2. stage' = "searching" /\ UNCHANGED <<parts, index>>
    BY <2>1 DEF Begin
  <2> QED
    BY <1>4, <1>5, <2>2
<1>9. CASE Hop
  <2>1. stage' = "searching" /\ UNCHANGED <<parts, index>>
    BY <1>9 DEF Hop, buildVars
  <2> QED
    BY <1>4, <1>5, <2>1
<1>10. CASE Finish \/ FinishWarmUpCall \/ NoReorderData \/ NextCall
  <2>1. stage' \in Served /\ UNCHANGED <<parts, index>>
    BY <1>10 DEF Finish, FinishWarmUpCall, NoReorderData, NextCall, GiveBack
  <2> QED
    BY <1>4, <1>5, <2>1
<1> QED
  BY <1>2, <1>3, <1>6, <1>7, <1>8, <1>9, <1>10 DEF Next

\* A search for a label starts at a row that has it, every label has a start, and
\* each part of a merged graph has a medoid of its own (merge_shards of
\* src/disk_utils.cpp), for any rows, shards and graphs of shards.
THEOREM EntriesAreRightHolds == Spec => []EntriesAreRight
<1>1. Init => DiskInv /\ BuildInv
  BY DiskInvInit, ShardInitially
<1>2. DiskInv /\ BuildInv /\ [Next]_vars => DiskInv' /\ BuildInv'
  BY DiskInvNext, BuildInvNext
<1>3. BuildInv => EntriesAreRight
  BY DEF BuildInv, EntriesInv, StartsRight, MedoidsInShards, EntriesAreRight
<1> QED
  BY <1>1, <1>2, <1>3, PTL DEF Spec

-----------------------------------------------------------------------------
(* The order in which the shards' lists are read.                          *)

ReadPlaces == UNION {{PlaceOf(r, s) : r \in ToSet(idmaps[s])} : s \in DOMAIN idmaps}

\* When the list of a row is read from a shard.
Turn(r, s) == Rank(PlaceOf(r, s), ReadPlaces) + 1

\* The rows' turns come in the order of the rows, one for each shard a row is in.
TurnsRight ==
    /\ Len(NodeShard) \in Nat
    /\ \A s \in 1 .. parts : \A r \in ToSet(idmaps[s]) :
          Turn(r, s) \in 1 .. Len(NodeShard) /\ NodeShard[Turn(r, s)] = <<r, s>>
    /\ \A i \in 1 .. Len(NodeShard) :
          \E s \in 1 .. parts : \E r \in ToSet(idmaps[s]) : NodeShard[i] = <<r, s>> /\ Turn(r, s) = i
    /\ \A s, t \in 1 .. parts : \A r \in ToSet(idmaps[s]) : \A q \in ToSet(idmaps[t]) :
          r < q => Turn(r, s) < Turn(q, t)

LEMMA PlaceParts ==
    ASSUME parts \in Nat \ {0}, NEW r \in Nat, NEW s \in 1 .. parts
    PROVE  PlaceOf(r, s) \in Nat /\ PlaceOf(r, s) \div parts = r /\ (PlaceOf(r, s) % parts) + 1 = s
<1>1. s - 1 \in 0 .. parts - 1
  OBVIOUS
<1>2. ((r * parts) + (s - 1)) \div parts = r /\ ((r * parts) + (s - 1)) % parts = s - 1
  BY <1>1, DivOfSum
<1>3. r * parts \in Nat
  OBVIOUS
<1> QED
  BY <1>1, <1>2, <1>3 DEF PlaceOf

LEMMA PlaceLess ==
    ASSUME parts \in Nat \ {0}, NEW r \in Nat, NEW q \in Nat, NEW s \in 1 .. parts, NEW t \in 1 .. parts,
           r < q
    PROVE  PlaceOf(r, s) < PlaceOf(q, t)
<1>1. (r * parts) + parts <= q * parts
  BY NextMultiple
<1>2. r * parts \in Nat /\ q * parts \in Nat
  OBVIOUS
<1> QED
  BY <1>1, <1>2 DEF PlaceOf

LEMMA TurnsHold ==
    ASSUME RowsNumbered, stage # "asked", IdMapsRight, parts \in Nat \ {0}
    PROVE  TurnsRight
<1> DEFINE num == Cardinality(ReadPlaces)
           order == RankOrder(ReadPlaces)
<1>1. DOMAIN idmaps = 1 .. parts /\ \A s \in 1 .. parts : ToSet(idmaps[s]) \subseteq DOMAIN rows
  BY IdMapRows DEF IdMapsRight
<1>2. N \in Nat /\ DOMAIN rows = 0 .. N - 1
  BY DEF RowsNumbered
<1>3. \A s \in 1 .. parts : \A r \in ToSet(idmaps[s]) : r \in Nat /\ r < N
  BY <1>1, <1>2
<1>4. \A s \in 1 .. parts : \A r \in ToSet(idmaps[s]) : PlaceOf(r, s) \in ReadPlaces
  BY <1>1 DEF ReadPlaces
<1>5. \A p \in ReadPlaces : \E s \in 1 .. parts : \E r \in ToSet(idmaps[s]) : p = PlaceOf(r, s)
  BY <1>1 DEF ReadPlaces
<1>6. ReadPlaces \subseteq Nat /\ IsFiniteSet(ReadPlaces)
  <2>1. ASSUME NEW p \in ReadPlaces PROVE p \in Nat /\ p <= N * parts
    <3>1. PICK s \in 1 .. parts : \E r \in ToSet(idmaps[s]) : p = PlaceOf(r, s)
      BY <1>5
    <3>2. PICK r \in ToSet(idmaps[s]) : p = PlaceOf(r, s)
      BY <3>1
    <3>3. r \in Nat /\ r < N /\ p \in Nat
      BY <1>3, <3>2, PlaceParts
    <3>4. 1 \in 1 .. parts
      OBVIOUS
    <3>5. p < PlaceOf(N, 1)
      BY <1>2, <3>2, <3>3, <3>4, PlaceLess
    <3>6. PlaceOf(N, 1) = N * parts /\ N * parts \in Nat
      BY <1>2 DEF PlaceOf
    <3> QED
      BY <3>3, <3>5, <3>6
  <2>2. N * parts \in Nat /\ ReadPlaces \in SUBSET Nat
    BY <1>2, <2>1
  <2> QED
    BY <2>1, <2>2, FS_BoundedSetOfNaturals
<1>7. /\ num \in Nat /\ order \in [1 .. num -> ReadPlaces]
      /\ \A i \in 1 .. num : Rank(order[i], ReadPlaces) = i - 1
      /\ \A p \in ReadPlaces : Rank(p, ReadPlaces) + 1 \in 1 .. num /\ order[Rank(p, ReadPlaces) + 1] = p
  BY <1>6, RankOrderType
<1>8. NodeShard = [i \in 1 .. num |-> <<order[i] \div parts, (order[i] % parts) + 1>>]
  BY <1>7 DEF NodeShard, ReadPlaces
<1> HIDE DEF order, num
<1>9. Len(NodeShard) = num
  BY <1>7, <1>8
<1>10. ASSUME NEW i \in 1 .. num, NEW s \in 1 .. parts, NEW r \in ToSet(idmaps[s]), order[i] = PlaceOf(r, s)
       PROVE  NodeShard[i] = <<r, s>>
  <2>1. PlaceOf(r, s) \div parts = r /\ (PlaceOf(r, s) % parts) + 1 = s
    BY <1>3, PlaceParts
  <2> QED
    BY <1>8, <1>10, <2>1
<1>11. ASSUME NEW s \in 1 .. parts, NEW r \in ToSet(idmaps[s])
       PROVE  Turn(r, s) \in 1 .. num /\ NodeShard[Turn(r, s)] = <<r, s>>
  <2>1. Turn(r, s) \in 1 .. num /\ order[Turn(r, s)] = PlaceOf(r, s)
    BY <1>4, <1>7 DEF Turn
  <2> QED
    BY <1>10, <2>1
<1>12. ASSUME NEW i \in 1 .. num
       PROVE  \E s \in 1 .. parts : \E r \in ToSet(idmaps[s]) : NodeShard[i] = <<r, s>> /\ Turn(r, s) = i
  <2>1. PICK s \in 1 .. parts : \E r \in ToSet(idmaps[s]) : order[i] = PlaceOf(r, s)
    BY <1>5, <1>7
  <2>2. PICK r \in ToSet(idmaps[s]) : order[i] = PlaceOf(r, s)
    BY <2>1
  <2>3. Turn(r, s) = i
    BY <1>7, <2>2 DEF Turn
  <2> QED
    BY <1>10, <2>2, <2>3
<1>13. ASSUME NEW s \in 1 .. parts, NEW t \in 1 .. parts,
              NEW r \in ToSet(idmaps[s]), NEW q \in ToSet(idmaps[t]), r < q
       PROVE  Turn(r, s) < Turn(q, t)
  <2>1. PlaceOf(r, s) < PlaceOf(q, t) /\ PlaceOf(q, t) \in Nat
    BY <1>3, <1>13, PlaceLess, PlaceParts
  <2>2. PlaceOf(r, s) \in ReadPlaces /\ PlaceOf(q, t) \in ReadPlaces
    BY <1>4
  <2>3. Rank(PlaceOf(r, s), ReadPlaces) < Rank(PlaceOf(q, t), ReadPlaces)
    BY <1>6, <2>1, <2>2, RankLess
  <2>4. Rank(PlaceOf(r, s), ReadPlaces) \in Nat /\ Rank(PlaceOf(q, t), ReadPlaces) \in Nat
    BY <1>6, RankType
  <2> QED
    BY <2>3, <2>4 DEF Turn
<1> QED
  BY <1>7, <1>9, <1>11, <1>12, <1>13 DEF TurnsRight

-----------------------------------------------------------------------------
(* Lists.                                                                  *)

Distinct(list) == \A i, j \in 1 .. Len(list) : list[i] = list[j] => i = j

\* A list without repetition is as long as the set of its entries is large.
LEMMA DistinctLength ==
    ASSUME NEW T, NEW list \in Seq(T), Distinct(list)
    PROVE  IsFiniteSet(ToSet(list)) /\ Cardinality(ToSet(list)) = Len(list)
<1> DEFINE n == Len(list)
           S == ToSet(list)
<1>1. n \in Nat /\ list \in [1 .. n -> T]
  OBVIOUS
<1>2. S = {list[i] : i \in 1 .. n}
  BY <1>1 DEF ToSet
<1>3. \A i, j \in 1 .. n : list[i] = list[j] => i = j
  BY DEF Distinct
<1> HIDE DEF n, S
<1>4. list \in [1 .. n -> S]
  BY <1>1, <1>2
<1>5. list \in Injection(1 .. n, S)
  BY <1>3, <1>4 DEF Injection, IsInjective
<1>6. list \in Surjection(1 .. n, S)
  BY <1>2, <1>4 DEF Surjection
<1>7. ExistsBijection(1 .. n, S)
  BY <1>5, <1>6 DEF ExistsBijection, Bijection
<1>8. IsFiniteSet(1 .. n) /\ Cardinality(1 .. n) = n
  BY <1>1, FS_Interval
<1>9. IsFiniteSet(S) /\ Cardinality(S) = n
  BY <1>7, <1>8, FS_Bijection
<1> QED
  BY <1>9 DEF n, S

\* Some positions of a list without repetition.
LEMMA PickedDistinct ==
    ASSUME NEW T, NEW list \in Seq(T), Distinct(list), NEW P \in SUBSET (1 .. Len(list))
    PROVE  /\ Picked(list, P) \in Seq(T) /\ Distinct(Picked(list, P))
           /\ Len(Picked(list, P)) = Cardinality(P)
           /\ ToSet(Picked(list, P)) \subseteq ToSet(list)
<1> DEFINE n == Len(list)
           k == Cardinality(P)
           order == RankOrder(P)
           picked == Picked(list, P)
<1>1. IsFiniteSet(P) /\ P \subseteq Nat
  <2>1. n \in Nat /\ IsFiniteSet(1 .. n) /\ 1 .. n \subseteq Nat
    BY FS_Interval
  <2> QED
    BY <2>1, FS_Subset
<1>2. /\ k \in Nat /\ order \in [1 .. k -> P]
      /\ \A i \in 1 .. k : Rank(order[i], P) = i - 1
  BY <1>1, RankOrderType
<1>3. picked = [i \in 1 .. k |-> list[order[i]]]
  BY DEF Picked
<1>4. \A i \in 1 .. n : list[i] \in T /\ list[i] \in ToSet(list)
  BY DEF ToSet
<1>5. \A i, j \in 1 .. n : list[i] = list[j] => i = j
  BY DEF Distinct
<1> HIDE DEF n, k, order, picked
<1>6. \A i \in 1 .. k : order[i] \in 1 .. n
  BY <1>2 DEF n
<1>7. picked \in Seq(T) /\ Len(picked) = k
  BY <1>2, <1>3, <1>4, <1>6
<1>8. ToSet(picked) \subseteq ToSet(list)
  BY <1>3, <1>4, <1>6, <1>7 DEF ToSet
<1>9. ASSUME NEW i \in 1 .. k, NEW j \in 1 .. k, picked[i] = picked[j] PROVE i = j
  <2>1. order[i] = order[j]
    BY <1>3, <1>5, <1>6, <1>9
  <2>2. i - 1 = j - 1
    BY <1>2, <2>1
  <2> QED
    BY <2>2
<1> QED
  BY <1>7, <1>8, <1>9 DEF Distinct, k, picked

\* What is written of a gathered list.
LEMMA CutRight ==
    ASSUME NEW T, NEW hood \in Seq(T), Distinct(hood), NEW list \in Cuts(hood)
    PROVE  /\ list \in Seq(T) /\ ToSet(list) \subseteq ToSet(hood)
           /\ Len(list) = Cardinality(ToSet(list))
           /\ Len(list) = Min({OutDegree, Cardinality(ToSet(hood))})
<1>1. PICK kept \in kSubset(Min({Len(hood), OutDegree}), 1 .. Len(hood)) : list = Picked(hood, kept)
  BY DEF Cuts
<1>2. kept \in SUBSET (1 .. Len(hood)) /\ Cardinality(kept) = Min({Len(hood), OutDegree})
  BY <1>1 DEF kSubset
<1>3. /\ list \in Seq(T) /\ Distinct(list) /\ ToSet(list) \subseteq ToSet(hood)
      /\ Len(list) = Min({Len(hood), OutDegree})
  BY <1>1, <1>2, PickedDistinct
<1>4. Cardinality(ToSet(hood)) = Len(hood) /\ Cardinality(ToSet(list)) = Len(list)
  BY <1>3, DistinctLength
<1>5. Min({Len(hood), OutDegree}) = Min({OutDegree, Len(hood)})
  <2>1. {Len(hood), OutDegree} = {OutDegree, Len(hood)}
    OBVIOUS
  <2> QED
    BY <2>1
<1> QED
  BY <1>3, <1>4, <1>5

-----------------------------------------------------------------------------
(* Recursion over the rounds of a loop.                                    *)

AreRounds(f, V, z, m, step) ==
    /\ f \in [0 .. m -> V] /\ f[0] = z
    /\ \A n \in 1 .. m : f[n] = step[<<f[n - 1], n>>]

\* What so many rounds make of a value is defined.
LEMMA RoundsDefine ==
    ASSUME NEW V, NEW z \in V, NEW num \in Nat, NEW step \in [V \X (1 .. num) -> V]
    PROVE  \E f : AreRounds(f, V, z, num, step)
<1> USE DEF AreRounds
<1> DEFINE Solves(f, m) == AreRounds(f, V, z, m, step)
           Good == {m \in 0 .. num : \E f : Solves(f, m)}
<1>1. 0 \in Good
  <2>1. Solves([n \in 0 .. 0 |-> z], 0)
    OBVIOUS
  <2>2. \E f : Solves(f, 0)
    <3> HIDE DEF Solves
    <3> QED
      BY <2>1
  <2> QED
    BY <2>2
<1>2. ASSUME NEW m \in 1 .. num, m - 1 \in Good PROVE m \in Good
  <2>1. PICK f : Solves(f, m - 1)
    BY <1>2
  <2> DEFINE last == step[<<f[m - 1], m>>]
             h == [n \in 0 .. m |-> IF n = m THEN last ELSE f[n]]
  <2>2. last \in V
    <3>1. f[m - 1] \in V /\ m \in 1 .. num
      BY <2>1
    <3> QED
      BY <3>1
  <2>3. \A n \in 0 .. m - 1 : f[n] \in V
    BY <2>1
  <2> HIDE DEF last
  <2>4. h \in [0 .. m -> V] /\ h[0] = z
    BY <2>1, <2>2, <2>3
  <2>5. ASSUME NEW n \in 1 .. m PROVE h[n] = step[<<h[n - 1], n>>]
    <3>1. CASE n = m
      <4>1. h[n] = last /\ h[n - 1] = f[m - 1]
        BY <3>1
      <4> QED
        BY <3>1, <4>1 DEF last
    <3>2. CASE n # m
      <4>1. n \in 1 .. m - 1 /\ h[n] = f[n] /\ h[n - 1] = f[n - 1]
        BY <3>2
      <4> QED
        BY <2>1, <4>1
    <3> QED
      BY <3>1, <3>2
  <2> HIDE DEF h
  <2>6. Solves(h, m)
    BY <2>4, <2>5
  <2> QED
    BY <2>6
<1> HIDE DEF Good
<1>3. 0 .. num \subseteq Good
  BY <1>1, <1>2, Rounds
<1>4. num \in Good
  BY <1>3
<1> QED
  BY <1>4 DEF Good

\* The size of a file of lists, list by list.
IsSize(f, lists) ==
    /\ f \in [0 .. Len(lists) -> Nat] /\ f[0] = 24
    /\ \A n \in 1 .. Len(lists) : f[n] = f[n - 1] + 4 * (1 + Len(lists[n]))

LEMMA SizeRounds ==
    ASSUME NEW T, NEW lists \in Seq(Seq(T))
    PROVE  \E f : IsSize(f, lists) /\ SizeOf(FromSeq(lists)) = f[Len(lists)]
<1> DEFINE num == Len(lists)
           grown(x, n) == x + 4 * (1 + Len(lists[n]))
           step == [p \in Nat \X (1 .. num) |-> grown(p[1], p[2])]
           Sums(f) == f = [n \in 0 .. num |-> IF n = 0 THEN 24 ELSE grown(f[n - 1], n)]
           size == CHOOSE f : Sums(f)
<1>1. num \in Nat /\ \A n \in 1 .. num : lists[n] \in Seq(T) /\ Len(lists[n]) \in Nat
  OBVIOUS
<1>2. Cardinality(DOMAIN FromSeq(lists)) = num
  <2>1. DOMAIN FromSeq(lists) = 0 .. num - 1
    BY DEF FromSeq, Ids
  <2> HIDE DEF num
  <2>2. Cardinality(0 .. num - 1) = num
    BY <1>1, FS_Interval
  <2> QED
    BY <2>1, <2>2
<1>3. \A n \in 1 .. num : FromSeq(lists)[n - 1] = lists[n]
  BY <1>1 DEF FromSeq, Ids
<1>4. SizeOf(FromSeq(lists)) = size[num]
  <2> DEFINE other(x, n) == x + 4 * (1 + Len(FromSeq(lists)[n - 1]))
  <2>1. SizeOf(FromSeq(lists)) =
           (CHOOSE f : f = [n \in 0 .. num |-> IF n = 0 THEN 24 ELSE other(f[n - 1], n)])[num]
    BY <1>2 DEF SizeOf
  <2>2. ASSUME NEW f
        PROVE  [n \in 0 .. num |-> IF n = 0 THEN 24 ELSE other(f[n - 1], n)]
             = [n \in 0 .. num |-> IF n = 0 THEN 24 ELSE grown(f[n - 1], n)]
    <3>1. ASSUME NEW n \in 0 .. num
          PROVE  (IF n = 0 THEN 24 ELSE other(f[n - 1], n)) = (IF n = 0 THEN 24 ELSE grown(f[n - 1], n))
      <4>1. n # 0 => FromSeq(lists)[n - 1] = lists[n]
        BY <1>1, <1>3
      <4> QED
        BY <4>1
    <3> HIDE DEF other, grown, num
    <3> QED
      BY <3>1
  <2> QED
    BY <2>1, <2>2
<1>5. step \in [Nat \X (1 .. num) -> Nat]
  BY <1>1
<1>6. PICK f : AreRounds(f, Nat, 24, num, step)
  <2> HIDE DEF step, num
  <2>1. 24 \in Nat
    OBVIOUS
  <2> QED
    BY <1>1, <1>5, <2>1, RoundsDefine
<1> USE DEF AreRounds
<1>7. ASSUME NEW n \in 1 .. num PROVE f[n - 1] \in Nat /\ f[n] = grown(f[n - 1], n)
  <2>1. f[n - 1] \in Nat
    <3> HIDE DEF step, num
    <3>1. n - 1 \in 0 .. num
      BY <1>1
    <3> QED
      BY <1>6, <3>1
  <2>2. <<f[n - 1], n>> \in Nat \X (1 .. num)
    BY <2>1
  <2>3. step[<<f[n - 1], n>>] = grown(f[n - 1], n)
    <3> HIDE DEF grown, num
    <3> QED
      BY <2>2
  <2> QED
    BY <1>6, <2>1, <2>3
<1> HIDE DEF step, grown, num
<1>8. Sums(f)
  <2>1. \A n \in 0 .. num : f[n] = IF n = 0 THEN 24 ELSE grown(f[n - 1], n)
    BY <1>1, <1>6, <1>7
  <2> QED
    BY <1>6, <2>1
<1>9. Sums(size)
  <2> HIDE DEF Sums
  <2> QED
    BY <1>8
<1> HIDE DEF size
<1>10. size[0] = 24 /\ \A n \in 1 .. num : size[n] = grown(size[n - 1], n)
  <2>1. 0 \in 0 .. num /\ \A n \in 1 .. num : n \in 0 .. num /\ n # 0
    BY <1>1
  <2> QED
    BY <1>9, <2>1
<1>11. DOMAIN size = 0 .. num
  BY <1>9
<1> DEFINE Good == {n \in 0 .. num : size[n] = f[n]}
<1>12. 0 .. num \subseteq Good
  <2>1. 0 \in Good
    BY <1>1, <1>6, <1>10
  <2>2. ASSUME NEW n \in 1 .. num, n - 1 \in Good PROVE n \in Good
    BY <1>7, <1>10, <2>2
  <2> HIDE DEF Good
  <2> QED
    BY <1>1, <2>1, <2>2, Rounds
<1>13. size[num] = f[num]
  BY <1>1, <1>12
<1> QED
  BY <1>4, <1>6, <1>7, <1>13 DEF IsSize, num, grown

LEMMA SizeGrows ==
    ASSUME NEW T, NEW lists \in Seq(Seq(T)), NEW list \in Seq(T)
    PROVE  SizeOf(FromSeq(Append(lists, list))) = SizeOf(FromSeq(lists)) + 4 * (1 + Len(list))
<1> DEFINE more == Append(lists, list)
           num == Len(lists)
<1>1. num \in Nat /\ more \in Seq(Seq(T)) /\ Len(more) = num + 1
      /\ more[num + 1] = list /\ \A n \in 1 .. num : more[n] = lists[n]
  OBVIOUS
<1> HIDE DEF more
<1>2. PICK f : IsSize(f, lists) /\ SizeOf(FromSeq(lists)) = f[num]
  BY SizeRounds
<1>3. PICK h : IsSize(h, more) /\ SizeOf(FromSeq(more)) = h[num + 1]
  BY <1>1, SizeRounds
<1>4. f[0] = 24 /\ \A n \in 1 .. num : f[n] = f[n - 1] + 4 * (1 + Len(lists[n]))
  BY <1>2 DEF IsSize
<1>5. h[0] = 24 /\ \A n \in 1 .. num + 1 : h[n] = h[n - 1] + 4 * (1 + Len(more[n]))
  BY <1>1, <1>3 DEF IsSize
<1> HIDE DEF num
<1> DEFINE Good == {n \in 0 .. num : h[n] = f[n]}
<1>6. 0 .. num \subseteq Good
  <2>1. 0 \in Good
    BY <1>1, <1>4, <1>5
  <2>2. ASSUME NEW n \in 1 .. num, n - 1 \in Good PROVE n \in Good
    <3>1. n \in 1 .. num + 1 /\ more[n] = lists[n] /\ h[n - 1] = f[n - 1]
      BY <1>1, <2>2
    <3>2. h[n] = h[n - 1] + 4 * (1 + Len(more[n])) /\ f[n] = f[n - 1] + 4 * (1 + Len(lists[n]))
      BY <1>4, <1>5, <3>1
    <3> QED
      BY <3>1, <3>2
  <2> HIDE DEF Good
  <2> QED
    BY <1>1, <2>1, <2>2, Rounds
<1>7. h[num] = f[num]
  BY <1>1, <1>6
<1>8. h[num + 1] = h[num] + 4 * (1 + Len(more[num + 1]))
  <2>1. num + 1 \in 1 .. num + 1 /\ (num + 1) - 1 = num
    BY <1>1
  <2> QED
    BY <1>5, <2>1
<1> QED
  BY <1>1, <1>2, <1>3, <1>7, <1>8 DEF more

LEMMA SizeOfNone == SizeOf(FromSeq(<<>>)) = 24
<1>1. <<>> \in Seq(Seq({})) /\ Len(<<>>) = 0
  OBVIOUS
<1>2. PICK f : IsSize(f, <<>>) /\ SizeOf(FromSeq(<<>>)) = f[0]
  BY <1>1, SizeRounds
<1> QED
  BY <1>2 DEF IsSize

-----------------------------------------------------------------------------
(* Reading the list of a row from a shard.                                 *)

Merges == [next : Nat, at : [1 .. parts -> Nat], cur : Nat, hood : Seq(Nat), marked : SUBSET Nat,
           lists : Seq(Seq(Nat)), size : Nat]

\* What reading a list does not change, and what has been gathered.
SameRest(m, n) == m.next = n.next /\ m.cur = n.cur /\ m.lists = n.lists /\ m.size = n.size
HoodIs(m, S) == Distinct(m.hood) /\ m.marked = ToSet(m.hood) /\ ToSet(m.hood) = S

LEMMA AppendDistinct ==
    ASSUME NEW list \in Seq(Nat), NEW id \in Nat
    PROVE  /\ ToSet(Append(list, id)) = ToSet(list) \cup {id}
           /\ Distinct(list) /\ id \notin ToSet(list) => Distinct(Append(list, id))
<1> DEFINE more == Append(list, id)
           n == Len(list)
<1>1. /\ n \in Nat /\ Len(more) = n + 1 /\ more[n + 1] = id /\ \A i \in 1 .. n : more[i] = list[i]
      /\ DOMAIN more = 1 .. n + 1 /\ DOMAIN list = 1 .. n
  OBVIOUS
<1> HIDE DEF more, n
<1>2. 1 .. n + 1 = (1 .. n) \cup {n + 1}
  BY <1>1
<1>3. ToSet(more) = ToSet(list) \cup {id}
  BY <1>1, <1>2 DEF ToSet
<1>4. ASSUME Distinct(list), id \notin ToSet(list), NEW i \in 1 .. n + 1, NEW j \in 1 .. n + 1, more[i] = more[j]
      PROVE  i = j
  <2>1. \A k \in 1 .. n : list[k] # id
    BY <1>1, <1>4 DEF ToSet
  <2>2. \A k, l \in 1 .. n : list[k] = list[l] => k = l
    BY <1>4 DEF Distinct, n
  <2>3. i \in 1 .. n \/ i = n + 1
    BY <1>2
  <2>4. j \in 1 .. n \/ j = n + 1
    BY <1>2
  <2> QED
    BY <1>1, <1>4, <2>1, <2>2, <2>3, <2>4
<1> QED
  BY <1>1, <1>3, <1>4 DEF Distinct, more

LEMMA MarkedKeeps ==
    ASSUME NEW m \in Merges, NEW id \in Nat, NEW S, HoodIs(m, S)
    PROVE  /\ Marked(m, id) \in Merges /\ SameRest(Marked(m, id), m) /\ Marked(m, id).at = m.at
           /\ HoodIs(Marked(m, id), S \cup {id})
<1> DEFINE n == Marked(m, id)
<1>1. m.hood \in Seq(Nat) /\ m.marked \in SUBSET Nat
  BY DEF Merges
<1>2. CASE id \in m.marked
  BY <1>2 DEF Marked, HoodIs, SameRest
<1>3. CASE id \notin m.marked
  <2>1. n = [m EXCEPT !.marked = @ \cup {id}, !.hood = Append(@, id)]
    BY <1>3 DEF Marked
  <2> HIDE DEF n
  <2>2. Append(m.hood, id) \in Seq(Nat)
    BY <1>1
  <2>3. /\ n \in Merges /\ n.next = m.next /\ n.cur = m.cur /\ n.lists = m.lists /\ n.size = m.size
        /\ n.at = m.at /\ n.marked = m.marked \cup {id} /\ n.hood = Append(m.hood, id)
    BY <2>1, <2>2 DEF Merges
  <2>4. HoodIs(n, S \cup {id})
    BY <1>1, <1>3, <2>3, AppendDistinct DEF HoodIs
  <2> QED
    BY <2>3, <2>4 DEF SameRest, n
<1> QED
  BY <1>2, <1>3

\* The list that the shard s has next.
IsNextOf(m, s, list) == list = shards[s].lists[m.at[s]]

LEMMA GatheredRight ==
    ASSUME NEW m \in Merges, NEW s \in 1 .. parts, NEW S, HoodIs(m, S),
           NEW list, IsNextOf(m, s, list), Len(list) \in Nat, DOMAIN list = 1 .. Len(list),
           \A i \in 1 .. Len(list) : Renamed(s, list[i]) \in Nat
    PROVE  /\ Gathered(m, s) \in Merges /\ SameRest(Gathered(m, s), m)
           /\ Gathered(m, s).at = [m.at EXCEPT ![s] = @ + 1]
           /\ HoodIs(Gathered(m, s), S \cup {Renamed(s, x) : x \in ToSet(list)})
<1> DEFINE num == Len(list)
           id(i) == Renamed(s, list[i])
           step == [p \in Merges \X (1 .. num) |-> Marked(p[1], id(p[2]))]
           Reads(f) == f = [i \in 0 .. num |-> IF i = 0 THEN m ELSE Marked(f[i - 1], id(i))]
           read == CHOOSE f : Reads(f)
<1>1. \A i \in 1 .. num : id(i) \in Nat
  OBVIOUS
<1>2. Gathered(m, s) = [read[num] EXCEPT !.at[s] = @ + 1]
  BY DEF Gathered, IsNextOf
<1>3. ToSet(list) = {list[i] : i \in 1 .. num}
  BY DEF ToSet
<1> HIDE DEF id
<1> DEFINE After(i) == {n \in Merges : /\ SameRest(n, m) /\ n.at = m.at
                                       /\ HoodIs(n, S \cup {id(j) : j \in 1 .. i})}
<1>4. m \in After(0)
  <2>1. S \cup {id(j) : j \in 1 .. 0} = S
    OBVIOUS
  <2> QED
    BY <2>1 DEF SameRest
<1>5. ASSUME NEW i \in 1 .. num, NEW n \in After(i - 1) PROVE Marked(n, id(i)) \in After(i)
  <2>1. n \in Merges /\ SameRest(n, m) /\ n.at = m.at /\ HoodIs(n, S \cup {id(j) : j \in 1 .. i - 1})
    BY <1>5
  <2>2. id(i) \in Nat
    BY <1>1
  <2>3. /\ Marked(n, id(i)) \in Merges /\ SameRest(Marked(n, id(i)), n) /\ Marked(n, id(i)).at = n.at
        /\ HoodIs(Marked(n, id(i)), (S \cup {id(j) : j \in 1 .. i - 1}) \cup {id(i)})
    BY <2>1, <2>2, MarkedKeeps
  <2>4. (S \cup {id(j) : j \in 1 .. i - 1}) \cup {id(i)} = S \cup {id(j) : j \in 1 .. i}
    <3>1. 1 .. i = (1 .. i - 1) \cup {i}
      BY <1>5
    <3> QED
      BY <3>1
  <2>5. SameRest(Marked(n, id(i)), m) /\ Marked(n, id(i)).at = m.at
    BY <2>1, <2>3 DEF SameRest
  <2> QED
    BY <2>3, <2>4, <2>5
<1> HIDE DEF num, read, After
<1> DEFINE Solves(f, k) == f = [i \in 0 .. k |-> IF i = 0 THEN m ELSE Marked(f[i - 1], id(i))]
           Good == {k \in 0 .. num : \E f : Solves(f, k)}
<1>6. num \in Nat
  BY DEF num
<1>7. 0 \in Good
  <2>1. Solves([i \in 0 .. 0 |-> m], 0)
    OBVIOUS
  <2>2. \E f : Solves(f, 0)
    <3> HIDE DEF Solves
    <3> QED
      BY <2>1
  <2> QED
    BY <1>6, <2>2
<1>8. ASSUME NEW k \in 1 .. num, k - 1 \in Good PROVE k \in Good
  <2>1. PICK f : Solves(f, k - 1)
    BY <1>8
  <2> DEFINE h == [i \in 0 .. k |-> IF i = k THEN Marked(f[k - 1], id(k)) ELSE f[i]]
  <2>2. ASSUME NEW i \in 0 .. k PROVE h[i] = IF i = 0 THEN m ELSE Marked(h[i - 1], id(i))
    <3>1. CASE i = k
      BY <1>6, <3>1
    <3>2. CASE i # k
      <4>1. i \in 0 .. k - 1 /\ h[i] = f[i]
        BY <1>6, <3>2
      <4>2. f[i] = IF i = 0 THEN m ELSE Marked(f[i - 1], id(i))
        BY <2>1, <4>1
      <4>3. i # 0 => h[i - 1] = f[i - 1]
        BY <1>6, <4>1
      <4> QED
        BY <4>1, <4>2, <4>3
    <3> QED
      BY <3>1, <3>2
  <2>3. h = [i \in 0 .. k |-> h[i]]
    OBVIOUS
  <2> HIDE DEF h
  <2>4. Solves(h, k)
    BY <2>2, <2>3
  <2> HIDE DEF Solves
  <2>5. k \in 0 .. num
    BY <1>6
  <2> QED
    BY <2>4, <2>5
<1>9. \E f : Solves(f, num)
  <2> HIDE DEF Good
  <2>1. 0 .. num \subseteq Good
    BY <1>6, <1>7, <1>8, Rounds
  <2>2. num \in Good
    BY <1>6, <2>1
  <2> QED
    BY <2>2 DEF Good
<1>10. Reads(read)
  <2>1. \E f : Reads(f)
    BY <1>9
  <2> HIDE DEF Reads
  <2> QED
    BY <2>1 DEF read
<1>11. read[0] = m /\ \A i \in 1 .. num : read[i] = Marked(read[i - 1], id(i))
  <2>1. 0 \in 0 .. num /\ \A i \in 1 .. num : i \in 0 .. num /\ i # 0
    BY <1>6
  <2> QED
    BY <1>10, <2>1
<1> DEFINE Fine == {i \in 0 .. num : read[i] \in After(i)}
<1>12. 0 .. num \subseteq Fine
  <2>1. 0 \in Fine
    BY <1>4, <1>6, <1>11
  <2>2. ASSUME NEW i \in 1 .. num, i - 1 \in Fine PROVE i \in Fine
    BY <1>5, <1>6, <1>11, <2>2
  <2> HIDE DEF Fine
  <2> QED
    BY <1>6, <2>1, <2>2, Rounds
<1>13. read[num] \in After(num)
  BY <1>6, <1>12
<1> DEFINE last == read[num]
<1>14. /\ last \in Merges /\ SameRest(last, m) /\ last.at = m.at
       /\ HoodIs(last, S \cup {id(j) : j \in 1 .. num})
  BY <1>13 DEF After
<1>15. {id(j) : j \in 1 .. num} = {Renamed(s, x) : x \in ToSet(list)}
  BY <1>3 DEF id
<1>16. Gathered(m, s) = [last EXCEPT !.at[s] = @ + 1]
  BY <1>2
<1> HIDE DEF last
<1>17. [last.at EXCEPT ![s] = @ + 1] \in [1 .. parts -> Nat]
  <2>1. last.at \in [1 .. parts -> Nat]
    BY <1>14 DEF Merges
  <2> DEFINE at == last.at
  <2>2. at \in [1 .. parts -> Nat]
    BY <2>1
  <2> HIDE DEF at
  <2> DEFINE up == at[s] + 1
  <2>3. up \in Nat
    BY <2>2
  <2> HIDE DEF up
  <2>4. [at EXCEPT ![s] = up] \in [1 .. parts -> Nat]
    BY <2>2, <2>3, Zenon
  <2> QED
    BY <2>4 DEF at, up
<1> DEFINE end == Gathered(m, s)
<1>18. /\ end \in Merges /\ end.at = [last.at EXCEPT ![s] = @ + 1]
       /\ end.next = last.next /\ end.cur = last.cur /\ end.lists = last.lists /\ end.size = last.size
       /\ end.hood = last.hood /\ end.marked = last.marked
  BY <1>14, <1>16, <1>17 DEF Merges
<1> HIDE DEF end
<1>19. SameRest(end, m) /\ HoodIs(end, S \cup {Renamed(s, x) : x \in ToSet(list)})
  BY <1>14, <1>15, <1>18 DEF SameRest, HoodIs
<1> QED
  BY <1>14, <1>18, <1>19 DEF end

-----------------------------------------------------------------------------
(* The merge.                                                              *)

\* Where a row is in a shard, what the shard links it to, and what has been read of that.
Local(r, s) == Rank(r, ToSet(idmaps[s]))
Linked(s, r) == {Renamed(s, x) : x \in ToSet(shards[s].lists[Local(r, s)])}
LinkedTo(r, next) ==
    UNION {Linked(s, r) : s \in {t \in 1 .. parts : r \in ToSet(idmaps[t]) /\ Turn(r, t) < next}}

ListRight(list, r) ==
    /\ list \in Seq(Nat) /\ ToSet(list) \subseteq LinkedInShards(r)
    /\ Len(list) = Cardinality(ToSet(list))
    /\ Len(list) = Min({OutDegree, Cardinality(LinkedInShards(r))})

\* What is built when the shards are merged.
ShardsBuilt ==
    /\ RowsNumbered /\ stage # "asked" /\ parts \in Nat \ {0} /\ IdMapsRight
    /\ \A s \in 1 .. parts : ShardBuilt(s)

\* Each shard has been read up to the rows whose turn has not come, and the row
\* that is gathered is the last one that had a turn.
ReadRight(m) ==
    \A s \in 1 .. parts : \A r \in ToSet(idmaps[s]) : Turn(r, s) < m.next <=> Local(r, s) < m.at[s]
CurRight(m) ==
    /\ m.cur \in DOMAIN rows
    /\ \A s \in 1 .. parts : \A r \in ToSet(idmaps[s]) :
          (Turn(r, s) < m.next => r <= m.cur) /\ (r < m.cur => Turn(r, s) < m.next)
ListsRight(m) ==
    /\ Len(m.lists) = m.cur
    /\ \A i \in 1 .. m.cur : ListRight(m.lists[i], i - 1)
    /\ m.size = SizeOf(FromSeq(m.lists))

MergeRight(m) ==
    /\ m \in Merges /\ m.next \in 1 .. Len(NodeShard) + 1
    /\ ReadRight(m) /\ CurRight(m) /\ ListsRight(m)
    /\ HoodIs(m, LinkedTo(m.cur, m.next))

\* A row in a shard: its list is there, and links it to rows.
LEMMA LinkedRows ==
    ASSUME ShardsBuilt, NEW s \in 1 .. parts, NEW r \in ToSet(idmaps[s])
    PROVE  /\ r \in Nat /\ r \in DOMAIN rows /\ Local(r, s) \in 0 .. Len(idmaps[s]) - 1
           /\ idmaps[s][Local(r, s) + 1] = r
           /\ Len(shards[s].lists[Local(r, s)]) \in Nat
           /\ DOMAIN shards[s].lists[Local(r, s)] = 1 .. Len(shards[s].lists[Local(r, s)])
           /\ \A i \in 1 .. Len(shards[s].lists[Local(r, s)]) : Renamed(s, shards[s].lists[Local(r, s)][i]) \in Nat
           /\ Linked(s, r) \subseteq Nat
<1> DEFINE S == ToSet(idmaps[s])
           num == Len(idmaps[s])
           list == shards[s].lists[Local(r, s)]
<1>1. /\ S \subseteq DOMAIN rows /\ IsFiniteSet(S) /\ S \subseteq Nat
      /\ idmaps[s] = RankOrder(S) /\ idmaps[s] \in Seq(DOMAIN rows) /\ num = Cardinality(S)
  BY IdMapRows DEF ShardsBuilt
<1>2. /\ num \in Nat /\ idmaps[s] \in [1 .. num -> S]
      /\ Rank(r, S) + 1 \in 1 .. num /\ RankOrder(S)[Rank(r, S) + 1] = r
  BY <1>1, RankOrderType
<1>3. Rank(r, S) \in Nat
  BY <1>1, RankType
<1>4. Local(r, s) \in 0 .. num - 1 /\ idmaps[s][Local(r, s) + 1] = r
  BY <1>1, <1>2, <1>3 DEF Local
<1>5. list \in Seq(0 .. num - 1)
  <2>1. shards[s].lists \in [0 .. num - 1 -> Seq(0 .. num - 1)]
    BY DEF ShardsBuilt, ShardBuilt, Ids
  <2> HIDE DEF num
  <2> QED
    BY <1>4, <2>1
<1>6. \A x \in 0 .. num - 1 : Renamed(s, x) \in Nat
  <2>1. \A x \in 0 .. num - 1 : x + 1 \in 1 .. num /\ idmaps[s][x + 1] \in S
    BY <1>2
  <2> QED
    BY <1>1, <2>1 DEF Renamed
<1> HIDE DEF num, list
<1>7. Len(list) \in Nat /\ DOMAIN list = 1 .. Len(list) /\ \A i \in 1 .. Len(list) : list[i] \in 0 .. num - 1
  <2> DEFINE T == 0 .. num - 1
  <2>1. list \in Seq(T)
    BY <1>5
  <2> HIDE DEF T
  <2>2. Len(list) \in Nat /\ DOMAIN list = 1 .. Len(list) /\ \A i \in 1 .. Len(list) : list[i] \in T
    BY <2>1
  <2> QED
    BY <2>2 DEF T
<1>8. ToSet(list) \subseteq 0 .. num - 1
  BY <1>7 DEF ToSet
<1>9. Linked(s, r) \subseteq Nat
  BY <1>6, <1>8 DEF Linked, list
<1> QED
  BY <1>1, <1>4, <1>6, <1>7, <1>9 DEF num, list

\* All turns taken, a row has what its shards link it to.
LEMMA AllLinked ==
    ASSUME ShardsBuilt, Len(shards) = parts, DOMAIN shards = 1 .. parts, NEW r, NEW next,
           \A s \in 1 .. parts : r \in ToSet(idmaps[s]) => Turn(r, s) < next
    PROVE  LinkedTo(r, next) = LinkedInShards(r)
<1> DEFINE Its(s) == {j \in DOMAIN idmaps[s] : idmaps[s][j] = r}
           From(s) == {Renamed(s, x) : x \in UNION {ToSet(shards[s].lists[i - 1]) : i \in Its(s)}}
<1>1. LinkedInShards(r) = UNION {From(s) : s \in 1 .. parts}
  BY DEF LinkedInShards
<1>2. ASSUME NEW s \in 1 .. parts, r \in ToSet(idmaps[s]) PROVE From(s) = Linked(s, r)
  <2> DEFINE k == Local(r, s)
  <2>1. k \in 0 .. Len(idmaps[s]) - 1 /\ idmaps[s][k + 1] = r
    BY <1>2, LinkedRows
  <2>2. Len(idmaps[s]) \in Nat /\ DOMAIN idmaps[s] = 1 .. Len(idmaps[s])
    BY IdMapRows DEF ShardsBuilt
  <2>3. ASSUME NEW j \in DOMAIN idmaps[s], idmaps[s][j] = r PROVE j = k + 1
    <3> DEFINE S == ToSet(idmaps[s])
    <3>1. IsFiniteSet(S) /\ S \subseteq Nat /\ idmaps[s] = RankOrder(S) /\ Len(idmaps[s]) = Cardinality(S)
      BY IdMapRows DEF ShardsBuilt
    <3> HIDE DEF S
    <3>2. Rank(idmaps[s][j], S) = j - 1
      BY <2>2, <3>1, RankOrderType
    <3>3. k = j - 1
      BY <2>3, <3>2 DEF Local, S
    <3> QED
      BY <2>2, <3>3
  <2> HIDE DEF k
  <2>4. Its(s) = {k + 1} /\ (k + 1) - 1 = k
    <3>1. k + 1 \in DOMAIN idmaps[s]
      BY <2>1, <2>2
    <3>2. k + 1 \in Its(s) /\ \A j \in Its(s) : j = k + 1
      BY <2>1, <2>3, <3>1
    <3> QED
      BY <2>1, <3>2
  <2> HIDE DEF Its
  <2>5. UNION {ToSet(shards[s].lists[i - 1]) : i \in Its(s)} = ToSet(shards[s].lists[k])
    BY <2>4
  <2> QED
    BY <2>5 DEF Linked, k
<1>3. ASSUME NEW s \in 1 .. parts, r \notin ToSet(idmaps[s]) PROVE From(s) = {}
  <2>1. Its(s) = {}
    BY <1>3 DEF ToSet
  <2> QED
    BY <2>1
<1> DEFINE having == {t \in 1 .. parts : r \in ToSet(idmaps[t]) /\ Turn(r, t) < next}
<1>4. \A s \in 1 .. parts : s \in having <=> r \in ToSet(idmaps[s])
  OBVIOUS
<1>5. LinkedTo(r, next) = UNION {Linked(s, r) : s \in having}
  BY DEF LinkedTo
<1>6. having \subseteq 1 .. parts
  OBVIOUS
<1> HIDE DEF From, having
<1>7. UNION {From(s) : s \in 1 .. parts} = UNION {Linked(s, r) : s \in having}
  BY <1>2, <1>3, <1>4, <1>6
<1> QED
  BY <1>1, <1>5, <1>7

\* The node whose turn it is, and where its shard has been read to.
LEMMA NextNode ==
    ASSUME ShardsBuilt, TurnsRight, NEW m, MergeRight(m), m.next <= Len(NodeShard)
    PROVE  \E s \in 1 .. parts : \E r \in ToSet(idmaps[s]) :
              /\ NodeShard[m.next] = <<r, s>> /\ Turn(r, s) = m.next
              /\ r = m.cur \/ r = m.cur + 1
              /\ Local(r, s) = m.at[s]
<1>1. m \in Merges /\ m.next \in 1 .. Len(NodeShard) + 1 /\ ReadRight(m) /\ CurRight(m)
  BY DEF MergeRight
<1>2. Len(NodeShard) \in Nat /\ m.next \in Nat /\ m.next \in 1 .. Len(NodeShard)
  BY <1>1 DEF TurnsRight
<1>3. PICK s \in 1 .. parts : \E r \in ToSet(idmaps[s]) : NodeShard[m.next] = <<r, s>> /\ Turn(r, s) = m.next
  BY <1>2 DEF TurnsRight
<1>4. PICK r \in ToSet(idmaps[s]) : NodeShard[m.next] = <<r, s>> /\ Turn(r, s) = m.next
  BY <1>3
<1>5. N \in Nat /\ DOMAIN rows = 0 .. N - 1 /\ r \in DOMAIN rows /\ m.cur \in DOMAIN rows
  BY <1>1, LinkedRows DEF ShardsBuilt, RowsNumbered, CurRight
<1>6. ~(r < m.cur)
  BY <1>1, <1>2, <1>4 DEF CurRight
<1>7. ~(m.cur + 1 < r)
  <2> DEFINE q == m.cur + 1
  <2>1. SUFFICES ASSUME q < r PROVE FALSE
    OBVIOUS
  <2>2. q \in DOMAIN rows
    BY <1>5, <2>1
  <2>3. PICK t \in 1 .. parts : q \in ToSet(idmaps[t])
    BY <2>2 DEF ShardsBuilt, IdMapsRight
  <2>4. Turn(q, t) < Turn(r, s)
    BY <2>1, <2>3 DEF TurnsRight
  <2>5. q <= m.cur
    BY <1>1, <1>4, <2>3, <2>4 DEF CurRight
  <2> QED
    BY <1>5, <2>5
<1>8. r = m.cur \/ r = m.cur + 1
  BY <1>5, <1>6, <1>7
<1> DEFINE S == ToSet(idmaps[s])
           a == m.at[s]
<1>9. IsFiniteSet(S) /\ S \subseteq Nat
  BY IdMapRows DEF ShardsBuilt
<1>10. a \in Nat
  <2>1. m.at \in [1 .. parts -> Nat]
    BY <1>1 DEF Merges
  <2> QED
    BY <2>1
<1>11. Rank(r, S) \in Nat /\ Rank(r, S) < Cardinality(S) /\ Cardinality(S) \in Nat
  BY <1>9, RankType, RankBelow, FS_CardinalityType
<1>12. ~(Rank(r, S) < a)
  <2>1. ~(Turn(r, s) < m.next)
    BY <1>2, <1>4
  <2> QED
    BY <1>1, <2>1 DEF ReadRight, Local
<1>13. ~(a < Rank(r, S))
  <2>1. SUFFICES ASSUME a < Rank(r, S) PROVE FALSE
    OBVIOUS
  <2>2. a \in 0 .. Cardinality(S) - 1
    BY <1>10, <1>11, <2>1
  <2> HIDE DEF a, S
  <2>3. PICK q \in S : Rank(q, S) = a
    BY <1>9, <2>2, RankOnto
  <2>4. q \in Nat /\ r \in Nat /\ r \in S
    BY <1>5, <1>9 DEF S
  <2>5. q < r
    <3>1. q # r
      BY <1>10, <2>1, <2>3
    <3>2. ~(r < q)
      <4>1. r < q => Rank(r, S) < Rank(q, S)
        BY <1>9, <2>4, RankLess
      <4> QED
        BY <1>10, <1>11, <2>1, <2>3, <4>1
    <3> QED
      BY <2>4, <3>1, <3>2
  <2>6. Turn(q, s) < Turn(r, s)
    BY <2>5, <2>3 DEF TurnsRight, S
  <2>7. Rank(q, S) < a
    BY <1>1, <1>4, <2>3, <2>6 DEF ReadRight, Local, S, a
  <2> QED
    BY <1>10, <2>3, <2>7
<1>14. Rank(r, S) = a
  BY <1>10, <1>11, <1>12, <1>13
<1> QED
  BY <1>4, <1>8, <1>14 DEF Local

\* One more turn reads one more row from its shard.
LEMMA ReadOne ==
    ASSUME ShardsBuilt, TurnsRight, NEW m, MergeRight(m), NEW n \in Merges,
           NEW s \in 1 .. parts, NEW r \in ToSet(idmaps[s]), Turn(r, s) = m.next,
           m.next <= Len(NodeShard), r = m.cur \/ r = m.cur + 1, Local(r, s) = m.at[s],
           n.next = m.next + 1, n.cur = r, n.at = [m.at EXCEPT ![s] = @ + 1]
    PROVE  n.next \in 1 .. Len(NodeShard) + 1 /\ ReadRight(n) /\ CurRight(n)
<1>1. m \in Merges /\ m.next \in 1 .. Len(NodeShard) + 1 /\ ReadRight(m) /\ CurRight(m)
  BY DEF MergeRight
<1>2. Len(NodeShard) \in Nat /\ m.next \in Nat /\ m.next \in 1 .. Len(NodeShard)
  BY <1>1 DEF TurnsRight
<1>3. m.at \in [1 .. parts -> Nat] /\ m.cur \in Nat
  BY <1>1 DEF Merges
<1>4. n.next \in 1 .. Len(NodeShard) + 1
  BY <1>2
<1>5. ASSUME NEW t \in 1 .. parts, NEW q \in ToSet(idmaps[t])
      PROVE  /\ Turn(q, t) \in Nat /\ q \in Nat
             /\ Turn(q, t) = m.next => q = r /\ t = s
  <2>1. Turn(q, t) \in 1 .. Len(NodeShard) /\ NodeShard[Turn(q, t)] = <<q, t>>
        /\ NodeShard[Turn(r, s)] = <<r, s>>
    BY DEF TurnsRight
  <2>2. q \in Nat
    BY LinkedRows
  <2> QED
    BY <1>2, <2>1, <2>2
<1>6. r \in DOMAIN rows /\ r \in Nat
  BY LinkedRows
<1>7. ASSUME NEW t \in 1 .. parts, NEW q \in ToSet(idmaps[t])
      PROVE  Turn(q, t) < n.next <=> Local(q, t) < n.at[t]
  <2>1. Turn(q, t) < n.next <=> Turn(q, t) < m.next \/ Turn(q, t) = m.next
    BY <1>2, <1>5
  <2>2. Turn(q, t) < m.next <=> Local(q, t) < m.at[t]
    BY <1>1 DEF ReadRight
  <2>3. CASE t = s
    <3> DEFINE S == ToSet(idmaps[s])
    <3>1. IsFiniteSet(S) /\ S \subseteq Nat /\ q \in S /\ r \in S
      BY <2>3, IdMapRows DEF ShardsBuilt
    <3> HIDE DEF S
    <3>2. Rank(q, S) \in Nat /\ Rank(r, S) \in Nat /\ (Rank(q, S) = Rank(r, S) => q = r)
      BY <3>1, RankType, RankInjective
    <3>3. Local(q, t) = Rank(q, S) /\ Local(r, s) = Rank(r, S)
      BY <2>3 DEF Local, S
    <3>4. n.at[t] = m.at[s] + 1 /\ m.at[s] = Rank(r, S)
      BY <1>3, <2>3, <3>3
    <3>5. Local(q, t) < n.at[t] <=> Local(q, t) < m.at[s] \/ q = r
      BY <3>2, <3>3, <3>4
    <3>6. Turn(q, t) = m.next <=> q = r
      BY <1>5, <2>3
    <3> QED
      BY <2>1, <2>2, <2>3, <3>5, <3>6
  <2>4. CASE t # s
    <3>1. n.at[t] = m.at[t] /\ Turn(q, t) # m.next
      BY <1>3, <1>5, <2>4
    <3> QED
      BY <2>1, <2>2, <3>1
  <2> QED
    BY <2>3, <2>4
<1>8. ASSUME NEW t \in 1 .. parts, NEW q \in ToSet(idmaps[t])
      PROVE  (Turn(q, t) < n.next => q <= n.cur) /\ (q < n.cur => Turn(q, t) < n.next)
  <2>1. ASSUME Turn(q, t) < n.next PROVE q <= n.cur
    <3>1. CASE Turn(q, t) < m.next
      <4>1. q <= m.cur /\ q \in Nat
        BY <1>1, <1>5, <3>1 DEF CurRight
      <4> QED
        BY <1>3, <1>6, <4>1
    <3>2. CASE Turn(q, t) = m.next
      BY <1>5, <1>6, <3>2
    <3> QED
      BY <1>2, <1>5, <2>1, <3>1, <3>2
  <2>2. ASSUME q < n.cur PROVE Turn(q, t) < n.next
    <3>1. Turn(q, t) < Turn(r, s)
      BY <2>2 DEF TurnsRight
    <3> QED
      BY <1>2, <1>5, <3>1
  <2> QED
    BY <2>1, <2>2
<1>9. n.cur \in DOMAIN rows
  BY <1>6
<1> QED
  BY <1>4, <1>7, <1>8, <1>9 DEF ReadRight, CurRight

\* What is gathered for the row whose turn it is.
LEMMA LinkedNext ==
    ASSUME ShardsBuilt, TurnsRight, NEW m, MergeRight(m), m.next <= Len(NodeShard),
           NEW s \in 1 .. parts, NEW r \in ToSet(idmaps[s]), Turn(r, s) = m.next
    PROVE  /\ LinkedTo(r, m.next + 1) = LinkedTo(r, m.next) \cup Linked(s, r)
           /\ m.cur < r => LinkedTo(r, m.next) = {}
<1>1. m \in Merges /\ m.next \in 1 .. Len(NodeShard) + 1 /\ CurRight(m)
  BY DEF MergeRight
<1>2. m.next \in Nat
  BY <1>1 DEF TurnsRight
<1>3. ASSUME NEW t \in 1 .. parts, r \in ToSet(idmaps[t])
      PROVE  Turn(r, t) < m.next + 1 <=> Turn(r, t) < m.next \/ t = s
  <2>1. Turn(r, t) \in 1 .. Len(NodeShard) /\ NodeShard[Turn(r, t)] = <<r, t>>
        /\ NodeShard[Turn(r, s)] = <<r, s>> /\ Len(NodeShard) \in Nat
    BY <1>3 DEF TurnsRight
  <2>2. Turn(r, t) = m.next <=> t = s
    BY <2>1
  <2> QED
    BY <1>2, <2>1, <2>2
<1> DEFINE having(k) == {t \in 1 .. parts : r \in ToSet(idmaps[t]) /\ Turn(r, t) < k}
<1>4. having(m.next + 1) = having(m.next) \cup {s}
  BY <1>3
<1>5. \A k : LinkedTo(r, k) = UNION {Linked(t, r) : t \in having(k)}
  BY DEF LinkedTo
<1>6. m.cur < r => having(m.next) = {}
  <2>1. r \in Nat /\ m.cur \in Nat
    BY <1>1, LinkedRows DEF Merges
  <2>2. \A t \in 1 .. parts : r \in ToSet(idmaps[t]) /\ Turn(r, t) < m.next => r <= m.cur
    BY <1>1 DEF CurRight
  <2> QED
    BY <2>1, <2>2
<1> HIDE DEF having
<1> QED
  BY <1>4, <1>5, <1>6

\* The list of a row all of whose turns are over is written as it should be.
LEMMA WriteOne ==
    ASSUME ShardsBuilt, Len(shards) = parts, DOMAIN shards = 1 .. parts,
           NEW m, MergeRight(m), NEW list \in Cuts(m.hood),
           \A s \in 1 .. parts : m.cur \in ToSet(idmaps[s]) => Turn(m.cur, s) < m.next,
           NEW w, w = Emptied(Written(m, list))
    PROVE  /\ w \in Merges /\ w.next = m.next /\ w.at = m.at /\ w.cur = m.cur /\ HoodIs(w, {})
           /\ Len(w.lists) = m.cur + 1
           /\ \A i \in 1 .. m.cur + 1 : ListRight(w.lists[i], i - 1)
           /\ w.size = SizeOf(FromSeq(w.lists))
<1>1. m \in Merges /\ ListsRight(m) /\ HoodIs(m, LinkedTo(m.cur, m.next))
  BY DEF MergeRight
<1>2. /\ m.hood \in Seq(Nat) /\ m.lists \in Seq(Seq(Nat)) /\ m.size \in Nat /\ m.cur \in Nat
      /\ m.marked \in SUBSET Nat
  BY <1>1 DEF Merges
<1>3. Distinct(m.hood) /\ m.marked = ToSet(m.hood) /\ ToSet(m.hood) = LinkedInShards(m.cur)
  BY <1>1, AllLinked DEF HoodIs
<1>4. ListRight(list, m.cur)
  <2> DEFINE hood == m.hood
  <2>1. hood \in Seq(Nat) /\ Distinct(hood) /\ list \in Cuts(hood)
    BY <1>2, <1>3
  <2> HIDE DEF hood
  <2>2. /\ list \in Seq(Nat) /\ ToSet(list) \subseteq ToSet(hood)
        /\ Len(list) = Cardinality(ToSet(list))
        /\ Len(list) = Min({OutDegree, Cardinality(ToSet(hood))})
    BY <2>1, CutRight
  <2>3. ToSet(hood) = LinkedInShards(m.cur)
    BY <1>3 DEF hood
  <2> QED
    BY <2>2, <2>3 DEF ListRight
<1>5. list \in Seq(Nat) /\ Len(list) \in Nat
  BY <1>4 DEF ListRight
<1> DEFINE lists == m.lists
           more == Append(lists, list)
<1>6. /\ more \in Seq(Seq(Nat)) /\ Len(more) = m.cur + 1 /\ more[m.cur + 1] = list
      /\ \A i \in 1 .. m.cur : more[i] = lists[i]
  <2> DEFINE Lists == Seq(Nat)
             num == m.cur
  <2>1. lists \in Seq(Lists) /\ Len(lists) = num /\ list \in Lists /\ num \in Nat
    BY <1>1, <1>2, <1>5 DEF ListsRight
  <2> HIDE DEF lists, Lists, num
  <2>2. /\ Append(lists, list) \in Seq(Lists) /\ Len(Append(lists, list)) = num + 1
        /\ Append(lists, list)[num + 1] = list /\ \A i \in 1 .. num : Append(lists, list)[i] = lists[i]
    BY <2>1
  <2> QED
    BY <2>2 DEF Lists, num
<1>7. SizeOf(FromSeq(more)) = m.size + 4 * (1 + Len(list))
  BY <1>1, <1>2, <1>5, SizeGrows DEF ListsRight
<1>8. m.size + 4 * (1 + Len(list)) \in Nat
  BY <1>2, <1>5
<1> HIDE DEF more
<1> DEFINE v == Written(m, list)
<1>9. v = [m EXCEPT !.lists = more, !.size = m.size + 4 * (1 + Len(list))]
  BY DEF Written, more
<1>10. /\ v \in Merges /\ v.next = m.next /\ v.at = m.at /\ v.cur = m.cur /\ v.hood = m.hood
       /\ v.marked = m.marked /\ v.lists = more /\ v.size = SizeOf(FromSeq(more))
  <2> HIDE DEF v
  <2> QED
    BY <1>1, <1>6, <1>7, <1>8, <1>9 DEF Merges
<1>11. w = [v EXCEPT !.hood = <<>>, !.marked = v.marked \ ToSet(m.hood)]
  BY <1>10 DEF Emptied
<1> HIDE DEF v
<1>12. v.marked \ ToSet(m.hood) = {}
  BY <1>3, <1>10
<1>13. /\ w \in Merges /\ w.next = m.next /\ w.at = m.at /\ w.cur = m.cur /\ w.hood = <<>>
       /\ w.marked = {} /\ w.lists = more /\ w.size = SizeOf(FromSeq(more))
  <2>1. w = [v EXCEPT !.hood = <<>>, !.marked = {}]
    BY <1>11, <1>12
  <2>2. <<>> \in Seq(Nat) /\ {} \in SUBSET Nat
    OBVIOUS
  <2>3. /\ w \in Merges /\ w.next = v.next /\ w.at = v.at /\ w.cur = v.cur /\ w.hood = <<>>
        /\ w.marked = {} /\ w.lists = v.lists /\ w.size = v.size
    BY <1>10, <2>1, <2>2 DEF Merges
  <2> QED
    BY <1>10, <2>3
<1>14. HoodIs(w, {})
  <2>1. ToSet(<<>>) = {} /\ Distinct(<<>>)
    BY DEF ToSet, Distinct
  <2> QED
    BY <1>13, <2>1 DEF HoodIs
<1>15. \A i \in 1 .. m.cur + 1 : ListRight(more[i], i - 1)
  <2>1. ASSUME NEW i \in 1 .. m.cur + 1 PROVE ListRight(more[i], i - 1)
    <3>1. CASE i = m.cur + 1
      <4>1. more[i] = list /\ i - 1 = m.cur
        BY <1>2, <1>6, <3>1
      <4> QED
        BY <1>4, <4>1
    <3>2. CASE i # m.cur + 1
      <4>1. i \in 1 .. m.cur
        <5> DEFINE num == m.cur
        <5>1. num \in Nat /\ i \in 1 .. num + 1 /\ i # num + 1
          BY <1>2, <3>2
        <5> HIDE DEF num
        <5>2. i \in 1 .. num
          BY <5>1
        <5> QED
          BY <5>2 DEF num
      <4>2. more[i] = m.lists[i]
        BY <1>6, <4>1
      <4> QED
        BY <1>1, <4>1, <4>2 DEF ListsRight
    <3> QED
      BY <3>1, <3>2
  <2> QED
    BY <2>1
<1> QED
  BY <1>6, <1>13, <1>14, <1>15

\* What one turn does: write what was gathered when the row changes, read the next list.
AfterTurn(x, r, s) == [Gathered(x, s) EXCEPT !.next = @ + 1, !.cur = r]

LEMMA TurnKeeps ==
    ASSUME ShardsBuilt, TurnsRight, Len(shards) = parts, DOMAIN shards = 1 .. parts,
           NEW m, MergeRight(m), m.next <= Len(NodeShard), NEW n, NEW r, NEW s,
           NodeShard[m.next] = <<r, s>>,
           \/ /\ m.cur < r
              /\ \E list \in Cuts(m.hood) : n = AfterTurn(Emptied(Written(m, list)), r, s)
           \/ m.cur >= r /\ n = AfterTurn(m, r, s)
    PROVE  MergeRight(n)
<1>1. PICK t \in 1 .. parts : \E q \in ToSet(idmaps[t]) :
              /\ NodeShard[m.next] = <<q, t>> /\ Turn(q, t) = m.next
              /\ q = m.cur \/ q = m.cur + 1
              /\ Local(q, t) = m.at[t]
  BY NextNode
<1>2. /\ s \in 1 .. parts /\ r \in ToSet(idmaps[s]) /\ Turn(r, s) = m.next
      /\ r = m.cur \/ r = m.cur + 1
      /\ Local(r, s) = m.at[s]
  BY <1>1
<1>3. m \in Merges /\ CurRight(m) /\ ListsRight(m) /\ HoodIs(m, LinkedTo(m.cur, m.next)) /\ m.cur \in Nat
  BY DEF MergeRight, Merges
<1> DEFINE Before(x) == /\ x \in Merges /\ x.next = m.next /\ x.at = m.at /\ x.cur = m.cur
                        /\ HoodIs(x, LinkedTo(r, m.next))
                        /\ Len(x.lists) = r /\ x.size = SizeOf(FromSeq(x.lists))
                        /\ \A i \in 1 .. r : ListRight(x.lists[i], i - 1)
<1>4. \E x : Before(x) /\ n = AfterTurn(x, r, s)
  <2>1. CASE m.cur < r
    <3>1. r = m.cur + 1 /\ ~(m.cur >= r)
      BY <1>2, <1>3, <2>1
    <3>2. PICK list \in Cuts(m.hood) : n = AfterTurn(Emptied(Written(m, list)), r, s)
      BY <3>1
    <3> DEFINE w == Emptied(Written(m, list))
    <3>3. ASSUME NEW u \in 1 .. parts, m.cur \in ToSet(idmaps[u]) PROVE Turn(m.cur, u) < m.next
      BY <1>2, <2>1, <3>3 DEF TurnsRight
    <3>4. /\ w \in Merges /\ w.next = m.next /\ w.at = m.at /\ w.cur = m.cur /\ HoodIs(w, {})
          /\ Len(w.lists) = m.cur + 1
          /\ \A i \in 1 .. m.cur + 1 : ListRight(w.lists[i], i - 1)
          /\ w.size = SizeOf(FromSeq(w.lists))
      BY <3>3, WriteOne
    <3> HIDE DEF w
    <3>5. LinkedTo(r, m.next) = {}
      BY <1>2, <2>1, LinkedNext
    <3>6. Before(w) /\ n = AfterTurn(w, r, s)
      BY <3>1, <3>2, <3>4, <3>5 DEF w
    <3> QED
      BY <3>6
  <2>2. CASE ~(m.cur < r)
    <3>1. r = m.cur /\ n = AfterTurn(m, r, s)
      BY <1>2, <1>3, <2>2
    <3>2. Before(m)
      BY <1>3, <3>1 DEF ListsRight
    <3> QED
      BY <3>1, <3>2
  <2> QED
    BY <2>1, <2>2
<1>5. PICK x : Before(x) /\ n = AfterTurn(x, r, s)
  BY <1>4
<1> DEFINE list == shards[s].lists[x.at[s]]
           g == Gathered(x, s)
<1>6. x.at = m.at /\ list = shards[s].lists[Local(r, s)]
  BY <1>2, <1>5
<1> HIDE DEF list
<1>7. /\ r \in Nat /\ Len(list) \in Nat /\ DOMAIN list = 1 .. Len(list)
      /\ \A i \in 1 .. Len(list) : Renamed(s, list[i]) \in Nat
  BY <1>2, <1>6, LinkedRows
<1>8. Linked(s, r) = {Renamed(s, y) : y \in ToSet(list)}
  BY <1>6 DEF Linked
<1>9. /\ g \in Merges /\ SameRest(g, x) /\ g.at = [x.at EXCEPT ![s] = @ + 1]
      /\ HoodIs(g, LinkedTo(r, m.next) \cup Linked(s, r))
  <2> DEFINE S == LinkedTo(r, m.next)
  <2>1. IsNextOf(x, s, list) /\ x \in Merges /\ HoodIs(x, S)
    BY <1>5 DEF list, IsNextOf
  <2> HIDE DEF S, Before
  <2>2. /\ g \in Merges /\ SameRest(g, x) /\ g.at = [x.at EXCEPT ![s] = @ + 1]
        /\ HoodIs(g, S \cup {Renamed(s, y) : y \in ToSet(list)})
    BY <1>2, <1>7, <2>1, GatheredRight
  <2> QED
    BY <1>8, <2>2 DEF S
<1>10. n = [g EXCEPT !.next = @ + 1, !.cur = r]
  BY <1>5 DEF AfterTurn
<1> HIDE DEF g
<1>11. /\ n \in Merges /\ n.next = m.next + 1 /\ n.cur = r /\ n.at = [m.at EXCEPT ![s] = @ + 1]
       /\ n.lists = x.lists /\ n.size = x.size /\ n.hood = g.hood /\ n.marked = g.marked
  <2>1. g.next = m.next /\ g.lists = x.lists /\ g.size = x.size /\ g.at = [m.at EXCEPT ![s] = @ + 1]
    BY <1>5, <1>9 DEF SameRest
  <2>2. g.next + 1 \in Nat
    BY <1>9 DEF Merges
  <2> QED
    BY <1>7, <1>9, <1>10, <2>1, <2>2 DEF Merges
<1>12. n.next \in 1 .. Len(NodeShard) + 1 /\ ReadRight(n) /\ CurRight(n)
  BY <1>2, <1>11, ReadOne
<1>13. ListsRight(n)
  BY <1>5, <1>11 DEF ListsRight
<1>14. HoodIs(n, LinkedTo(n.cur, n.next))
  <2>1. LinkedTo(r, m.next + 1) = LinkedTo(r, m.next) \cup Linked(s, r)
    BY <1>2, LinkedNext
  <2> QED
    BY <1>9, <1>11, <2>1 DEF HoodIs
<1> QED
  BY <1>11, <1>12, <1>13, <1>14 DEF MergeRight

MergeInv ==
    /\ stage = "merge" => MergeRight(merge)
    /\ MergedIsUnion

LEMMA BuiltShards ==
    ASSUME BuildInv, stage \in {"shards", "merge"}, Len(shards) = parts
    PROVE  ShardsBuilt /\ TurnsRight /\ DOMAIN shards = 1 .. parts
<1>1. RowsNumbered /\ stage # "asked" /\ parts \in Nat \ {0} /\ IdMapsRight /\ ShardsRight
  BY DEF BuildInv, ShardInv
<1>2. TurnsRight
  BY <1>1, TurnsHold
<1>3. DOMAIN shards = 1 .. parts
  BY <1>1 DEF ShardsRight
<1>4. ShardsBuilt
  BY <1>1 DEF ShardsBuilt, ShardsRight
<1> QED
  BY <1>2, <1>3, <1>4

\* What is right of a merge stays so when only the merge changes.
LEMMA SameMerge ==
    ASSUME UNCHANGED <<rows, parts, idmaps, shards>>, MergeRight(merge')
    PROVE  MergeRight(merge)'
<1>1. UNCHANGED ReadPlaces /\ UNCHANGED NodeShard
  BY DEF ReadPlaces, NodeShard, PlaceOf
<1>2. \A r, s : Turn(r, s)' = Turn(r, s) /\ Local(r, s)' = Local(r, s) /\ Linked(s, r)' = Linked(s, r)
  BY <1>1 DEF Turn, PlaceOf, Local, Linked, Renamed
<1>3. \A r, k : LinkedTo(r, k)' = LinkedTo(r, k)
  BY <1>2 DEF LinkedTo
<1>4. \A r : LinkedInShards(r)' = LinkedInShards(r)
  BY DEF LinkedInShards, Renamed
<1>5. \A list, r : ListRight(list, r)' <=> ListRight(list, r)
  BY <1>4 DEF ListRight
<1>6. merge' \in Merges /\ ReadRight(merge') /\ CurRight(merge') /\ ListsRight(merge')
      /\ merge'.next \in 1 .. Len(NodeShard) + 1 /\ HoodIs(merge', LinkedTo(merge'.cur, merge'.next))
  BY DEF MergeRight
<1>7. (merge \in Merges)'
  BY <1>6 DEF Merges
<1>8. ReadRight(merge)' /\ CurRight(merge)'
  BY <1>2, <1>6 DEF ReadRight, CurRight
<1>9. ListsRight(merge)'
  BY <1>5, <1>6 DEF ListsRight, SizeOf, FromSeq, Ids
<1>10. HoodIs(merge, LinkedTo(merge.cur, merge.next))'
  BY <1>3, <1>6 DEF HoodIs, Distinct
<1> QED
  BY <1>1, <1>6, <1>7, <1>8, <1>9, <1>10 DEF MergeRight

LEMMA StartMergeRight ==
    ASSUME BuildInv, StartMerge PROVE MergeInv'
<1>1. /\ stage = "shards" /\ stage' = "merge" /\ Len(shards) = parts /\ UNCHANGED <<rows, parts, idmaps, shards>>
      /\ merge' = [NoMerge EXCEPT !.at = [s \in DOMAIN shards |-> 0], !.size = 24]
  BY DEF StartMerge
<1>2. ShardsBuilt /\ TurnsRight /\ DOMAIN shards = 1 .. parts
  BY <1>1, BuiltShards
<1> DEFINE m == merge'
<1>3. /\ m \in Merges /\ m.next = 1 /\ m.at = [s \in 1 .. parts |-> 0] /\ m.cur = 0 /\ m.hood = <<>>
      /\ m.marked = {} /\ m.lists = <<>> /\ m.size = 24
  <2>1. <<>> \in Seq(Nat) /\ <<>> \in Seq(Seq(Nat)) /\ [s \in 1 .. parts |-> 0] \in [1 .. parts -> Nat]
    OBVIOUS
  <2>2. m = [next |-> 1, at |-> [s \in 1 .. parts |-> 0], cur |-> 0, hood |-> <<>>, marked |-> {},
             lists |-> <<>>, size |-> 24]
    BY <1>1, <1>2 DEF NoMerge
  <2> HIDE DEF m
  <2> QED
    BY <2>1, <2>2 DEF Merges
<1> HIDE DEF m
<1>4. \A s \in 1 .. parts : \A r \in ToSet(idmaps[s]) :
         Turn(r, s) \in Nat /\ Turn(r, s) >= 1 /\ Local(r, s) \in Nat /\ r \in Nat
  <2>1. ASSUME NEW s \in 1 .. parts, NEW r \in ToSet(idmaps[s])
        PROVE  Turn(r, s) \in Nat /\ Turn(r, s) >= 1 /\ Local(r, s) \in Nat /\ r \in Nat
    <3>1. Turn(r, s) \in 1 .. Len(NodeShard) /\ Len(NodeShard) \in Nat
      BY <1>2 DEF TurnsRight
    <3>2. Local(r, s) \in 0 .. Len(idmaps[s]) - 1 /\ r \in Nat
      BY <1>2, LinkedRows
    <3> QED
      BY <3>1, <3>2
  <2> QED
    BY <2>1
<1>5. m.next \in 1 .. Len(NodeShard) + 1
  BY <1>2, <1>3 DEF TurnsRight
<1>6. ReadRight(m)
  BY <1>3, <1>4 DEF ReadRight
<1>7. 0 \in DOMAIN rows
  <2>1. N \in Nat /\ DOMAIN rows = 0 .. N - 1
    BY <1>2 DEF ShardsBuilt, RowsNumbered
  <2>2. 1 \in 1 .. parts
    BY <1>2 DEF ShardsBuilt
  <2>3. shards[1].entry \in 0 .. Len(idmaps[1]) - 1
    BY <1>2, <2>2 DEF ShardsBuilt, ShardBuilt, Ids
  <2>4. idmaps[1] \in Seq(DOMAIN rows)
    BY <1>2, <2>2, IdMapRows DEF ShardsBuilt
  <2>5. Len(idmaps[1]) \in Nat /\ 1 \in 1 .. Len(idmaps[1])
    BY <2>3, <2>4
  <2>6. idmaps[1][1] \in DOMAIN rows
    BY <2>4, <2>5
  <2> QED
    BY <2>1, <2>6
<1>8. CurRight(m)
  BY <1>3, <1>4, <1>7 DEF CurRight
<1>9. ListsRight(m)
  <2>1. Len(<<>>) = 0 /\ 1 .. 0 = {}
    OBVIOUS
  <2> QED
    BY <1>3, <2>1, SizeOfNone DEF ListsRight
<1>10. HoodIs(m, LinkedTo(m.cur, m.next))
  <2>1. LinkedTo(0, 1) = {}
    <3>1. {t \in 1 .. parts : 0 \in ToSet(idmaps[t]) /\ Turn(0, t) < 1} = {}
      BY <1>4
    <3> QED
      BY <3>1 DEF LinkedTo
  <2>2. ToSet(<<>>) = {} /\ Distinct(<<>>)
    BY DEF ToSet, Distinct
  <2> QED
    BY <1>3, <2>1, <2>2 DEF HoodIs
<1>11. MergeRight(merge')
  BY <1>3, <1>5, <1>6, <1>8, <1>9, <1>10 DEF MergeRight, m
<1>12. MergeRight(merge)'
  BY <1>1, <1>11, SameMerge
<1> QED
  BY <1>1, <1>12 DEF MergeInv, MergedIsUnion

LEMMA MergeNodeRight ==
    ASSUME BuildInv, MergeInv, MergeNode PROVE MergeInv'
<1>1. /\ stage = "merge" /\ stage' = "merge" /\ merge.next <= Len(NodeShard)
      /\ UNCHANGED <<rows, parts, idmaps, shards>>
  BY DEF MergeNode
<1>2. Len(shards) = parts
  BY <1>1 DEF BuildInv, ShardInv
<1>3. ShardsBuilt /\ TurnsRight /\ DOMAIN shards = 1 .. parts
  BY <1>1, <1>2, BuiltShards
<1>4. MergeRight(merge)
  BY <1>1 DEF MergeInv
<1> DEFINE r == NodeShard[merge.next][1]
           s == NodeShard[merge.next][2]
<1>5. \/ /\ merge.cur < r
         /\ \E list \in Cuts(merge.hood) : merge' = AfterTurn(Emptied(Written(merge, list)), r, s)
      \/ merge.cur >= r /\ merge' = AfterTurn(merge, r, s)
  BY DEF MergeNode, AfterTurn
<1>6. NodeShard[merge.next] = <<r, s>>
  <2>1. \E q, t : NodeShard[merge.next] = <<q, t>>
    BY <1>1, <1>3, <1>4, NextNode
  <2> QED
    BY <2>1
<1> HIDE DEF r, s
<1>7. MergeRight(merge')
  BY <1>1, <1>2, <1>3, <1>4, <1>5, <1>6, TurnKeeps
<1>8. MergeRight(merge)'
  BY <1>1, <1>7, SameMerge
<1> QED
  BY <1>1, <1>8 DEF MergeInv, MergedIsUnion

\* The file of the merged index has the right list for each row.
LEMMA EndMergeLists ==
    ASSUME BuildInv, MergeInv, EndMerge
    PROVE  /\ DOMAIN index'.lists = DOMAIN rows /\ index'.size = SizeOf(index'.lists)
           /\ \A r \in DOMAIN rows : ListRight(index'.lists[r], r)
<1>1. /\ stage = "merge" /\ stage' = "merged" /\ ~(merge.next <= Len(NodeShard))
      /\ UNCHANGED <<rows, parts, idmaps, shards>>
  <2>1. stage = "merge" /\ stage' = "merged" /\ merge.next > Len(NodeShard)
        /\ UNCHANGED <<rows, parts, idmaps, shards>>
    BY DEF EndMerge
  <2>2. Len(NodeShard) \in Nat /\ merge.next \in Nat
    <3>1. Len(shards) = parts
      BY <2>1 DEF BuildInv, ShardInv
    <3> QED
      BY <2>1, <3>1, BuiltShards DEF MergeInv, MergeRight, Merges, TurnsRight
  <2> QED
    BY <2>1, <2>2
<1>2. Len(shards) = parts /\ DOMAIN index = {"lists", "entry", "size"}
  BY <1>1 DEF BuildInv, ShardInv
<1>3. ShardsBuilt /\ TurnsRight /\ DOMAIN shards = 1 .. parts
  BY <1>1, <1>2, BuiltShards
<1>4. MergeRight(merge)
  BY <1>1 DEF MergeInv
<1>5. PICK list \in Cuts(merge.hood) :
         LET m == Emptied(Written(merge, list))
         IN  index' = [index EXCEPT !.lists = FromSeq(m.lists), !.size = m.size]
  BY DEF EndMerge
<1> DEFINE w == Emptied(Written(merge, list))
           num == merge.cur
<1>6. index'.lists = FromSeq(w.lists) /\ index'.size = w.size
  BY <1>2, <1>5
<1>7. /\ merge.next \in 1 .. Len(NodeShard) + 1 /\ CurRight(merge) /\ num \in Nat
      /\ merge.next \in Nat /\ Len(NodeShard) \in Nat
  BY <1>3, <1>4 DEF MergeRight, TurnsRight, Merges
<1>8. ASSUME NEW s \in 1 .. parts, NEW r \in ToSet(idmaps[s])
      PROVE  Turn(r, s) < merge.next /\ r <= num
  <2>1. Turn(r, s) \in 1 .. Len(NodeShard)
    BY <1>3 DEF TurnsRight
  <2>2. Turn(r, s) < merge.next
    BY <1>1, <1>7, <2>1
  <2> QED
    BY <1>7, <2>2 DEF CurRight
<1>9. /\ Len(w.lists) = num + 1 /\ w.size = SizeOf(FromSeq(w.lists))
      /\ \A i \in 1 .. num + 1 : ListRight(w.lists[i], i - 1)
  BY <1>2, <1>3, <1>4, <1>8, WriteOne
<1>10. N \in Nat /\ DOMAIN rows = 0 .. N - 1 /\ num \in DOMAIN rows
  BY <1>3, <1>7 DEF ShardsBuilt, RowsNumbered, CurRight
<1>11. num = N - 1
  <2>1. N - 1 \in DOMAIN rows
    BY <1>10
  <2>2. PICK s \in 1 .. parts : N - 1 \in ToSet(idmaps[s])
    BY <1>3, <2>1 DEF ShardsBuilt, IdMapsRight
  <2>3. N - 1 <= num
    BY <1>8, <2>2
  <2> QED
    BY <1>10, <2>3
<1> HIDE DEF w, num
<1> DEFINE lists == index'.lists
<1>12. DOMAIN lists = DOMAIN rows /\ index'.size = SizeOf(lists)
  <2>1. DOMAIN lists = 0 .. (num + 1) - 1
    BY <1>6, <1>9 DEF FromSeq, Ids
  <2> QED
    BY <1>6, <1>9, <1>10, <1>11, <2>1
<1>13. ASSUME NEW r \in DOMAIN rows PROVE ListRight(lists[r], r)
  <2>1. r \in 0 .. (num + 1) - 1 /\ r + 1 \in 1 .. num + 1 /\ (r + 1) - 1 = r
    BY <1>10, <1>11
  <2>2. lists[r] = w.lists[r + 1]
    BY <1>6, <1>9, <2>1 DEF FromSeq, Ids
  <2> QED
    BY <1>9, <2>1, <2>2
<1> QED
  BY <1>12, <1>13

LEMMA EndMergeRight ==
    ASSUME BuildInv, MergeInv, EndMerge PROVE MergeInv'
<1> DEFINE lists == index'.lists
<1>1. stage' = "merged" /\ UNCHANGED <<rows, parts, idmaps, shards>>
  BY DEF EndMerge
<1>2. /\ DOMAIN lists = DOMAIN rows /\ index'.size = SizeOf(lists)
      /\ \A r \in DOMAIN rows : ListRight(lists[r], r)
  BY EndMergeLists
<1>3. \A r : LinkedInShards(r)' = LinkedInShards(r)
  BY <1>1 DEF LinkedInShards, Renamed
<1>4. SizeOf(index.lists)' = SizeOf(lists)
  BY DEF SizeOf
<1>5. \A r \in DOMAIN rows' :
         /\ ToSet(lists[r]) \subseteq LinkedInShards(r)'
         /\ Len(lists[r]) = Cardinality(ToSet(lists[r]))
         /\ Len(lists[r]) = Min({OutDegree, Cardinality(LinkedInShards(r)')})
  BY <1>1, <1>2, <1>3 DEF ListRight
<1>6. MergedIsUnion'
  BY <1>1, <1>2, <1>4, <1>5 DEF MergedIsUnion
<1> QED
  BY <1>1, <1>6 DEF MergeInv

LEMMA MergeInvNext ==
    ASSUME BuildInv, MergeInv, [Next]_vars PROVE MergeInv'
<1>1. ASSUME stage' \notin {"merge", "merged"} PROVE MergeInv'
  BY <1>1 DEF MergeInv, MergedIsUnion
<1>2. ASSUME UNCHANGED <<stage, rows, parts, idmaps, shards, merge, index>> PROVE MergeInv'
  <2>1. stage = "merge" => MergeRight(merge)'
    <3>1. stage = "merge" => MergeRight(merge')
      BY <1>2 DEF MergeInv
    <3> QED
      BY <1>2, <3>1, SameMerge
  <2>2. MergedIsUnion'
    <3>1. \A r : LinkedInShards(r)' = LinkedInShards(r)
      BY <1>2 DEF LinkedInShards, Renamed
    <3>2. SizeOf(index.lists)' = SizeOf(index.lists)
      BY <1>2 DEF SizeOf
    <3> QED
      BY <1>2, <3>1, <3>2 DEF MergeInv, MergedIsUnion
  <2> QED
    BY <1>2, <2>1, <2>2 DEF MergeInv
<1>3. CASE BuildNext
  <2>1. CASE BreakUp \/ OneShot \/ RemoveTempFiles
    BY <1>1, <2>1 DEF BreakUp, OneShot, RemoveTempFiles
  <2>2. CASE Partition
    BY <1>1, <2>2 DEF Partition
  <2>3. CASE BuildShard
    <3>1. stage' \in {"shards", "threw"}
      BY <2>3 DEF BuildShard
    <3> QED
      BY <1>1, <3>1
  <2> QED
    BY <1>3, <2>1, <2>2, <2>3, StartMergeRight, MergeNodeRight, EndMergeRight DEF BuildNext
<1>4. CASE Done \/ UNCHANGED vars
  BY <1>2, <1>4 DEF Done, vars, buildVars
<1>5. CASE CreateDiskLayout \/ Open \/ LoadCache \/ WarmUp \/ EndWarmUp
  BY <1>1, <1>5 DEF CreateDiskLayout, Open, LoadCache, WarmUp, EndWarmUp
<1>6. CASE WarmUpCall \/ \E c \in Searches : Call(c)
  <2>1. \E c : Begin(c)
    BY <1>6, CallBegins
  <2> QED
    BY <1>1, <2>1 DEF Begin
<1>7. CASE Hop
  <2>1. stage' = "searching"
    BY <1>7 DEF Hop, buildVars
  <2> QED
    BY <1>1, <2>1
<1>8. CASE Finish \/ FinishWarmUpCall \/ NoReorderData \/ NextCall
  <2>1. stage' \in {"answered", "warm-up", "serving", "threw", "open", "searching"}
    BY <1>8 DEF Finish, FinishWarmUpCall, NoReorderData, NextCall, GiveBack
  <2> QED
    BY <1>1, <2>1
<1> QED
  BY <1>3, <1>4, <1>5, <1>6, <1>7, <1>8 DEF Next

\* merge_shards writes one list for each row, in the order of the rows, of what the
\* row's shards link it to, each once and cut to the degree, and the header has the
\* size of what was written (src/disk_utils.cpp), for any shards.
THEOREM MergedIsUnionHolds == Spec => []MergedIsUnion
<1>1. Init => DiskInv /\ BuildInv /\ MergeInv
  BY DiskInvInit, ShardInitially DEF MergeInv, MergedIsUnion, Init, BuildInit
<1>2. DiskInv /\ BuildInv /\ MergeInv /\ [Next]_vars => DiskInv' /\ BuildInv' /\ MergeInv'
  BY DiskInvNext, BuildInvNext, MergeInvNext
<1>3. MergeInv => MergedIsUnion
  BY DEF MergeInv
<1> QED
  BY <1>1, <1>2, <1>3, PTL DEF Spec

-----------------------------------------------------------------------------
(* The queue of candidates.                                                *)

\* Rows with their distances, and lists of them in order.
Entries(off) == {n \in [id : DOMAIN off, dist : Int, expanded : BOOLEAN] : n.dist = off[n.id]}
InOrder(data) == \A i, j \in 1 .. Len(data) : i < j => Less(data[i], data[j])
OffsOK(off) == DOMAIN off \subseteq Nat /\ off \in [DOMAIN off -> Int]

LEMMA LessOrders ==
    ASSUME NEW off, OffsOK(off), NEW k \in Entries(off), NEW m \in Entries(off), NEW n \in Entries(off)
    PROVE  /\ k.id = n.id <=> ~Less(k, n) /\ ~Less(n, k)
           /\ ~(Less(k, n) /\ Less(n, k))
           /\ Less(k, m) /\ Less(m, n) => Less(k, n)
           /\ Less(k, n) => k.dist <= n.dist
<1>1. \A x \in Entries(off) : x.id \in Nat /\ x.dist \in Int /\ x.dist = off[x.id]
  BY DEF Entries, OffsOK
<1> QED
  BY <1>1 DEF Less

\* What the binary search of insert has narrowed the place of an entry down to.
Between(data, n) ==
    {z \in [lo : 0 .. Len(data), hi : 0 .. Len(data)] :
        /\ z.lo <= z.hi
        /\ \A i \in 1 .. z.lo : Less(data[i], n)
        /\ \A i \in z.hi + 1 .. Len(data) : Less(n, data[i])}

LEMMA HalvedRight ==
    ASSUME NEW off, OffsOK(off), NEW data \in Seq(Entries(off)), InOrder(data), NEW n \in Entries(off),
           \A i \in 1 .. Len(data) : data[i].id # n.id, NEW z \in Between(data, n)
    PROVE  /\ Halved(data, n, z) \in Between(data, n)
           /\ z.lo < z.hi => Halved(data, n, z).hi - Halved(data, n, z).lo < z.hi - z.lo
           /\ z.lo = z.hi => Halved(data, n, z) = z
<1> DEFINE mid == (z.lo + z.hi) \div 2
           num == Len(data)
<1>1. /\ num \in Nat /\ z \in [lo : 0 .. num, hi : 0 .. num] /\ z.lo \in 0 .. num /\ z.hi \in 0 .. num /\ z.lo <= z.hi
      /\ \A i \in 1 .. z.lo : Less(data[i], n)
      /\ \A i \in z.hi + 1 .. num : Less(n, data[i])
  BY DEF Between
<1>2. \A i \in 1 .. num : data[i] \in Entries(off)
  OBVIOUS
<1>3. \A i, j \in 1 .. num : i < j => Less(data[i], data[j])
  BY DEF InOrder
<1> HIDE DEF num
<1>4. CASE z.lo >= z.hi
  BY <1>1, <1>4 DEF Halved
<1>5. CASE z.lo < z.hi
  <2>1. mid \in Nat /\ z.lo <= mid /\ mid < z.hi /\ mid + 1 \in 1 .. num
    BY <1>1, <1>5
  <2> HIDE DEF mid
  <2>2. CASE Less(n, data[mid + 1])
    <3>1. Halved(data, n, z) = [z EXCEPT !.hi = mid]
      BY <1>5, <2>2 DEF Halved, mid
    <3>2. ASSUME NEW i \in mid + 1 .. num PROVE Less(n, data[i])
      <4>1. i = mid + 1 \/ (mid + 1 < i /\ Less(data[mid + 1], data[i]))
        BY <1>3, <2>1, <3>2
      <4> QED
        BY <1>1, <1>2, <2>1, <2>2, <3>2, <4>1, LessOrders
    <3> DEFINE y == [z EXCEPT !.hi = mid]
    <3>3. y \in [lo : 0 .. num, hi : 0 .. num] /\ y.lo = z.lo /\ y.hi = mid
      BY <1>1, <2>1
    <3> HIDE DEF y
    <3>4. y \in Between(data, n)
      BY <1>1, <2>1, <3>2, <3>3 DEF Between, num
    <3> QED
      BY <1>1, <1>5, <2>1, <3>1, <3>3, <3>4 DEF y
  <2>3. CASE ~Less(n, data[mid + 1])
    <3>1. Halved(data, n, z) = [z EXCEPT !.lo = mid + 1]
      <4>1. data[mid + 1].id # n.id
        BY <2>1 DEF num
      <4> QED
        BY <1>5, <2>3, <4>1 DEF Halved, mid
    <3>2. Less(data[mid + 1], n)
      <4>1. data[mid + 1].id # n.id
        BY <2>1 DEF num
      <4> QED
        BY <1>2, <2>1, <2>3, <4>1, LessOrders
    <3>3. ASSUME NEW i \in 1 .. mid + 1 PROVE Less(data[i], n)
      <4>1. i = mid + 1 \/ (i < mid + 1 /\ Less(data[i], data[mid + 1]))
        BY <1>1, <1>3, <2>1, <3>3
      <4>2. data[i] \in Entries(off)
        BY <1>1, <1>2, <2>1, <3>3
      <4> QED
        BY <1>2, <2>1, <3>2, <4>1, <4>2, LessOrders
    <3> DEFINE y == [z EXCEPT !.lo = mid + 1]
    <3>4. y \in [lo : 0 .. num, hi : 0 .. num] /\ y.lo = mid + 1 /\ y.hi = z.hi
      BY <1>1, <2>1
    <3> HIDE DEF y
    <3>5. y \in Between(data, n)
      BY <1>1, <2>1, <3>3, <3>4 DEF Between, num
    <3> QED
      BY <1>1, <1>5, <2>1, <3>1, <3>4, <3>5 DEF y
  <2> QED
    BY <2>2, <2>3
<1> QED
  BY <1>1, <1>4, <1>5

\* The binary search ends where the entry belongs.
LEMMA PositionRight ==
    ASSUME NEW off, OffsOK(off), NEW q, q.data \in Seq(Entries(off)), InOrder(q.data), NEW n \in Entries(off),
           \A i \in 1 .. Len(q.data) : q.data[i].id # n.id
    PROVE  /\ Position(q, n) \in 0 .. Len(q.data)
           /\ \A i \in 1 .. Position(q, n) : Less(q.data[i], n)
           /\ \A i \in Position(q, n) + 1 .. Len(q.data) : Less(n, q.data[i])
<1> DEFINE data == q.data
           num == Len(data)
           V == Between(data, n)
           z0 == [lo |-> 0, hi |-> num]
           Finds(f) == f = [i \in 0 .. num |-> IF i = 0 THEN z0 ELSE Halved(data, n, f[i - 1])]
           search == CHOOSE f : Finds(f)
           step == [p \in V \X (1 .. num) |-> Halved(data, n, p[1])]
<1>1. num \in Nat
  OBVIOUS
<1>2. Position(q, n) = search[num].lo
  BY DEF Position
<1> HIDE DEF data, search
<1>3. z0 \in V
  <2>1. z0 \in [lo : 0 .. num, hi : 0 .. num] /\ z0.lo = 0 /\ z0.hi = num
    BY <1>1
  <2> QED
    BY <1>1, <2>1 DEF Between
<1>4. \A z \in V : /\ Halved(data, n, z) \in V
                   /\ z.lo < z.hi => Halved(data, n, z).hi - Halved(data, n, z).lo < z.hi - z.lo
                   /\ z.lo = z.hi => Halved(data, n, z) = z
  BY HalvedRight DEF data
<1> HIDE DEF V, z0
<1>5. step \in [V \X (1 .. num) -> V]
  BY <1>4
<1>6. \A z \in V, i \in 1 .. num : step[<<z, i>>] = Halved(data, n, z)
  OBVIOUS
<1> HIDE DEF step, num
<1>7. PICK f : AreRounds(f, V, z0, num, step)
  BY <1>1, <1>3, <1>5, RoundsDefine
<1>8. f \in [0 .. num -> V] /\ f[0] = z0 /\ \A i \in 1 .. num : f[i - 1] \in V /\ f[i] = Halved(data, n, f[i - 1])
  <2>1. f \in [0 .. num -> V] /\ f[0] = z0 /\ \A i \in 1 .. num : f[i] = step[<<f[i - 1], i>>]
    BY <1>7 DEF AreRounds
  <2>2. \A i \in 1 .. num : f[i - 1] \in V
    BY <1>1, <2>1
  <2> QED
    BY <1>6, <2>1, <2>2
<1>9. Finds(f)
  <2>1. \A i \in 0 .. num : f[i] = IF i = 0 THEN z0 ELSE Halved(data, n, f[i - 1])
    BY <1>1, <1>8
  <2> QED
    BY <1>8, <2>1
<1>10. Finds(search)
  <2> HIDE DEF Finds
  <2> QED
    BY <1>9 DEF search
<1>11. search[0] = z0 /\ \A i \in 1 .. num : search[i] = Halved(data, n, search[i - 1])
  <2>1. 0 \in 0 .. num /\ \A i \in 1 .. num : i \in 0 .. num /\ i # 0
    BY <1>1
  <2> QED
    BY <1>10, <2>1
<1> DEFINE Good == {i \in 0 .. num : search[i] \in V /\ (search[i].lo = search[i].hi \/ search[i].hi - search[i].lo <= num - i)}
<1>12. \A z \in V : z.lo \in Int /\ z.hi \in Int /\ z.lo <= z.hi
  BY DEF V, Between
<1>13. 0 .. num \subseteq Good
  <2>1. 0 \in Good
    <3>1. z0.lo = 0 /\ z0.hi = num
      BY DEF z0
    <3> QED
      BY <1>1, <1>3, <1>11, <3>1
  <2>2. ASSUME NEW i \in 1 .. num, i - 1 \in Good PROVE i \in Good
    <3> DEFINE y == search[i - 1]
               x == search[i]
    <3>1. y \in V /\ (y.lo = y.hi \/ y.hi - y.lo <= num - (i - 1)) /\ x = Halved(data, n, y)
      BY <1>11, <2>2
    <3> HIDE DEF x, y
    <3>2. /\ x \in V /\ (y.lo < y.hi => x.hi - x.lo < y.hi - y.lo) /\ (y.lo = y.hi => x = y)
          /\ y.lo \in Int /\ y.hi \in Int /\ y.lo <= y.hi /\ x.lo \in Int /\ x.hi \in Int
      BY <1>4, <1>12, <3>1
    <3>3. x.lo = x.hi \/ x.hi - x.lo <= num - i
      BY <1>1, <3>1, <3>2
    <3> QED
      BY <1>1, <3>2, <3>3 DEF x
  <2> HIDE DEF Good
  <2> QED
    BY <1>1, <2>1, <2>2, Rounds
<1> DEFINE last == search[num]
<1>14. last \in V /\ last.lo = last.hi
  <2>1. num \in Good
    BY <1>1, <1>13
  <2>2. last \in V /\ (last.lo = last.hi \/ last.hi - last.lo <= num - num)
    BY <2>1
  <2> HIDE DEF last
  <2> QED
    BY <1>1, <1>12, <2>2
<1>15. Position(q, n) = last.lo
  BY <1>2
<1> HIDE DEF last
<1> QED
  BY <1>14, <1>15 DEF V, Between, num, data

\* The queue of a search that has come across some rows, expanded others of them
\* and admits some: in order, no entry before the cursor is left to expand, and an
\* admitted row that is not in it is no nearer than what fills it.
Queues(off) == [data : Seq(Entries(off)), capacity : Nat, cur : Nat]
QueueRight(q, cap, met, gone, off, ok) ==
    /\ q \in Queues(off) /\ q.capacity = cap /\ Len(q.data) <= cap /\ q.cur <= Len(q.data)
    /\ InOrder(q.data)
    /\ \A i \in 1 .. Len(q.data) : q.data[i].id \in met /\ (q.data[i].expanded <=> q.data[i].id \in gone)
    /\ \A i \in 1 .. q.cur : q.data[i].expanded
    /\ q.cur < Len(q.data) => ~q.data[q.cur + 1].expanded
    /\ gone \subseteq met
    /\ \A r \in met \cap ok :
          \/ \E i \in 1 .. Len(q.data) : q.data[i].id = r
          \/ Len(q.data) = cap /\ \A i \in 1 .. Len(q.data) : q.data[i].dist <= off[r]

LEMMA InsertAtShape ==
    ASSUME NEW E, NEW data \in Seq(E), NEW n \in E, NEW lo \in 0 .. Len(data)
    PROVE  /\ InsertAt(data, lo + 1, n) \in Seq(E)
           /\ Len(InsertAt(data, lo + 1, n)) = Len(data) + 1
           /\ \A i \in 1 .. Len(data) + 1 :
                 InsertAt(data, lo + 1, n)[i] =
                     IF i <= lo THEN data[i] ELSE IF i = lo + 1 THEN n ELSE data[i - 1]
<1> DEFINE num == Len(data)
           a == SubSeq(data, 1, lo)
           c == SubSeq(data, lo + 1, num)
           longer == InsertAt(data, lo + 1, n)
<1>1. num \in Nat /\ data \in [1 .. num -> E] /\ lo \in Nat /\ lo <= num
  OBVIOUS
<1>2. a \in Seq(E) /\ Len(a) = lo /\ \A i \in 1 .. lo : a[i] = data[i]
  BY <1>1
<1>3. c \in Seq(E) /\ Len(c) = num - lo /\ \A i \in 1 .. num - lo : c[i] = data[lo + i]
  <2>1. lo + 1 \in Int /\ num \in Int /\ \A i \in lo + 1 .. num : data[i] \in E
    BY <1>1
  <2> HIDE DEF num
  <2>2. /\ SubSeq(data, lo + 1, num) \in Seq(E)
        /\ Len(SubSeq(data, lo + 1, num)) = IF lo + 1 <= num THEN num - (lo + 1) + 1 ELSE 0
        /\ \A i \in 1 .. num - (lo + 1) + 1 : SubSeq(data, lo + 1, num)[i] = data[lo + 1 + i - 1]
    BY <2>1, SubSeqProperties
  <2>3. num - (lo + 1) + 1 = num - lo /\ \A i \in 1 .. num - lo : lo + 1 + i - 1 = lo + i
    BY <1>1
  <2>4. Len(SubSeq(data, lo + 1, num)) = num - lo
    BY <1>1, <2>2, <2>3
  <2> QED
    BY <2>2, <2>3, <2>4
<1>4. longer = (a \o <<n>>) \o c
  <2>1. (lo + 1) - 1 = lo
    BY <1>1
  <2> QED
    BY <2>1 DEF InsertAt
<1> HIDE DEF a, c, num, longer
<1> DEFINE b == a \o <<n>>
<1>5. b \in Seq(E) /\ Len(b) = lo + 1 /\ (\A i \in 1 .. lo : b[i] = data[i]) /\ b[lo + 1] = n
  BY <1>1, <1>2
<1>6. longer = b \o c
  BY <1>4
<1> HIDE DEF b
<1>7. longer \in Seq(E) /\ Len(longer) = num + 1
      /\ \A i \in 1 .. num + 1 : longer[i] = IF i <= lo + 1 THEN b[i] ELSE c[i - (lo + 1)]
  <2>1. /\ b \o c \in Seq(E) /\ Len(b \o c) = Len(b) + Len(c)
        /\ \A i \in 1 .. Len(b) + Len(c) : (b \o c)[i] = IF i <= Len(b) THEN b[i] ELSE c[i - Len(b)]
    BY <1>3, <1>5, ConcatProperties
  <2>2. Len(b) + Len(c) = num + 1
    BY <1>1, <1>3, <1>5
  <2> QED
    BY <1>5, <1>6, <2>1, <2>2
<1>8. ASSUME NEW i \in 1 .. num + 1
      PROVE  longer[i] = IF i <= lo THEN data[i] ELSE IF i = lo + 1 THEN n ELSE data[i - 1]
  <2>1. CASE i <= lo + 1
    <3>1. longer[i] = b[i]
      BY <1>7, <2>1
    <3> QED
      BY <1>1, <1>5, <2>1, <3>1
  <2>2. CASE ~(i <= lo + 1)
    <3>1. longer[i] = c[i - (lo + 1)]
      BY <1>7, <2>2
    <3>2. i - (lo + 1) \in 1 .. num - lo /\ lo + (i - (lo + 1)) = i - 1
      BY <1>1, <2>2
    <3> QED
      BY <1>1, <1>3, <2>2, <3>1, <3>2
  <2> QED
    BY <2>1, <2>2
<1> QED
  BY <1>7, <1>8 DEF num, longer

\* The row is put at place lo + 1, behind the lo that are nearer, and the cursor
\* goes back to it; a full queue loses its last entry.
InsertedAt(q, n, off, lo) ==
    LET num == Len(q.data)
        r == QueueInsert(q, n)
    IN  /\ num = q.capacity => lo < num
        /\ \A i \in 1 .. lo : Less(q.data[i], n)
        /\ \A i \in lo + 1 .. num : Less(n, q.data[i])
        /\ r \in Queues(off) /\ r.capacity = q.capacity /\ r.cur = IF lo < q.cur THEN lo ELSE q.cur
        /\ Len(r.data) = IF num < q.capacity THEN num + 1 ELSE num
        /\ \A i \in 1 .. Len(r.data) :
              r.data[i] = IF i <= lo THEN q.data[i] ELSE IF i = lo + 1 THEN n ELSE q.data[i - 1]

\* What insert does to a queue that does not have the row.
LEMMA QueueInsertShape ==
    ASSUME NEW off, OffsOK(off), NEW q \in Queues(off), InOrder(q.data), NEW n \in Entries(off),
           Len(q.data) <= q.capacity, q.capacity # 0, q.cur <= Len(q.data),
           \A i \in 1 .. Len(q.data) : q.data[i].id # n.id
    PROVE  \/ /\ Len(q.data) = q.capacity /\ Less(q.data[Len(q.data)], n)
              /\ QueueInsert(q, n) = q
           \/ \E lo \in 0 .. Len(q.data) : InsertedAt(q, n, off, lo)
<1> DEFINE data == q.data
           num == Len(data)
           lo == Position(q, n)
           longer == InsertAt(data, lo + 1, n)
           cut == SubSeq(longer, 1, Min({Len(longer), q.capacity}))
           r == QueueInsert(q, n)
<1>1. data \in Seq(Entries(off)) /\ num \in Nat /\ q.capacity \in Nat /\ q.cur \in Nat
  BY DEF Queues
<1>2. /\ lo \in 0 .. num /\ \A i \in 1 .. lo : Less(data[i], n)
      /\ \A i \in lo + 1 .. num : Less(n, data[i])
  BY <1>1, PositionRight
<1>3. CASE FullBelow(q, n)
  BY <1>3 DEF FullBelow, QueueInsert
<1>4. CASE ~FullBelow(q, n)
  <2>1. r = [q EXCEPT !.data = cut, !.cur = CursorAfter(q, lo)]
    <3>1. lo # Met
      BY <1>2 DEF Met
    <3> QED
      BY <1>4, <3>1, Zenon DEF QueueInsert
  <2>2. num = q.capacity => lo < num
    <3>1. ASSUME num = q.capacity, lo = num PROVE FALSE
      <4>1. num \in 1 .. lo
        BY <1>1, <3>1
      <4>2. Less(data[num], n)
        BY <1>2, <4>1
      <4> QED
        BY <1>4, <3>1, <4>2 DEF FullBelow
    <3> QED
      BY <1>2, <3>1
  <2> HIDE DEF lo
  <2>3. /\ longer \in Seq(Entries(off)) /\ Len(longer) = num + 1
        /\ \A i \in 1 .. num + 1 :
              longer[i] = IF i <= lo THEN data[i] ELSE IF i = lo + 1 THEN n ELSE data[i - 1]
    <3> DEFINE E == Entries(off)
    <3>1. data \in Seq(E) /\ n \in E /\ lo \in 0 .. Len(data)
      BY <1>1, <1>2
    <3> HIDE DEF E, data
    <3>2. /\ InsertAt(data, lo + 1, n) \in Seq(E)
          /\ Len(InsertAt(data, lo + 1, n)) = Len(data) + 1
          /\ \A i \in 1 .. Len(data) + 1 :
                InsertAt(data, lo + 1, n)[i] =
                    IF i <= lo THEN data[i] ELSE IF i = lo + 1 THEN n ELSE data[i - 1]
      BY <3>1, InsertAtShape
    <3> QED
      BY <3>2 DEF E
  <2>4. CursorAfter(q, lo) = IF lo < q.cur THEN lo ELSE q.cur
    BY <1>1, <1>2, MinOfTwo DEF CursorAfter
  <2>5. Min({Len(longer), q.capacity}) = IF num < q.capacity THEN num + 1 ELSE num
    <3> HIDE DEF longer, num
    <3>1. num + 1 \in Int /\ q.capacity \in Int
      BY <1>1
    <3>2. Min({num + 1, q.capacity}) = IF num + 1 <= q.capacity THEN num + 1 ELSE q.capacity
      BY <3>1, MinOfTwo
    <3>3. num <= q.capacity
      BY DEF num
    <3> QED
      BY <1>1, <2>3, <3>2, <3>3
  <2> HIDE DEF longer, r
  <2>6. /\ cut \in Seq(Entries(off)) /\ Len(cut) = IF num < q.capacity THEN num + 1 ELSE num
        /\ \A i \in 1 .. Len(cut) : cut[i] = longer[i] /\ i \in 1 .. num + 1
    <3> DEFINE k == Min({Len(longer), q.capacity})
    <3>1. k \in Nat /\ k <= num + 1 /\ k = IF num < q.capacity THEN num + 1 ELSE num
      BY <1>1, <2>5
    <3> HIDE DEF k, num
    <3>2. SubSeq(longer, 1, k) \in Seq(Entries(off)) /\ Len(SubSeq(longer, 1, k)) = k
          /\ \A i \in 1 .. k : SubSeq(longer, 1, k)[i] = longer[i]
      BY <1>1, <2>3, <3>1
    <3>3. \A i \in 1 .. k : i \in 1 .. num + 1
      BY <1>1, <3>1
    <3> QED
      BY <3>1, <3>2, <3>3 DEF k
  <2> HIDE DEF cut
  <2>7. r \in Queues(off) /\ r.capacity = q.capacity /\ r.cur = (IF lo < q.cur THEN lo ELSE q.cur) /\ r.data = cut
    <3> DEFINE c == IF lo < q.cur THEN lo ELSE q.cur
               S == Seq(Entries(off))
    <3>1. r = [q EXCEPT !.data = cut, !.cur = c] /\ c \in Nat /\ cut \in S
      BY <1>1, <1>2, <2>1, <2>4, <2>6
    <3> HIDE DEF c, S
    <3>2. q \in [data : S, capacity : Nat, cur : Nat]
      BY DEF Queues, S
    <3>3. r \in [data : S, capacity : Nat, cur : Nat] /\ r.capacity = q.capacity /\ r.cur = c /\ r.data = cut
      BY <3>1, <3>2
    <3> QED
      BY <3>3 DEF c, S, Queues
  <2>8. \A i \in 1 .. Len(cut) : cut[i] = IF i <= lo THEN data[i] ELSE IF i = lo + 1 THEN n ELSE data[i - 1]
    BY <2>3, <2>6
  <2> HIDE DEF data
  <2>9. InsertedAt(q, n, off, lo)
    BY <1>2, <2>2, <2>6, <2>7, <2>8 DEF InsertedAt, r, data
  <2> QED
    BY <1>2, <2>9 DEF data
<1> QED
  BY <1>3, <1>4

\* What fills a queue stays where it is when a row is met that is not put into it.
LEMMA QueueMeets ==
    ASSUME NEW off, NEW q, NEW cap, NEW met, NEW gone, NEW ok, QueueRight(q, cap, met, gone, off, ok),
           NEW id, id \in ok => Len(q.data) = cap /\ \A i \in 1 .. Len(q.data) : q.data[i].dist <= off[id]
    PROVE  QueueRight(q, cap, met \cup {id}, gone, off, ok)
BY DEF QueueRight

\* A row that is met and put into the queue leaves it right.
LEMMA InsertRight ==
    ASSUME NEW off, OffsOK(off), NEW cap \in Nat \ {0}, NEW met \in SUBSET DOMAIN off, NEW gone, NEW ok,
           NEW q, QueueRight(q, cap, met, gone, off, ok),
           NEW n \in Entries(off), ~n.expanded, n.id \notin met
    PROVE  QueueRight(QueueInsert(q, n), cap, met \cup {n.id}, gone, off, ok)
<1> DEFINE d == q.data
           num == Len(d)
           r == QueueInsert(q, n)
           e == r.data
           all == met \cup {n.id}
<1>1. /\ q \in Queues(off) /\ q.capacity = cap /\ num <= cap /\ q.cur <= num /\ InOrder(d)
      /\ \A i \in 1 .. num : d[i].id \in met /\ (d[i].expanded <=> d[i].id \in gone)
      /\ \A i \in 1 .. q.cur : d[i].expanded
      /\ q.cur < num => ~d[q.cur + 1].expanded
      /\ gone \subseteq met
      /\ \A x \in met \cap ok :
            \/ \E i \in 1 .. num : d[i].id = x
            \/ num = cap /\ \A i \in 1 .. num : d[i].dist <= off[x]
  BY DEF QueueRight
<1>2. d \in Seq(Entries(off)) /\ num \in Nat /\ q.cur \in Nat
  BY <1>1 DEF Queues
<1>3. /\ \A i \in 1 .. num : d[i] \in Entries(off) /\ d[i].id # n.id
      /\ \A i, j \in 1 .. num : i < j => Less(d[i], d[j])
  BY <1>1, <1>2 DEF InOrder
<1>4. n.dist = off[n.id] /\ \A m \in Entries(off) : m.dist \in Int
  BY DEF Entries
<1>5. CASE num = cap /\ Less(d[num], n) /\ r = q
  <2>1. ASSUME NEW i \in 1 .. num PROVE d[i].dist <= off[n.id]
    <3>1. num \in 1 .. num /\ (i = num \/ Less(d[i], d[num]))
      BY <1>2, <1>3
    <3>2. Less(d[i], n)
      BY <1>3, <1>5, <3>1, LessOrders
    <3> QED
      BY <1>3, <1>4, <3>2, LessOrders
  <2>2. QueueRight(q, cap, all, gone, off, ok)
    BY <1>5, <2>1, QueueMeets
  <2> QED
    BY <1>5, <2>2
<1>6. ASSUME NEW lo \in 0 .. num, InsertedAt(q, n, off, lo)
      PROVE  QueueRight(r, cap, all, gone, off, ok)
  <2>0. /\ num = cap => lo < num
        /\ \A i \in 1 .. lo : Less(d[i], n)
        /\ \A i \in lo + 1 .. num : Less(n, d[i])
        /\ r \in Queues(off) /\ r.capacity = q.capacity /\ r.cur = IF lo < q.cur THEN lo ELSE q.cur
        /\ Len(e) = IF num < q.capacity THEN num + 1 ELSE num
        /\ \A i \in 1 .. Len(e) : e[i] = IF i <= lo THEN d[i] ELSE IF i = lo + 1 THEN n ELSE d[i - 1]
    BY <1>1, <1>6 DEF InsertedAt
  <2> DEFINE size == Len(e)
  <2> HIDE DEF d, num, r, size
  <2>1. /\ size \in Nat /\ size <= cap /\ lo \in Nat /\ lo <= num /\ num <= size /\ size <= num + 1 /\ lo < size
        /\ size = num => num = cap
    BY <1>1, <1>2, <2>0 DEF size
  <2>2. /\ \A i \in 1 .. size : i <= lo => i \in 1 .. num /\ e[i] = d[i]
        /\ \A i \in 1 .. size : i > lo + 1 => i - 1 \in 1 .. num /\ i - 1 > lo /\ e[i] = d[i - 1]
        /\ e[lo + 1] = n /\ lo + 1 \in 1 .. size
    <3>1. ASSUME NEW i \in 1 .. size, i <= lo PROVE i \in 1 .. num /\ e[i] = d[i]
      BY <1>2, <2>0, <2>1, <3>1 DEF size
    <3>2. ASSUME NEW i \in 1 .. size, i > lo + 1 PROVE i - 1 \in 1 .. num /\ i - 1 > lo /\ e[i] = d[i - 1]
      BY <1>2, <2>0, <2>1, <3>2 DEF size
    <3>3. e[lo + 1] = n /\ lo + 1 \in 1 .. size
      BY <1>2, <2>0, <2>1 DEF size
    <3> QED
      BY <3>1, <3>2, <3>3
  <2>3. \A i \in 1 .. size : i <= lo \/ i > lo + 1 \/ i = lo + 1
    BY <2>1
  <2>4. InOrder(e)
    <3>1. ASSUME NEW i \in 1 .. size, NEW j \in 1 .. size, i < j PROVE Less(e[i], e[j])
      <4>1. CASE j <= lo
        <5>1. i <= lo
          BY <2>1, <3>1, <4>1
        <5> QED
          BY <1>3, <2>2, <3>1, <4>1, <5>1
      <4>2. CASE j = lo + 1
        <5>1. i <= lo /\ i \in 1 .. lo
          BY <2>1, <3>1, <4>2
        <5> QED
          BY <2>0, <2>2, <4>2, <5>1
      <4>3. CASE j > lo + 1
        <5>1. j - 1 \in 1 .. num /\ j - 1 \in lo + 1 .. num /\ e[j] = d[j - 1]
          BY <2>1, <2>2, <4>3
        <5>2. CASE i <= lo
          <6>1. i \in 1 .. num /\ i < j - 1 /\ e[i] = d[i]
            BY <2>1, <2>2, <4>3, <5>2
          <6> QED
            BY <1>3, <5>1, <6>1
        <5>3. CASE i = lo + 1
          BY <2>0, <2>2, <5>1, <5>3
        <5>4. CASE i > lo + 1
          <6>1. i - 1 \in 1 .. num /\ e[i] = d[i - 1]
            BY <2>2, <5>4
          <6>2. i - 1 < j - 1
            BY <2>1, <3>1
          <6> QED
            BY <1>3, <5>1, <6>1, <6>2
        <5> QED
          BY <2>3, <5>2, <5>3, <5>4
      <4> QED
        BY <2>3, <4>1, <4>2, <4>3
    <3> QED
      BY <3>1 DEF InOrder, size
  <2>5. ASSUME NEW i \in 1 .. size
        PROVE  e[i].id \in all /\ (e[i].expanded <=> e[i].id \in gone)
    <3>1. CASE i = lo + 1
      BY <1>1, <2>2, <3>1
    <3>2. CASE i # lo + 1
      <4>1. \E k \in 1 .. num : e[i] = d[k]
        BY <2>2, <2>3, <3>2
      <4> QED
        BY <1>1, <4>1
    <3> QED
      BY <3>1, <3>2
  <2>6. r.cur <= size /\ r.cur \in Nat /\ r.cur <= lo /\ r.cur <= q.cur
        /\ (r.cur = lo \/ (r.cur = q.cur /\ q.cur < lo))
    BY <1>1, <1>2, <2>0, <2>1
  <2>7. ASSUME NEW i \in 1 .. r.cur PROVE e[i].expanded
    <3>1. i \in 1 .. size /\ i <= lo /\ i \in 1 .. q.cur
      BY <1>2, <2>1, <2>6
    <3> QED
      BY <1>1, <2>2, <3>1
  <2>8. ~e[r.cur + 1].expanded
    <3>1. CASE r.cur = lo
      BY <2>2, <3>1
    <3>2. CASE r.cur = q.cur /\ q.cur < lo
      <4>1. r.cur + 1 \in 1 .. size /\ r.cur + 1 <= lo /\ q.cur < num
        BY <1>2, <2>1, <3>2
      <4> QED
        BY <1>1, <2>2, <3>2, <4>1
    <3> QED
      BY <2>6, <3>1, <3>2
  <2>9. ASSUME NEW x \in all \cap ok
        PROVE  \/ \E i \in 1 .. size : e[i].id = x
               \/ size = cap /\ \A i \in 1 .. size : e[i].dist <= off[x]
    <3>1. CASE x = n.id
      BY <2>2, <3>1
    <3>2. CASE x \in met /\ size = num + 1
      <4>1. num # cap
        BY <1>2, <2>1, <3>2
      <4>2. PICK k \in 1 .. num : d[k].id = x
        BY <1>1, <3>2, <4>1
      <4>3. k <= lo => k \in 1 .. size /\ e[k] = d[k]
        BY <1>2, <2>1, <2>2
      <4>4. k > lo => k + 1 \in 1 .. size /\ k + 1 > lo + 1 /\ (k + 1) - 1 = k
        BY <1>2, <2>1, <3>2
      <4>5. k > lo => e[k + 1] = d[k]
        BY <2>2, <4>4
      <4> QED
        BY <2>1, <4>2, <4>3, <4>4, <4>5
    <3>3. CASE x \in met /\ size = num
      <4>1. num = cap /\ num \in 1 .. num /\ num \in lo + 1 .. num /\ lo < num
        BY <1>2, <2>0, <2>1, <3>3
      \* The last entry is left out, and nothing that stays is farther.
      <4>2. ASSUME NEW i \in 1 .. size PROVE Less(e[i], d[num]) /\ e[i] \in Entries(off)
        <5>1. CASE i = lo + 1
          BY <2>0, <2>2, <4>1, <5>1
        <5>2. CASE i # lo + 1
          <6>1. \E k \in 1 .. num : k < num /\ e[i] = d[k]
            <7>1. i <= lo => i < num
              BY <2>1, <4>1
            <7>2. i > lo + 1 => i - 1 < num
              BY <1>2, <3>3
            <7> QED
              BY <2>2, <2>3, <5>2, <7>1, <7>2
          <6> QED
            BY <1>3, <4>1, <6>1
        <5> QED
          BY <5>1, <5>2
      <4>3. ASSUME NEW i \in 1 .. size PROVE e[i].dist <= d[num].dist
        BY <1>3, <4>1, <4>2, LessOrders
      <4>4. CASE \E k \in 1 .. num : k < num /\ d[k].id = x
        <5>1. PICK k \in 1 .. num : k < num /\ d[k].id = x
          BY <4>4
        <5>2. k <= lo => k \in 1 .. size /\ e[k] = d[k]
          BY <2>2, <3>3
        <5>3. k > lo => k + 1 \in 1 .. size /\ k + 1 > lo + 1 /\ (k + 1) - 1 = k
          BY <1>2, <2>1, <3>3, <5>1
        <5>4. k > lo => e[k + 1] = d[k]
          BY <2>2, <5>3
        <5> QED
          BY <2>1, <5>1, <5>2, <5>3, <5>4
      <4>5. CASE d[num].id = x
        <5>1. d[num].dist = off[x]
          BY <1>3, <4>1, <4>5 DEF Entries
        <5> QED
          BY <3>3, <4>1, <4>3, <5>1
      <4>6. CASE \A k \in 1 .. num : d[k].id # x
        <5>1. d[num].dist <= off[x]
          BY <1>1, <3>3, <4>1, <4>6
        <5>2. off[x] \in Int /\ d[num].dist \in Int /\ \A i \in 1 .. size : e[i].dist \in Int
          BY <1>3, <1>4, <3>3, <4>1, <4>2 DEF OffsOK
        <5>3. \A i \in 1 .. size : e[i].dist <= off[x]
          BY <4>3, <5>1, <5>2
        <5> QED
          BY <3>3, <4>1, <5>3
      <4> QED
        BY <1>2, <4>1, <4>4, <4>5, <4>6
    <3> QED
      BY <1>2, <2>1, <3>1, <3>2, <3>3
  <2>10. r \in Queues(off) /\ r.capacity = cap /\ size <= cap /\ gone \subseteq all
    BY <1>1, <2>0, <2>1
  <2>11. /\ \A i \in 1 .. Len(r.data) : r.data[i].id \in all /\ (r.data[i].expanded <=> r.data[i].id \in gone)
         /\ \A x \in all \cap ok :
               \/ \E i \in 1 .. Len(r.data) : r.data[i].id = x
               \/ Len(r.data) = cap /\ \A i \in 1 .. Len(r.data) : r.data[i].dist <= off[x]
    BY <2>5, <2>9 DEF size
  <2>12. Len(r.data) <= cap /\ r.cur <= Len(r.data) /\ InOrder(r.data)
    BY <2>4, <2>6, <2>10 DEF size
  <2>13. /\ \A i \in 1 .. r.cur : r.data[i].expanded
         /\ r.cur < Len(r.data) => ~r.data[r.cur + 1].expanded
    BY <2>7, <2>8
  <2> HIDE DEF e, all
  <2> QED
    BY <2>10, <2>11, <2>12, <2>13, Zenon DEF QueueRight
<1>7. q.capacity # 0 /\ Len(q.data) <= q.capacity
  BY <1>1
<1>8. (num = cap /\ Less(d[num], n) /\ r = q) \/ \E lo \in 0 .. num : InsertedAt(q, n, off, lo)
  BY <1>1, <1>3, <1>7, QueueInsertShape
<1> QED
  BY <1>5, <1>6, <1>8, Zenon

\* The closest row that is left to expand is expanded, and the cursor goes on to the next.
LEMMA AdvanceRight ==
    ASSUME NEW off, OffsOK(off), NEW cap, NEW met, NEW gone, NEW ok,
           NEW q, QueueRight(q, cap, met, gone, off, ok), HasUnexpanded(q)
    PROVE  /\ ClosestUnexpanded(q).id \in met \ gone
           /\ QueueRight(Advance(q), cap, met, gone \cup {ClosestUnexpanded(q).id}, off, ok)
<1> DEFINE d == q.data
           num == Len(d)
           k == q.cur + 1
           id == d[k].id
           r == Advance(q)
           e == [d EXCEPT ![k].expanded = TRUE]
           open == {i \in k .. Len(e) - 1 : ~e[i + 1].expanded}
           more == gone \cup {id}
<1>1. /\ q \in Queues(off) /\ q.capacity = cap /\ num <= cap /\ InOrder(d)
      /\ \A i \in 1 .. num : d[i].id \in met /\ (d[i].expanded <=> d[i].id \in gone)
      /\ \A i \in 1 .. q.cur : d[i].expanded
      /\ q.cur < num => ~d[q.cur + 1].expanded
      /\ gone \subseteq met
      /\ \A x \in met \cap ok :
            \/ \E i \in 1 .. num : d[i].id = x
            \/ num = cap /\ \A i \in 1 .. num : d[i].dist <= off[x]
  BY DEF QueueRight
<1>2. d \in Seq(Entries(off)) /\ num \in Nat /\ q.cur \in Nat /\ q.cur < num
  BY <1>1 DEF Queues, HasUnexpanded
<1>3. k \in 1 .. num /\ k \in Nat /\ q.cur = k - 1
  BY <1>2
<1>4. /\ \A i \in 1 .. num : d[i] \in Entries(off)
      /\ \A i, j \in 1 .. num : i < j => Less(d[i], d[j])
  BY <1>1, <1>2 DEF InOrder
<1>5. ClosestUnexpanded(q).id = id /\ id \in met \ gone
  BY <1>1, <1>2, <1>3 DEF ClosestUnexpanded
<1>6. r = [q EXCEPT !.data = e, !.cur = Min(open \cup {Len(e)})]
  BY DEF Advance
<1> HIDE DEF d, num, k, r
<1>7. ASSUME NEW i \in 1 .. num, d[i].id = id PROVE i = k
  <2>1. ~(i < k) /\ ~(k < i)
    BY <1>3, <1>4, <1>7, LessOrders
  <2> QED
    BY <1>3, <2>1
<1> HIDE DEF id
<1> DEFINE m == [d[k] EXCEPT !.expanded = TRUE]
<1>8. m \in Entries(off) /\ m.id = id /\ m.dist = d[k].dist /\ m.expanded = TRUE
  <2>1. d[k] \in [id : DOMAIN off, dist : Int, expanded : BOOLEAN] /\ d[k].dist = off[d[k].id]
    BY <1>3, <1>4 DEF Entries
  <2>2. m \in [id : DOMAIN off, dist : Int, expanded : BOOLEAN] /\ m.id = d[k].id /\ m.dist = d[k].dist
        /\ m.expanded = TRUE
    BY <2>1
  <2> HIDE DEF m
  <2> QED
    BY <2>1, <2>2 DEF Entries, id
<1>9. e = [d EXCEPT ![k] = m]
  OBVIOUS
<1> HIDE DEF m, e
<1>10. /\ e \in Seq(Entries(off)) /\ Len(e) = num
       /\ \A i \in 1 .. num : e[i] = IF i = k THEN m ELSE d[i]
  <2> DEFINE E == Entries(off)
  <2>1. d \in Seq(E) /\ m \in E
    BY <1>2, <1>8
  <2> HIDE DEF E
  <2>2. /\ [d EXCEPT ![k] = m] \in Seq(E) /\ Len([d EXCEPT ![k] = m]) = Len(d)
        /\ \A i \in 1 .. Len(d) : [d EXCEPT ![k] = m][i] = IF i = k THEN m ELSE d[i]
    BY <1>3, <2>1 DEF num
  <2> QED
    BY <1>9, <2>2 DEF E, num
<1>11. \A i \in 1 .. num : e[i].id = d[i].id /\ e[i].dist = d[i].dist
  BY <1>8, <1>10 DEF id
<1>12. InOrder(e)
  BY <1>4, <1>10, <1>11 DEF InOrder, Less
<1>13. ASSUME NEW i \in 1 .. num PROVE e[i].id \in met /\ (e[i].expanded <=> e[i].id \in more)
  <2>1. CASE i = k
    BY <1>1, <1>8, <1>10, <2>1 DEF id
  <2>2. CASE i # k
    <3>1. e[i] = d[i] /\ d[i].id # id
      BY <1>7, <1>10, <2>2
    <3> QED
      BY <1>1, <3>1
  <2> QED
    BY <2>1, <2>2
<1>14. open \cup {Len(e)} \subseteq Nat
  BY <1>2, <1>3, <1>10
<1> DEFINE cur == Min(open \cup {Len(e)})
<1>15. cur \in open \cup {num} /\ \A x \in open \cup {num} : cur <= x
  <2> DEFINE T == open \cup {Len(e)}
  <2>1. \E x \in T : \A y \in T : x <= y
    <3> HIDE DEF T
    <3>1. T # {} /\ T \subseteq Nat
      BY <1>14 DEF T
    <3> QED
      BY <3>1, LeastNumber
  <2> HIDE DEF T
  <2>2. Min(T) \in T /\ \A y \in T : Min(T) <= y
    BY <2>1 DEF Min
  <2> QED
    BY <1>10, <2>2 DEF T
<1>16. cur \in Nat /\ k <= cur /\ cur <= num
  BY <1>2, <1>3, <1>10, <1>15
<1>17. ASSUME NEW i \in 1 .. cur PROVE e[i].expanded
  <2>1. i \in 1 .. num
    BY <1>2, <1>16
  <2>2. CASE i < k
    <3>1. i \in 1 .. q.cur /\ e[i] = d[i]
      BY <1>3, <1>10, <2>1, <2>2
    <3> QED
      BY <1>1, <3>1
  <2>3. CASE i = k
    BY <1>8, <1>10, <2>1, <2>3
  <2>4. CASE i > k
    <3>1. i - 1 \in k .. Len(e) - 1 /\ (i - 1) + 1 = i /\ ~(cur <= i - 1)
      BY <1>2, <1>3, <1>10, <1>16, <2>1, <2>4
    <3> QED
      BY <1>15, <3>1
  <2> QED
    BY <1>3, <2>1, <2>2, <2>3, <2>4
<1>18. cur < num => ~e[cur + 1].expanded
  BY <1>2, <1>15
<1> HIDE DEF cur, open
<1>19. r \in Queues(off) /\ r.capacity = cap /\ r.cur = cur /\ r.data = e
  <2> DEFINE S == Seq(Entries(off))
  <2>1. r = [q EXCEPT !.data = e, !.cur = cur] /\ e \in S
    BY <1>6, <1>10 DEF cur, open
  <2> HIDE DEF S
  <2>2. q \in [data : S, capacity : Nat, cur : Nat]
    BY <1>1 DEF Queues, S
  <2>3. r \in [data : S, capacity : Nat, cur : Nat] /\ r.capacity = q.capacity /\ r.cur = cur /\ r.data = e
    BY <1>16, <2>1, <2>2
  <2> QED
    BY <1>1, <2>3 DEF S, Queues
<1>20. \A x \in met \cap ok :
          \/ \E i \in 1 .. num : e[i].id = x
          \/ num = cap /\ \A i \in 1 .. num : e[i].dist <= off[x]
  BY <1>1, <1>11
<1>21. more \subseteq met
  BY <1>1, <1>5
<1>22. QueueRight(r, cap, met, more, off, ok)
  <2> HIDE DEF more
  <2> QED
    BY <1>1, <1>10, <1>12, <1>13, <1>16, <1>17, <1>18, <1>19, <1>20, <1>21 DEF QueueRight
<1> QED
  BY <1>5, <1>22 DEF r

\* An empty queue is right, whatever was met and is not admitted.
LEMMA EmptyRight ==
    ASSUME NEW off, NEW cap \in Nat, NEW ok
    PROVE  QueueRight(EmptyQueue(cap), cap, {}, {}, off, ok)
<1> DEFINE q == EmptyQueue(cap)
<1>1. q = [data |-> <<>>, capacity |-> cap, cur |-> 0] /\ <<>> \in Seq(Entries(off)) /\ Len(<<>>) = 0
  BY DEF EmptyQueue
<1>2. q \in Queues(off) /\ q.data = <<>> /\ q.capacity = cap /\ q.cur = 0
  BY <1>1 DEF Queues
<1> HIDE DEF q
<1>3. InOrder(<<>>)
  BY DEF InOrder
<1> QED
  BY <1>1, <1>2, <1>3 DEF QueueRight, q

-----------------------------------------------------------------------------
(* The beam.                                                               *)

\* What may be taken of a queue: rows that were met and not expanded, each once.
Beams(cap, met, gone, off, ok) ==
    {b \in [queue : Queues(off), ids : Seq(Nat)] :
        /\ Distinct(b.ids) /\ ToSet(b.ids) \subseteq met \ gone
        /\ QueueRight(b.queue, cap, met, gone \cup ToSet(b.ids), off, ok)}

LEMMA GrownRight ==
    ASSUME NEW off, OffsOK(off), NEW cap, NEW met \in SUBSET DOMAIN off, NEW gone, NEW ok,
           NEW b \in Beams(cap, met, gone, off, ok)
    PROVE  Grown(b) \in Beams(cap, met, gone, off, ok)
<1> DEFINE q == b.queue
           ids == b.ids
           id == ClosestUnexpanded(q).id
           more == Append(ids, id)
           r == Advance(q)
<1>1. /\ q \in Queues(off) /\ ids \in Seq(Nat) /\ Distinct(ids) /\ ToSet(ids) \subseteq met \ gone
      /\ QueueRight(q, cap, met, gone \cup ToSet(ids), off, ok)
  BY DEF Beams
<1>2. CASE ~HasUnexpanded(q)
  BY <1>2 DEF Grown
<1>3. CASE HasUnexpanded(q)
  <2>1. Grown(b) = [queue |-> r, ids |-> more]
    BY <1>3 DEF Grown
  <2>2. /\ id \in met \ (gone \cup ToSet(ids))
        /\ QueueRight(r, cap, met, (gone \cup ToSet(ids)) \cup {id}, off, ok)
    <3> DEFINE before == gone \cup ToSet(ids)
    <3>1. QueueRight(q, cap, met, before, off, ok) /\ HasUnexpanded(q)
      BY <1>1, <1>3
    <3> HIDE DEF before, q
    <3>2. /\ ClosestUnexpanded(q).id \in met \ before
          /\ QueueRight(Advance(q), cap, met, before \cup {ClosestUnexpanded(q).id}, off, ok)
      BY <3>1, AdvanceRight
    <3> QED
      BY <3>2 DEF before
  <2> HIDE DEF q, ids, id, r
  <2>3. id \in Nat
    BY <2>2 DEF OffsOK
  <2>4. ToSet(more) = ToSet(ids) \cup {id} /\ Distinct(more) /\ more \in Seq(Nat)
    BY <1>1, <2>2, <2>3, AppendDistinct
  <2> HIDE DEF more
  <2>5. (gone \cup ToSet(ids)) \cup {id} = gone \cup ToSet(more) /\ ToSet(more) \subseteq met \ gone
    BY <1>1, <2>2, <2>4
  <2>6. r \in Queues(off) /\ QueueRight(r, cap, met, gone \cup ToSet(more), off, ok)
    <3>1. QueueRight(r, cap, met, gone \cup ToSet(more), off, ok)
      BY <2>2, <2>5
    <3> QED
      BY <3>1 DEF QueueRight
  <2> DEFINE t == [queue |-> r, ids |-> more]
  <2>7. t \in [queue : Queues(off), ids : Seq(Nat)] /\ t.queue = r /\ t.ids = more
    BY <2>4, <2>6
  <2> HIDE DEF t
  <2>8. t \in Beams(cap, met, gone, off, ok)
    BY <2>4, <2>5, <2>6, <2>7 DEF Beams
  <2> QED
    BY <2>1, <2>8 DEF t
<1> QED
  BY <1>2, <1>3

LEMMA BeamRight ==
    ASSUME NEW off, OffsOK(off), NEW cap, NEW met \in SUBSET DOMAIN off, NEW gone, NEW ok,
           QueueRight(queue, cap, met, gone, off, ok), call.beam \in Nat
    PROVE  Beam \in Beams(cap, met, gone, off, ok)
<1> DEFINE num == call.beam
           V == Beams(cap, met, gone, off, ok)
           b0 == [queue |-> queue, ids |-> <<>>]
           Takes(f) == f = [i \in 0 .. num |-> IF i = 0 THEN b0 ELSE Grown(f[i - 1])]
           taken == CHOOSE f : Takes(f)
           step == [p \in V \X (1 .. num) |-> Grown(p[1])]
<1>1. num \in Nat
  OBVIOUS
<1>2. Beam = taken[num]
  BY DEF Beam
<1>3. b0 \in V
  <2>1. <<>> \in Seq(Nat) /\ Distinct(<<>>) /\ ToSet(<<>>) = {} /\ queue \in Queues(off)
    BY DEF Distinct, ToSet, QueueRight
  <2>2. b0 \in [queue : Queues(off), ids : Seq(Nat)] /\ b0.queue = queue /\ b0.ids = <<>>
    BY <2>1
  <2> HIDE DEF b0
  <2>3. gone \cup ToSet(<<>>) = gone
    BY <2>1
  <2> QED
    BY <2>1, <2>2, <2>3 DEF Beams
<1>4. \A b \in V : Grown(b) \in V
  BY GrownRight
<1> HIDE DEF V, b0, taken
<1>5. step \in [V \X (1 .. num) -> V]
  BY <1>4
<1>6. \A b \in V, i \in 1 .. num : step[<<b, i>>] = Grown(b)
  OBVIOUS
<1> HIDE DEF step, num
<1>7. PICK f : AreRounds(f, V, b0, num, step)
  BY <1>1, <1>3, <1>5, RoundsDefine
<1>8. f \in [0 .. num -> V] /\ f[0] = b0 /\ \A i \in 1 .. num : f[i] = Grown(f[i - 1])
  <2>1. f \in [0 .. num -> V] /\ f[0] = b0 /\ \A i \in 1 .. num : f[i] = step[<<f[i - 1], i>>]
    BY <1>7 DEF AreRounds
  <2>2. \A i \in 1 .. num : f[i - 1] \in V
    BY <1>1, <2>1
  <2> QED
    BY <1>6, <2>1, <2>2
<1>9. Takes(f)
  <2>1. \A i \in 0 .. num : f[i] = IF i = 0 THEN b0 ELSE Grown(f[i - 1])
    BY <1>1, <1>8
  <2> QED
    BY <1>8, <2>1
<1>10. Takes(taken)
  <2> HIDE DEF Takes
  <2> QED
    BY <1>9 DEF taken
<1>11. taken[0] = b0 /\ \A i \in 1 .. num : taken[i] = Grown(taken[i - 1])
  <2>1. 0 \in 0 .. num /\ \A i \in 1 .. num : i \in 0 .. num /\ i # 0
    BY <1>1
  <2> QED
    BY <1>10, <2>1
<1> DEFINE Good == {i \in 0 .. num : taken[i] \in V}
<1>12. 0 .. num \subseteq Good
  <2>1. 0 \in Good
    BY <1>1, <1>3, <1>11
  <2>2. ASSUME NEW i \in 1 .. num, i - 1 \in Good PROVE i \in Good
    BY <1>1, <1>4, <1>11, <2>2
  <2> HIDE DEF Good
  <2> QED
    BY <1>1, <2>1, <2>2, Rounds
<1> QED
  BY <1>1, <1>2, <1>12 DEF V

\* The rows of a beam, those that are cached first.
LEMMA OrderRight ==
    ASSUME NEW ids \in Seq(Nat), Distinct(ids)
    PROVE  /\ OrderOfBeam(ids) \in Seq(Nat) /\ Distinct(OrderOfBeam(ids))
           /\ ToSet(OrderOfBeam(ids)) = ToSet(ids)
<1> DEFINE num == Len(ids)
           C == CachedIn(ids)
           D == DOMAIN ids \ C
           a == Picked(ids, C)
           b == Picked(ids, D)
           all == OrderOfBeam(ids)
<1>1. num \in Nat /\ DOMAIN ids = 1 .. num /\ C \in SUBSET (1 .. num) /\ D \in SUBSET (1 .. num)
      /\ C \cup D = 1 .. num /\ C \cap D = {}
  BY DEF CachedIn
<1>2. all = a \o b
  BY DEF OrderOfBeam, ToRead
<1> HIDE DEF C, D, all
<1>3. /\ a \in Seq(Nat) /\ Distinct(a) /\ b \in Seq(Nat) /\ Distinct(b)
  BY <1>1, PickedDistinct
<1>4. ASSUME NEW P \in SUBSET (1 .. num) PROVE ToSet(Picked(ids, P)) = {ids[i] : i \in P}
  <2> DEFINE k == Cardinality(P)
             order == RankOrder(P)
             picked == Picked(ids, P)
  <2>1. IsFiniteSet(P) /\ P \subseteq Nat
    <3>1. IsFiniteSet(1 .. num) /\ 1 .. num \subseteq Nat
      BY <1>1, FS_Interval
    <3> QED
      BY <3>1, FS_Subset
  <2>2. k \in Nat /\ order \in [1 .. k -> P] /\ \A x \in P : \E i \in 1 .. k : order[i] = x
    BY <2>1, RankOrderType
  <2>3. picked = [i \in 1 .. k |-> ids[order[i]]]
    BY DEF Picked
  <2> HIDE DEF k, order, picked
  <2>4. DOMAIN picked = 1 .. k
    BY <2>3
  <2>5. ToSet(picked) = {ids[i] : i \in P}
    BY <2>2, <2>3, <2>4 DEF ToSet
  <2> QED
    BY <2>5 DEF picked
<1>5. ToSet(a) = {ids[i] : i \in C} /\ ToSet(b) = {ids[i] : i \in D}
  BY <1>1, <1>4
<1>6. ToSet(ids) = {ids[i] : i \in 1 .. num} /\ \A i, j \in 1 .. num : ids[i] = ids[j] => i = j
  BY <1>1 DEF ToSet, Distinct
<1> HIDE DEF a, b, num
<1> DEFINE n == Len(a)
           m == Len(b)
<1>7. /\ n \in Nat /\ m \in Nat /\ all \in Seq(Nat) /\ Len(all) = n + m
      /\ \A i \in 1 .. n + m : all[i] = IF i <= n THEN a[i] ELSE b[i - n]
  BY <1>2, <1>3, ConcatProperties
<1>8. /\ \A i \in 1 .. n : a[i] \in ToSet(a) /\ \A j \in 1 .. n : a[i] = a[j] => i = j
      /\ \A i \in 1 .. m : b[i] \in ToSet(b) /\ \A j \in 1 .. m : b[i] = b[j] => i = j
      /\ ToSet(a) = {a[i] : i \in 1 .. n} /\ ToSet(b) = {b[i] : i \in 1 .. m}
  BY <1>3 DEF Distinct, ToSet
<1>9. ToSet(a) \cap ToSet(b) = {} /\ ToSet(a) \cup ToSet(b) = ToSet(ids)
  BY <1>1, <1>5, <1>6
<1> HIDE DEF n, m
<1>10. \A i \in 1 .. n + m : /\ i <= n => i \in 1 .. n /\ all[i] = a[i]
                             /\ i > n => i - n \in 1 .. m /\ all[i] = b[i - n]
  BY <1>7
<1>11. ASSUME NEW i \in 1 .. n + m, NEW j \in 1 .. n + m, all[i] = all[j] PROVE i = j
  <2>1. CASE i <= n /\ j <= n
    BY <1>8, <1>10, <1>11, <2>1
  <2>2. CASE i > n /\ j > n
    <3>1. i - n = j - n
      BY <1>8, <1>10, <1>11, <2>2
    <3> QED
      BY <1>7, <3>1
  <2>3. CASE (i <= n /\ j > n) \/ (i > n /\ j <= n)
    BY <1>8, <1>9, <1>10, <1>11, <2>3
  <2> QED
    BY <1>7, <2>1, <2>2, <2>3
<1>12. ToSet(all) = ToSet(ids)
  <2>1. DOMAIN all = 1 .. n + m
    BY <1>7
  <2>2. \A i \in 1 .. n : i \in 1 .. n + m /\ all[i] = a[i]
    BY <1>7
  <2>3. \A i \in 1 .. m : n + i \in 1 .. n + m /\ ~(n + i <= n) /\ (n + i) - n = i
    BY <1>7
  <2>4. \A i \in 1 .. m : all[n + i] = b[i]
    BY <1>7, <2>3
  <2>5. ToSet(a) \cup ToSet(b) \subseteq ToSet(all)
    <3>1. \A i \in 1 .. n + m : all[i] \in ToSet(all)
      BY <2>1 DEF ToSet
    <3>2. \A i \in 1 .. n : a[i] \in ToSet(all)
      BY <2>2, <3>1
    <3>3. \A i \in 1 .. m : b[i] \in ToSet(all)
      BY <2>3, <2>4, <3>1
    <3> QED
      BY <1>8, <3>2, <3>3
  <2>6. ToSet(all) \subseteq ToSet(a) \cup ToSet(b)
    <3>1. \A i \in 1 .. n + m : all[i] \in ToSet(a) \cup ToSet(b)
      BY <1>7, <1>8, <1>10
    <3> QED
      BY <2>1, <3>1 DEF ToSet
  <2> QED
    BY <1>9, <2>5, <2>6
<1> QED
  BY <1>7, <1>11, <1>12 DEF Distinct, all

-----------------------------------------------------------------------------
(* Looking at the neighbours of the beam.                                  *)

\* How far rows are from the place that is searched for, and the rows it admits.
Offs == [r \in DOMAIN rows |-> Dist(call.place, Places[r])]
AdmittedRows == {r \in DOMAIN rows : Admitted(call, r)}

Lookings(cap, gone) ==
    {a \in [visited : SUBSET DOMAIN rows, queue : Queues(Offs)] :
        QueueRight(a.queue, cap, a.visited, gone, Offs, AdmittedRows)}

LEMMA LookedRight ==
    ASSUME OffsOK(Offs), NEW cap \in Nat \ {0}, NEW gone, NEW a \in Lookings(cap, gone), NEW id \in DOMAIN rows
    PROVE  Looked(a, id) \in Lookings(cap, gone) /\ Looked(a, id).visited = a.visited \cup {id}
<1> DEFINE off == Offs
           ok == AdmittedRows
           q == a.queue
           met == a.visited
           n == Candidate(call, id)
           r == IF id \in met \/ ~Admitted(call, id) THEN q ELSE QueueInsert(q, n)
<1>1. /\ OffsOK(off) /\ DOMAIN off = DOMAIN rows /\ met \in SUBSET DOMAIN off
      /\ QueueRight(q, cap, met, gone, off, ok)
  BY DEF Lookings, Offs
<1>2. n \in Entries(off) /\ n.id = id /\ n.expanded = FALSE
  <2>1. off[id] = Dist(call.place, Places[id]) /\ off[id] \in Int
    BY <1>1 DEF Offs, OffsOK
  <2>2. n = [id |-> id, dist |-> off[id], expanded |-> FALSE]
    BY <2>1 DEF Candidate, AsNeighbor
  <2> HIDE DEF off, n
  <2>3. n \in [id : DOMAIN off, dist : Int, expanded : BOOLEAN] /\ n.id = id /\ n.dist = off[id]
        /\ n.expanded = FALSE
    BY <1>1, <2>1, <2>2
  <2> QED
    BY <2>3 DEF Entries
<1>3. id \in ok <=> Admitted(call, id)
  BY DEF AdmittedRows
<1> HIDE DEF off, ok, q, met, n
<1>4. QueueRight(r, cap, met \cup {id}, gone, off, ok)
  <2>1. CASE id \in met
    <3>1. met \cup {id} = met
      BY <2>1
    <3> QED
      BY <1>1, <2>1, <3>1
  <2>2. CASE id \notin met /\ ~Admitted(call, id)
    BY <1>1, <1>3, <2>2, QueueMeets
  <2>3. CASE id \notin met /\ Admitted(call, id)
    <3>1. QueueRight(QueueInsert(q, n), cap, met \cup {n.id}, gone, off, ok)
      BY <1>1, <1>2, <2>3, InsertRight
    <3> QED
      BY <1>2, <2>3, <3>1
  <2> QED
    BY <2>1, <2>2, <2>3
<1>5. Looked(a, id) = [visited |-> met \cup {id}, queue |-> r]
  BY DEF Looked, met, q, n
<1> HIDE DEF r
<1> DEFINE b == [visited |-> met \cup {id}, queue |-> r]
<1>6. /\ b \in [visited : SUBSET DOMAIN rows, queue : Queues(off)] /\ b.visited = met \cup {id}
      /\ b.queue = r
  <2>1. r \in Queues(off) /\ met \cup {id} \in SUBSET DOMAIN rows
    BY <1>1, <1>4 DEF QueueRight
  <2> QED
    BY <2>1
<1> HIDE DEF b
<1>7. b \in Lookings(cap, gone)
  BY <1>4, <1>6 DEF Lookings, off, ok
<1> QED
  BY <1>5, <1>6, <1>7 DEF b, met

LEMMA LookedOverRight ==
    ASSUME OffsOK(Offs), NEW cap \in Nat \ {0}, NEW gone, NEW a \in Lookings(cap, gone),
           NEW list \in Seq(DOMAIN rows)
    PROVE  LookedOver(a, list) \in Lookings(cap, gone) /\ LookedOver(a, list).visited = a.visited \cup ToSet(list)
<1> DEFINE num == Len(list)
           V == Lookings(cap, gone)
           Looks(f) == f = [i \in 0 .. num |-> IF i = 0 THEN a ELSE Looked(f[i - 1], list[i])]
           look == CHOOSE f : Looks(f)
           step == [p \in V \X (1 .. num) |-> Looked(p[1], list[p[2]])]
<1>1. num \in Nat /\ \A i \in 1 .. num : list[i] \in DOMAIN rows
  OBVIOUS
<1>2. LookedOver(a, list) = look[num]
  BY DEF LookedOver
<1>3. \A b \in V, i \in 1 .. num : Looked(b, list[i]) \in V /\ Looked(b, list[i]).visited = b.visited \cup {list[i]}
  BY <1>1, LookedRight
<1>4. a \in V /\ ToSet(list) = {list[i] : i \in 1 .. num}
  BY DEF ToSet
<1> HIDE DEF V, look
<1>5. step \in [V \X (1 .. num) -> V]
  BY <1>3
<1>6. \A b \in V, i \in 1 .. num : step[<<b, i>>] = Looked(b, list[i])
  OBVIOUS
<1> HIDE DEF step, num
<1>7. PICK f : AreRounds(f, V, a, num, step)
  BY <1>1, <1>4, <1>5, RoundsDefine
<1>8. f \in [0 .. num -> V] /\ f[0] = a /\ \A i \in 1 .. num : f[i] = Looked(f[i - 1], list[i])
  <2>1. f \in [0 .. num -> V] /\ f[0] = a /\ \A i \in 1 .. num : f[i] = step[<<f[i - 1], i>>]
    BY <1>7 DEF AreRounds
  <2>2. \A i \in 1 .. num : f[i - 1] \in V
    BY <1>1, <2>1
  <2> QED
    BY <1>6, <2>1, <2>2
<1>9. Looks(f)
  <2>1. \A i \in 0 .. num : f[i] = IF i = 0 THEN a ELSE Looked(f[i - 1], list[i])
    BY <1>1, <1>8
  <2> QED
    BY <1>8, <2>1
<1>10. Looks(look)
  <2> HIDE DEF Looks
  <2> QED
    BY <1>9 DEF look
<1>11. look[0] = a /\ \A i \in 1 .. num : look[i] = Looked(look[i - 1], list[i])
  <2>1. 0 \in 0 .. num /\ \A i \in 1 .. num : i \in 0 .. num /\ i # 0
    BY <1>1
  <2> QED
    BY <1>10, <2>1
<1> DEFINE Good == {i \in 0 .. num : look[i] \in V /\ look[i].visited = a.visited \cup {list[j] : j \in 1 .. i}}
<1>12. 0 .. num \subseteq Good
  <2>1. 0 \in Good
    BY <1>1, <1>4, <1>11
  <2>2. ASSUME NEW i \in 1 .. num, i - 1 \in Good PROVE i \in Good
    <3>1. look[i] \in V /\ look[i].visited = (a.visited \cup {list[j] : j \in 1 .. i - 1}) \cup {list[i]}
      <4>1. look[i - 1] \in V /\ look[i - 1].visited = a.visited \cup {list[j] : j \in 1 .. i - 1}
        BY <2>2
      <4>2. look[i] = Looked(look[i - 1], list[i])
        BY <1>11
      <4>3. Looked(look[i - 1], list[i]) \in V
            /\ Looked(look[i - 1], list[i]).visited = look[i - 1].visited \cup {list[i]}
        BY <1>3, <4>1
      <4> QED
        BY <4>1, <4>2, <4>3
    <3>2. 1 .. i = (1 .. i - 1) \cup {i}
      BY <1>1
    <3>3. {list[j] : j \in 1 .. i} = {list[j] : j \in 1 .. i - 1} \cup {list[i]}
      BY <3>2
    <3> QED
      BY <1>1, <3>1, <3>3
  <2> HIDE DEF Good
  <2> QED
    BY <1>1, <2>1, <2>2, Rounds
<1> QED
  BY <1>1, <1>2, <1>4, <1>12 DEF V

LEMMA AfterAllRight ==
    ASSUME OffsOK(Offs), NEW cap \in Nat \ {0}, NEW gone, NEW a \in Lookings(cap, gone),
           NEW order \in Seq(Nat), \A i \in 1 .. Len(order) : Known(order[i]).nhood \in Seq(DOMAIN rows)
    PROVE  /\ AfterAll(a, order) \in Lookings(cap, gone) /\ a.visited \subseteq AfterAll(a, order).visited
           /\ \A i \in 1 .. Len(order) : ToSet(Known(order[i]).nhood) \subseteq AfterAll(a, order).visited
<1> DEFINE num == Len(order)
           list(i) == Known(order[i]).nhood
           V == Lookings(cap, gone)
           Reads(f) == f = [i \in 0 .. num |-> IF i = 0 THEN a ELSE LookedOver(f[i - 1], list(i))]
           over == CHOOSE f : Reads(f)
           step == [p \in V \X (1 .. num) |-> LookedOver(p[1], list(p[2]))]
<1>1. num \in Nat /\ \A i \in 1 .. num : list(i) \in Seq(DOMAIN rows)
  OBVIOUS
<1>2. AfterAll(a, order) = over[num]
  BY DEF AfterAll
<1> HIDE DEF list
<1>3. \A b \in V, i \in 1 .. num :
         LookedOver(b, list(i)) \in V /\ LookedOver(b, list(i)).visited = b.visited \cup ToSet(list(i))
  BY <1>1, LookedOverRight
<1>4. a \in V
  OBVIOUS
<1> HIDE DEF V, over
<1>5. step \in [V \X (1 .. num) -> V]
  BY <1>3
<1>6. \A b \in V, i \in 1 .. num : step[<<b, i>>] = LookedOver(b, list(i))
  OBVIOUS
<1> HIDE DEF step, num
<1>7. PICK f : AreRounds(f, V, a, num, step)
  BY <1>1, <1>4, <1>5, RoundsDefine
<1>8. f \in [0 .. num -> V] /\ f[0] = a /\ \A i \in 1 .. num : f[i] = LookedOver(f[i - 1], list(i))
  <2>1. f \in [0 .. num -> V] /\ f[0] = a /\ \A i \in 1 .. num : f[i] = step[<<f[i - 1], i>>]
    BY <1>7 DEF AreRounds
  <2>2. \A i \in 1 .. num : f[i - 1] \in V
    BY <1>1, <2>1
  <2> QED
    BY <1>6, <2>1, <2>2
<1>9. Reads(f)
  <2>1. \A i \in 0 .. num : f[i] = IF i = 0 THEN a ELSE LookedOver(f[i - 1], list(i))
    BY <1>1, <1>8
  <2> QED
    BY <1>8, <2>1
<1>10. Reads(over)
  <2> HIDE DEF Reads
  <2> QED
    BY <1>9 DEF over
<1>11. over[0] = a /\ \A i \in 1 .. num : over[i] = LookedOver(over[i - 1], list(i))
  <2>1. 0 \in 0 .. num /\ \A i \in 1 .. num : i \in 0 .. num /\ i # 0
    BY <1>1
  <2> QED
    BY <1>10, <2>1
<1> DEFINE Good == {i \in 0 .. num : /\ over[i] \in V /\ a.visited \subseteq over[i].visited
                                     /\ \A j \in 1 .. i : ToSet(list(j)) \subseteq over[i].visited}
<1>12. 0 .. num \subseteq Good
  <2>1. 0 \in Good
    BY <1>1, <1>4, <1>11
  <2>2. ASSUME NEW i \in 1 .. num, i - 1 \in Good PROVE i \in Good
    <3>1. over[i] \in V /\ over[i].visited = over[i - 1].visited \cup ToSet(list(i))
      BY <1>3, <1>11, <2>2
    <3>2. \A j \in 1 .. i : j \in 1 .. i - 1 \/ j = i
      BY <1>1
    <3> QED
      BY <1>1, <2>2, <3>1, <3>2
  <2> HIDE DEF Good
  <2> QED
    BY <1>1, <2>1, <2>2, Rounds
<1> QED
  BY <1>1, <1>2, <1>12 DEF V, num, list

-----------------------------------------------------------------------------
(* What is searched.                                                       *)

\* The stages in which there is an index on disk.
Served == {"laid out", "open", "serving", "warm-up", "searching", "answered"}

\* The lists of a graph are of rows, in the index file and then on disk, and so
\* are the rows where searches start.
GraphRead ==
    /\ \A r \in DOMAIN rows : NodeSector(r) \in DOMAIN file /\ ReadNode(r).nhood \in Seq(DOMAIN rows)
    /\ ToSet(medoids) \cup {index.entry} \subseteq DOMAIN rows
    /\ \A l \in DOMAIN starts : ToSet(starts[l]) \subseteq DOMAIN rows

GraphInv ==
    /\ RowsPlaced
    /\ stage \in {"merged", "indexed"} => \A r \in DOMAIN rows : index.lists[r] \in Seq(DOMAIN rows)
    /\ stage \in Served => GraphRead

\* What a shard links a row to are rows.
LEMMA LinkedAreRows ==
    ASSUME BuildInv, stage = "merge", NEW r
    PROVE  LinkedInShards(r) \subseteq DOMAIN rows
<1>1. ShardsBuilt /\ DOMAIN shards = 1 .. parts
  BY BuiltShards DEF BuildInv, ShardInv
<1>2. ASSUME NEW s \in 1 .. parts, NEW i \in DOMAIN idmaps[s], NEW x \in ToSet(shards[s].lists[i - 1])
      PROVE  Renamed(s, x) \in DOMAIN rows
  <2> DEFINE num == Len(idmaps[s])
  <2>1. idmaps[s] \in Seq(DOMAIN rows)
    BY <1>1, IdMapRows DEF ShardsBuilt
  <2>2. num \in Nat /\ DOMAIN idmaps[s] = 1 .. num /\ \A j \in 1 .. num : idmaps[s][j] \in DOMAIN rows
    BY <2>1
  <2>3. shards[s].lists \in [0 .. num - 1 -> Seq(0 .. num - 1)]
    BY <1>1 DEF ShardsBuilt, ShardBuilt, Ids
  <2> HIDE DEF num
  <2>4. i \in 1 .. num /\ i - 1 \in 0 .. num - 1
    BY <2>2
  <2>5. shards[s].lists[i - 1] \in Seq(0 .. num - 1)
    BY <2>3, <2>4
  <2> DEFINE list == shards[s].lists[i - 1]
             T == 0 .. num - 1
  <2>6. x \in T
    <3>1. list \in Seq(T)
      BY <2>5
    <3> HIDE DEF list, T
    <3>2. ToSet(list) \subseteq T
      BY <3>1 DEF ToSet
    <3> QED
      BY <3>2 DEF list
  <2>7. x + 1 \in 1 .. num
    BY <2>2, <2>6
  <2> QED
    BY <2>2, <2>7 DEF Renamed
<1> QED
  BY <1>1, <1>2 DEF LinkedInShards

LEMMA EndMergeGraph ==
    ASSUME BuildInv, MergeInv, EndMerge
    PROVE  \A r \in DOMAIN rows : index'.lists[r] \in Seq(DOMAIN rows)
<1>1. stage = "merge"
  BY DEF EndMerge
<1>2. ASSUME NEW r \in DOMAIN rows PROVE index'.lists[r] \in Seq(DOMAIN rows)
  <2> DEFINE list == index'.lists[r]
  <2>1. list \in Seq(Nat) /\ ToSet(list) \subseteq LinkedInShards(r)
    BY EndMergeLists DEF ListRight
  <2>2. ToSet(list) \subseteq DOMAIN rows
    BY <1>1, <2>1, LinkedAreRows
  <2> HIDE DEF list
  <2>3. \A i \in 1 .. Len(list) : list[i] \in ToSet(list)
    BY <2>1 DEF ToSet
  <2>4. list \in Seq(DOMAIN rows)
    BY <2>1, <2>2, <2>3
  <2> QED
    BY <2>4 DEF list
<1> QED
  BY <1>2

\* Once there is an index on disk it stays as it is, up to its cache and the
\* labels that are read with it.
LEMMA ServedSteps ==
    ASSUME stage \in Served, [Next]_vars
    PROVE  /\ UNCHANGED <<ask, rows, index, medoids, starts, perSector, vectors, file>>
           /\ stage' \in Served \cup {"threw"}
<1>1. CASE BuildNext
  <2>1. stage \in Building
    BY <1>1 DEF BuildNext, BreakUp, OneShot, Partition, BuildShard, StartMerge, MergeNode, EndMerge,
                RemoveTempFiles, Building
  <2> QED
    BY <2>1 DEF Served, Building
<1>2. CASE CreateDiskLayout
  BY <1>2 DEF CreateDiskLayout, Served
<1>3. CASE Open \/ LoadCache
  BY <1>3 DEF Open, LoadCache, Served
<1>4. CASE WarmUp \/ EndWarmUp
  BY <1>4 DEF WarmUp, EndWarmUp, Served
<1>5. CASE WarmUpCall \/ \E c \in Searches : Call(c)
  <2>1. \E c : Begin(c)
    BY <1>5, CallBegins
  <2> QED
    BY <2>1 DEF Begin, diskVars, Served
<1>6. CASE Hop
  BY <1>6 DEF Hop, buildVars, diskVars, Served
<1>7. CASE Finish \/ NoReorderData
  BY <1>7 DEF Finish, NoReorderData, diskVars, Served
<1>8. CASE FinishWarmUpCall \/ NextCall
  BY <1>8 DEF FinishWarmUpCall, NextCall, GiveBack, diskVars, Served
<1>9. CASE Done \/ UNCHANGED vars
  BY <1>9 DEF Done, vars, buildVars, diskVars
<1> QED
  BY <1>1, <1>2, <1>3, <1>4, <1>5, <1>6, <1>7, <1>8, <1>9 DEF Next

LEMMA GraphInvNext ==
    ASSUME DiskInv, BuildInv, MergeInv, GraphInv, [Next]_vars PROVE GraphInv'
<1>1. ASSUME stage # "asked", UNCHANGED <<ask, rows>> PROVE RowsPlaced'
  BY <1>1 DEF GraphInv, RowsPlaced
<1>2. CASE stage \in Served
  <2>1. /\ UNCHANGED <<ask, rows, index, medoids, starts, perSector, vectors, file>>
        /\ stage' \notin {"merged", "indexed"} /\ stage # "asked"
    BY <1>2, ServedSteps DEF Served
  <2>2. \A r : ReadNode(r)' = ReadNode(r) /\ NodeSector(r)' = NodeSector(r)
    BY <2>1 DEF ReadNode, OffsetToNode, NodeSector
  <2>3. GraphRead'
    BY <1>2, <2>1, <2>2 DEF GraphInv, GraphRead
  <2> QED
    BY <1>1, <2>1, <2>3 DEF GraphInv
<1>3. CASE stage \notin Served /\ BuildNext
  <2>1. stage' \notin Served
    BY <1>3 DEF BuildNext, BreakUp, OneShot, Partition, BuildShard, StartMerge, MergeNode, EndMerge,
                RemoveTempFiles, Served
  <2>2. CASE BreakUp
    BY <2>1, <2>2, BreakUpRows DEF GraphInv, DiskInv, BreakUp
  <2>3. CASE OneShot
    <3>1. stage = "rows" /\ UNCHANGED <<ask, rows>> /\ N \in Nat /\ DOMAIN rows = 0 .. N - 1
      BY <2>3 DEF OneShot, DiskInv, RowsNumbered
    <3>2. PICK g \in GraphsOf(N) : index' = [lists |-> g.lists, entry |-> g.entry, size |-> SizeOf(g.lists)]
      BY <2>3 DEF OneShot
    <3>3. g.lists \in [DOMAIN rows -> Seq(DOMAIN rows)] /\ index'.lists = g.lists
      BY <3>1, <3>2 DEF GraphsOf, Ids
    <3>4. \A r \in DOMAIN rows' : index'.lists[r] \in Seq(DOMAIN rows')
      BY <3>1, <3>3
    <3> QED
      BY <1>1, <2>1, <3>1, <3>4 DEF GraphInv
  <2>4. CASE Partition \/ BuildShard \/ StartMerge \/ MergeNode
    <3>1. stage # "asked" /\ UNCHANGED <<ask, rows>> /\ stage' \notin {"merged", "indexed"}
      BY <2>4 DEF Partition, BuildShard, StartMerge, MergeNode
    <3> QED
      BY <1>1, <2>1, <3>1 DEF GraphInv
  <2>5. CASE EndMerge
    <3>1. stage = "merge" /\ UNCHANGED <<ask, rows>>
      BY <2>5 DEF EndMerge
    <3>2. \A r \in DOMAIN rows' : index'.lists[r] \in Seq(DOMAIN rows')
      BY <2>5, <3>1, EndMergeGraph
    <3> QED
      BY <1>1, <2>1, <3>1, <3>2 DEF GraphInv
  <2>6. CASE RemoveTempFiles
    <3>1. stage = "merged" /\ UNCHANGED <<ask, rows, index>>
      BY <2>6 DEF RemoveTempFiles
    <3> QED
      BY <1>1, <2>1, <3>1 DEF GraphInv
  <2> QED
    BY <1>3, <2>2, <2>3, <2>4, <2>5, <2>6 DEF BuildNext
<1>4. CASE CreateDiskLayout
  <2>1. /\ stage = "indexed" /\ UNCHANGED <<ask, rows, medoids, starts>> /\ index' = [None EXCEPT !.entry = index.entry]
        /\ stage' \in {"laid out", "threw"}
    BY <1>4 DEF CreateDiskLayout
  <2>2. ASSUME stage' = "laid out" PROVE GraphRead'
    <3>1. ASSUME NEW r \in DOMAIN rows 
          PROVE  NodeSector(r)' \in DOMAIN file' /\ ReadNode(r)'.nhood \in Seq(DOMAIN rows)
      <4>1. NodeSector(r)' \in DOMAIN file' /\ ReadNode(r)' = NodeRecord(vectors', r)
        BY <1>4, <2>2, LayoutReads
      <4>2. ReadNode(r)'.nhood = index.lists[r]
        BY <4>1 DEF NodeRecord
      <4> QED
        BY <2>1, <4>1, <4>2 DEF GraphInv
    <3>2. index'.entry = index.entry
      BY <2>1 DEF None
    <3>3. StartsRight
      BY <2>1 DEF BuildInv, EntriesInv
    <3> QED
      BY <2>1, <3>1, <3>2, <3>3 DEF GraphRead, StartsRight
  <2> QED
    BY <1>1, <2>1, <2>2 DEF GraphInv, Served
<1>5. CASE stage \notin Served /\ ~BuildNext /\ ~CreateDiskLayout
  <2>1. UNCHANGED <<ask, stage, rows, index>>
    <3>1. CASE Done \/ UNCHANGED vars
      BY <3>1 DEF Done, vars, buildVars
    <3>2. ~(WarmUpCall \/ \E c \in Searches : Call(c))
      BY <1>5, Zenon DEF WarmUpCall, Call, Served
    <3>3. ~(Open \/ LoadCache \/ WarmUp \/ EndWarmUp)
      BY <1>5 DEF Open, LoadCache, WarmUp, EndWarmUp, Served
    <3>4. ~(Hop \/ Finish \/ FinishWarmUpCall \/ NoReorderData \/ NextCall)
      BY <1>5 DEF Hop, Finish, FinishWarmUpCall, NoReorderData, NextCall, Ended, Served
    <3> QED
      BY <1>5, <3>1, <3>2, <3>3, <3>4 DEF Next
  <2> QED
    BY <1>5, <2>1 DEF GraphInv, RowsPlaced
<1> QED
  BY <1>2, <1>3, <1>4, <1>5

-----------------------------------------------------------------------------
(* The search.                                                             *)

\* The warm-up queries that are left.
WarmInv ==
    stage = "warm-up" \/ sampling # NoWarmUp =>
        \E left \in Seq(Int \X Int), asked \in CacheAsked : sampling = [left |-> left, asked |-> asked]

\* A search has visited what its expanded rows link to, and its queue is right.
Expansions == [id : DOMAIN rows, dist : Int]
SearchRight ==
    /\ call.l \in Nat \ {0} /\ call.beam \in Nat /\ call.place \in Int \X Int
    /\ visited \in SUBSET DOMAIN rows
    /\ QueueRight(queue, call.l, visited, ExpandedIds, Offs, AdmittedRows)
    /\ expanded \in Seq(Expansions) /\ Distinct(IdsIn(expanded))
    /\ \A r \in ExpandedIds : ToSet(ReadNode(r).nhood) \subseteq visited
SearchInv ==
    /\ stage \in {"searching", "answered"} => SearchRight
    /\ stage = "answered" => ~(HasUnexpanded(queue) /\ ios < call.limit)

LEMMA DistInt ==
    ASSUME NEW p \in Int \X Int, NEW q \in Int \X Int PROVE Dist(p, q) \in Int
<1>1. p[1] \in Int /\ p[2] \in Int /\ q[1] \in Int /\ q[2] \in Int
  OBVIOUS
<1>2. \A a, b \in Int : Square(a - b) \in Int
  BY DEF Square
<1>3. Square(p[1] - q[1]) \in Int /\ Square(p[2] - q[2]) \in Int
  BY <1>1, <1>2
<1> DEFINE x == Square(p[1] - q[1])
           y == Square(p[2] - q[2])
<1>4. Dist(p, q) = x + y
  BY DEF Dist
<1> HIDE DEF x, y
<1>5. x \in Int /\ y \in Int
  BY <1>3 DEF x, y
<1> QED
  BY <1>4, <1>5

\* Rows are at places, in memory and on disk.
LEMMA PlacesRight ==
    ASSUME DiskInv, RowsPlaced, stage \in Served
    PROVE  /\ DOMAIN rows \subseteq Nat
           /\ \A r \in DOMAIN rows : /\ rows[r].coord \in Int \X Int /\ Places[r] \in Int \X Int
                                     /\ PlaceOnDisk(vectors, r) \in Int \X Int
<1>1. N \in Nat /\ DOMAIN rows = 0 .. N - 1 /\ ask \in Setups
  BY DEF DiskInv, RowsNumbered, Served
<1>2. DOMAIN rows \subseteq Nat
  BY <1>1
<1>3. ASSUME NEW r \in DOMAIN rows
      PROVE  rows[r].coord \in Int \X Int /\ Quantized(rows[r].coord) \in Int \X Int
  <2>1. PICK i \in 1 .. Len(ask.coord) : rows[r].coord = ask.coord[i]
    BY DEF RowsPlaced, Served
  <2>2. ask.coord[i] \in Int \X Int
    <3>1. ask.coord \in Seq(Int \X Int)
      BY <1>1, SetupAssumption
    <3> QED
      BY <3>1
  <2> QED
    BY <1>1, <2>1, <2>2, SearchAssumption
<1> QED
  BY <1>2, <1>3 DEF Places, PlaceOnDisk

LEMMA OffsRight ==
    ASSUME DiskInv, RowsPlaced, stage \in Served, call.place \in Int \X Int
    PROVE  OffsOK(Offs) /\ DOMAIN Offs = DOMAIN rows
<1>1. DOMAIN rows \subseteq Nat /\ \A r \in DOMAIN rows : Places[r] \in Int \X Int
  BY PlacesRight
<1>2. \A r \in DOMAIN rows : Dist(call.place, Places[r]) \in Int
  BY <1>1, DistInt
<1> QED
  BY <1>1, <1>2 DEF Offs, OffsOK

\* What is known of a row is what is on disk.
LEMMA KnownRight ==
    ASSUME DiskInv, GraphInv, stage \in Served, NEW r \in DOMAIN rows
    PROVE  Known(r) = ReadNode(r) /\ Known(r).coord \in Int \X Int /\ Known(r).nhood \in Seq(DOMAIN rows)
<1>1. NodeSector(r) \in DOMAIN file /\ ReadNode(r).nhood \in Seq(DOMAIN rows)
  BY DEF GraphInv, GraphRead
<1>2. file # <<>>
  BY <1>1
<1>3. ReadNode(r).coord = PlaceOnDisk(vectors, r) /\ (r \in DOMAIN cache => cache[r] = ReadNode(r))
  BY <1>2 DEF DiskInv, ReadsFindTheNode
<1>4. PlaceOnDisk(vectors, r) \in Int \X Int
  BY PlacesRight DEF GraphInv
<1>5. Known(r) = ReadNode(r)
  BY <1>3 DEF Known
<1> QED
  BY <1>1, <1>3, <1>4, <1>5

\* The candidates of a search are entries of its queue.
LEMMA CandidateRight ==
    ASSUME NEW c, NEW off, OffsOK(off), NEW r \in DOMAIN off, r \in DOMAIN rows,
           off[r] = Dist(c.place, Places[r])
    PROVE  Candidate(c, r) \in Entries(off) /\ Candidate(c, r).id = r /\ ~Candidate(c, r).expanded
<1> DEFINE n == Candidate(c, r)
<1>1. n = [id |-> r, dist |-> off[r], expanded |-> FALSE]
  BY DEF Candidate, AsNeighbor
<1>2. off[r] \in Int
  BY DEF OffsOK
<1> HIDE DEF n
<1>3. n \in [id : DOMAIN off, dist : Int, expanded : BOOLEAN] /\ n.id = r /\ n.dist = off[r] /\ n.expanded = FALSE
  BY <1>1, <1>2
<1> QED
  BY <1>3 DEF Entries, n

\* A search begins with one row, met and left to expand, in its queue.
LEMMA BeginRight ==
    ASSUME DiskInv, GraphInv, stage \in Served, NEW c, Begin(c),
           c.l \in Nat \ {0}, c.beam \in Nat, c.place \in Int \X Int
    PROVE  SearchInv'
<1>1. /\ call' = c /\ stage' = "searching" /\ expanded' = <<>>
      /\ UNCHANGED <<ask, rows, index, medoids, starts, perSector, vectors, file, flat>>
  BY DEF Begin, diskVars
<1>2. PICK r \in StartsFor(c) : queue' = QueueInsert(EmptyQueue(c.l), Candidate(c, r)) /\ visited' = {r}
  BY DEF Begin
<1>3. r \in DOMAIN rows
  <2>1. GraphRead
    BY DEF GraphInv
  <2>2. CASE c.label = {}
    <3>1. r \in ToSet(Medoids)
      BY <2>2 DEF StartsFor
    <3>2. CASE medoids = <<>>
      <4>1. Medoids = <<index.entry>>
        BY <3>2 DEF Medoids
      <4>2. ToSet(<<index.entry>>) = {index.entry}
        BY DEF ToSet
      <4> QED
        BY <2>1, <3>1, <4>1, <4>2 DEF GraphRead
    <3>3. CASE medoids # <<>>
      BY <2>1, <3>1, <3>3 DEF GraphRead, Medoids
    <3> QED
      BY <3>2, <3>3
  <2>3. CASE c.label # {}
    <3>1. r \in UNION {ToSet(starts[l]) : l \in c.label \cap DOMAIN starts}
      BY <2>3 DEF StartsFor
    <3> QED
      BY <2>1, <3>1 DEF GraphRead
  <2> QED
    BY <2>2, <2>3
<1> DEFINE off == [x \in DOMAIN rows |-> Dist(c.place, Places[x])]
           ok == AdmittedRows'
           q == EmptyQueue(c.l)
           n == Candidate(c, r)
<1>4. OffsOK(off) /\ DOMAIN off = DOMAIN rows
  <2>1. DOMAIN rows \subseteq Nat /\ \A x \in DOMAIN rows : Places[x] \in Int \X Int
    BY PlacesRight DEF GraphInv
  <2>2. \A x \in DOMAIN rows : Dist(c.place, Places[x]) \in Int
    BY <2>1, DistInt
  <2> QED
    BY <2>1, <2>2 DEF OffsOK
<1>5. off[r] = Dist(c.place, Places[r])
  BY <1>3
<1>6. Offs' = off
  BY <1>1 DEF Offs, Places
<1> HIDE DEF off, ok, n, q
<1>7. n \in Entries(off) /\ n.id = r /\ ~n.expanded
  BY <1>3, <1>4, <1>5, CandidateRight DEF n
<1>8. QueueRight(q, c.l, {}, {}, off, ok)
  BY EmptyRight DEF q
<1>9. QueueRight(QueueInsert(q, n), c.l, {} \cup {n.id}, {}, off, ok)
  <2>1. {} \in SUBSET DOMAIN off /\ n.id \notin {}
    OBVIOUS
  <2> QED
    BY <1>4, <1>7, <1>8, <2>1, InsertRight
<1>10. ExpandedIds' = {} /\ IdsIn(expanded)' = <<>>
  <2>1. DOMAIN expanded' = {}
    BY <1>1
  <2> QED
    BY <2>1 DEF ExpandedIds, IdsIn
<1>11. QueueRight(queue', call'.l, visited', ExpandedIds', Offs', ok)
  <2>1. {} \cup {n.id} = visited'
    BY <1>2, <1>7
  <2> QED
    BY <1>1, <1>2, <1>6, <1>9, <1>10, <2>1 DEF q, n
<1>12. QueueRight(queue, call.l, visited, ExpandedIds, Offs, AdmittedRows)'
  BY <1>11 DEF ok
<1>13. (expanded \in Seq(Expansions))' /\ Distinct(IdsIn(expanded))'
  BY <1>1, <1>10 DEF Distinct
<1>14. (visited \in SUBSET DOMAIN rows)' /\ (\A x \in ExpandedIds : ToSet(ReadNode(x).nhood) \subseteq visited)'
  BY <1>1, <1>2, <1>3, <1>10
<1>15. SearchRight'
  BY <1>1, <1>12, <1>13, <1>14 DEF SearchRight
<1> QED
  BY <1>1, <1>15 DEF SearchInv

LEMMA HopRight ==
    ASSUME DiskInv, GraphInv, SearchInv, Hop PROVE SearchInv'
<1>1. /\ stage = "searching" /\ stage' = "searching"
      /\ UNCHANGED <<ask, rows, index, medoids, starts, perSector, vectors, file, flat, cache, call>>
  BY DEF Hop, buildVars, diskVars
<1>2. /\ call.l \in Nat \ {0} /\ call.beam \in Nat /\ call.place \in Int \X Int
      /\ visited \in SUBSET DOMAIN rows
      /\ QueueRight(queue, call.l, visited, ExpandedIds, Offs, AdmittedRows)
      /\ expanded \in Seq(Expansions) /\ Distinct(IdsIn(expanded))
      /\ \A r \in ExpandedIds : ToSet(ReadNode(r).nhood) \subseteq visited
  BY <1>1 DEF SearchInv, SearchRight
<1>3. OffsOK(Offs) /\ DOMAIN Offs = DOMAIN rows /\ DOMAIN rows \subseteq Nat
  BY <1>1, <1>2, OffsRight, PlacesRight DEF GraphInv, Served
<1> DEFINE cap == call.l
           gone == ExpandedIds
           beam == Beam
           ids == beam.ids
           order == OrderOfBeam(ids)
           a == [visited |-> visited, queue |-> beam.queue]
           after == AfterAll(a, order)
           full(r) == [id |-> r, dist |-> Dist(call.place, Known(r).coord)]
           more == [i \in DOMAIN order |-> full(order[i])]
           all == gone \cup ToSet(order)
<1>4. queue' = after.queue /\ visited' = after.visited /\ expanded' = expanded \o more
  BY DEF Hop
<1> HIDE DEF beam
<1>5. /\ beam.queue \in Queues(Offs) /\ ids \in Seq(Nat) /\ Distinct(ids) /\ ToSet(ids) \subseteq visited \ gone
      /\ QueueRight(beam.queue, cap, visited, gone \cup ToSet(ids), Offs, AdmittedRows)
  <2>1. beam \in Beams(cap, visited, gone, Offs, AdmittedRows)
    <3>1. visited \in SUBSET DOMAIN Offs
      BY <1>2, <1>3
    <3> QED
      BY <1>2, <1>3, <3>1, BeamRight DEF beam
  <2> QED
    BY <2>1 DEF Beams
<1> HIDE DEF ids
<1>6. order \in Seq(Nat) /\ Distinct(order) /\ ToSet(order) = ToSet(ids)
  BY <1>5, OrderRight
<1> HIDE DEF order
<1>7. /\ Len(order) \in Nat /\ DOMAIN order = 1 .. Len(order)
      /\ \A i \in 1 .. Len(order) : order[i] \in ToSet(order) /\ order[i] \in visited /\ order[i] \notin gone
  <2>1. Len(order) \in Nat /\ DOMAIN order = 1 .. Len(order)
    BY <1>6
  <2>2. \A i \in 1 .. Len(order) : order[i] \in ToSet(order)
    BY <2>1 DEF ToSet
  <2>3. ToSet(order) \subseteq visited /\ \A x \in ToSet(order) : x \notin gone
    <3> HIDE DEF gone
    <3> QED
      BY <1>5, <1>6
  <2> QED
    BY <2>1, <2>2, <2>3
<1>8. ASSUME NEW i \in 1 .. Len(order)
      PROVE  /\ order[i] \in DOMAIN rows /\ Known(order[i]).nhood \in Seq(DOMAIN rows)
             /\ Known(order[i]) = ReadNode(order[i]) /\ full(order[i]) \in Expansions
  <2>1. order[i] \in DOMAIN rows
    BY <1>2, <1>7
  <2>2. /\ Known(order[i]) = ReadNode(order[i]) /\ Known(order[i]).coord \in Int \X Int
        /\ Known(order[i]).nhood \in Seq(DOMAIN rows)
    BY <1>1, <2>1, KnownRight DEF Served
  <2>3. Dist(call.place, Known(order[i]).coord) \in Int
    BY <1>2, <2>2, DistInt
  <2> QED
    BY <2>1, <2>2, <2>3 DEF Expansions
<1>9. a \in Lookings(cap, all)
  <2>1. a \in [visited : SUBSET DOMAIN rows, queue : Queues(Offs)] /\ a.visited = visited /\ a.queue = beam.queue
    BY <1>2, <1>5
  <2>2. QueueRight(a.queue, cap, a.visited, all, Offs, AdmittedRows)
    <3> HIDE DEF a
    <3> QED
      BY <1>5, <1>6, <2>1
  <2> HIDE DEF a, all
  <2> QED
    BY <2>1, <2>2 DEF Lookings
<1>10. a.visited = visited
  OBVIOUS
<1> HIDE DEF a, all
<1>11. /\ after \in Lookings(cap, all) /\ visited \subseteq after.visited
       /\ \A i \in 1 .. Len(order) : ToSet(Known(order[i]).nhood) \subseteq after.visited
  <2>1. cap \in Nat \ {0}
    BY <1>2
  <2> QED
    BY <1>3, <1>6, <1>8, <1>9, <1>10, <2>1, AfterAllRight
<1> HIDE DEF after
<1>12. visited' \in SUBSET DOMAIN rows /\ QueueRight(queue', cap, visited', all, Offs, AdmittedRows)
  BY <1>4, <1>11 DEF Lookings
<1>13. /\ more \in Seq(Expansions) /\ Len(more) = Len(order)
       /\ \A i \in 1 .. Len(order) : more[i].id = order[i]
  <2>1. \A i \in 1 .. Len(order) : full(order[i]) \in Expansions /\ full(order[i]).id = order[i]
    BY <1>8
  <2> HIDE DEF full
  <2>2. more \in [1 .. Len(order) -> Expansions]
    BY <1>7, <2>1
  <2> QED
    BY <1>7, <2>1, <2>2
<1> HIDE DEF more
<1> DEFINE n == Len(expanded)
           m == Len(order)
<1>14. /\ n \in Nat /\ m \in Nat /\ expanded' \in Seq(Expansions) /\ Len(expanded') = n + m
       /\ \A i \in 1 .. n + m : expanded'[i] = IF i <= n THEN expanded[i] ELSE more[i - n]
  BY <1>2, <1>4, <1>7, <1>13, ConcatProperties
<1>15. /\ Len(IdsIn(expanded)) = n /\ \A i \in 1 .. n : IdsIn(expanded)[i] = expanded[i].id /\ expanded[i].id \in gone
       /\ gone = {expanded[i].id : i \in 1 .. n}
  BY <1>2 DEF IdsIn, ExpandedIds
<1>16. /\ Len(IdsIn(expanded')) = n + m /\ \A i \in 1 .. n + m : IdsIn(expanded')[i] = expanded'[i].id
       /\ ExpandedIds' = {expanded'[i].id : i \in 1 .. n + m}
  BY <1>14 DEF IdsIn, ExpandedIds
<1> HIDE DEF n, m, gone
<1>17. \A i \in 1 .. n + m : /\ i <= n => i \in 1 .. n /\ expanded'[i].id = expanded[i].id
                             /\ i > n => i - n \in 1 .. m /\ expanded'[i].id = order[i - n]
  BY <1>13, <1>14 DEF m
<1>18. ExpandedIds' = all
  <2>1. \A i \in 1 .. n : i \in 1 .. n + m /\ i <= n
    BY <1>14
  <2>2. \A i \in 1 .. m : n + i \in 1 .. n + m /\ n + i > n /\ (n + i) - n = i
    BY <1>14
  <2>3. ToSet(order) = {order[i] : i \in 1 .. m}
    BY <1>7 DEF ToSet, m
  <2>4. ExpandedIds' \subseteq gone \cup ToSet(order)
    BY <1>14, <1>15, <1>16, <1>17, <2>3
  <2>5. gone \subseteq ExpandedIds'
    BY <1>15, <1>16, <1>17, <2>1
  <2>6. ToSet(order) \subseteq ExpandedIds'
    BY <1>16, <1>17, <2>2, <2>3
  <2> QED
    BY <2>4, <2>5, <2>6 DEF all
<1>19. Distinct(IdsIn(expanded'))
  <2>1. ASSUME NEW i \in 1 .. n + m, NEW j \in 1 .. n + m, expanded'[i].id = expanded'[j].id PROVE i = j
    <3>1. CASE i <= n /\ j <= n
      <4>1. i \in 1 .. n /\ j \in 1 .. n /\ expanded[i].id = expanded[j].id
        BY <1>17, <2>1, <3>1
      <4>2. IdsIn(expanded)[i] = IdsIn(expanded)[j]
        BY <1>15, <4>1
      <4> QED
        BY <1>2, <1>15, <4>1, <4>2 DEF Distinct
    <3>2. CASE i > n /\ j > n
      <4>1. i - n \in 1 .. m /\ j - n \in 1 .. m /\ order[i - n] = order[j - n]
        BY <1>17, <2>1, <3>2
      <4>2. i - n = j - n
        BY <1>6, <4>1 DEF Distinct, m
      <4> QED
        BY <1>14, <4>2
    <3>3. CASE (i <= n /\ j > n) \/ (i > n /\ j <= n)
      BY <1>7, <1>15, <1>17, <2>1, <3>3 DEF m
    <3> QED
      BY <1>14, <3>1, <3>2, <3>3
  <2> QED
    BY <1>16, <2>1 DEF Distinct
<1>20. ASSUME NEW r \in all PROVE ToSet(ReadNode(r).nhood) \subseteq visited'
  <2>1. CASE r \in gone
    BY <1>2, <1>4, <1>11, <2>1 DEF gone
  <2>2. CASE r \in ToSet(order)
    <3>1. PICK i \in 1 .. Len(order) : r = order[i]
      BY <1>7, <2>2 DEF ToSet
    <3> QED
      BY <1>4, <1>8, <1>11, <3>1
  <2> QED
    BY <2>1, <2>2 DEF all
<1>21. Offs' = Offs /\ AdmittedRows' = AdmittedRows /\ \A r : ReadNode(r)' = ReadNode(r)
  BY <1>1 DEF Offs, Places, AdmittedRows, Admitted, IsDummy, PointHasLabel, ReadNode, OffsetToNode, NodeSector
<1>22. QueueRight(queue', call'.l, visited', ExpandedIds', Offs', AdmittedRows')
  BY <1>1, <1>12, <1>18, <1>21 DEF cap
<1>23. QueueRight(queue, call.l, visited, ExpandedIds, Offs, AdmittedRows)'
  BY <1>22
<1>24. (expanded \in Seq(Expansions))' /\ Distinct(IdsIn(expanded))'
  BY <1>1, <1>14, <1>19 DEF Expansions
<1>25. \A r \in ExpandedIds' : ToSet(ReadNode(r)'.nhood) \subseteq visited'
  BY <1>18, <1>20, <1>21
<1>26. SearchRight'
  BY <1>1, <1>2, <1>12, <1>23, <1>24, <1>25 DEF SearchRight
<1> QED
  BY <1>1, <1>26 DEF SearchInv

LEMMA WarmInvNext ==
    ASSUME DiskInv, WarmInv, [Next]_vars PROVE WarmInv'
<1>1. ASSUME UNCHANGED sampling, stage' # "warm-up" \/ stage = "warm-up" \/ sampling # NoWarmUp PROVE WarmInv'
  BY <1>1 DEF WarmInv
<1>2. CASE BuildNext /\ UNCHANGED <<diskVars, warmVars, searchVars>>
  <2>1. stage' # "warm-up"
    BY <1>2 DEF BuildNext, BreakUp, OneShot, Partition, BuildShard, StartMerge, MergeNode, EndMerge, RemoveTempFiles
  <2> QED
    BY <1>1, <1>2, <2>1 DEF warmVars
<1>3. CASE CreateDiskLayout \/ Open \/ LoadCache
  BY <1>1, <1>3 DEF CreateDiskLayout, Open, LoadCache, warmVars
<1>4. CASE WarmUp
  <2>1. ask.warm \in Seq(Int \X Int)
    BY SearchAssumption DEF DiskInv
  <2>2. stage = "open"
    BY <1>4 DEF WarmUp
  <2>3. CASE stage' = "serving" /\ UNCHANGED warmVars
    BY <1>1, <2>3 DEF warmVars
  <2>4. CASE stage' = "warm-up" /\ \E asked \in CacheAsked : sampling' = [left |-> ask.warm, asked |-> asked]
    BY <2>1, <2>4 DEF WarmInv
  <2> QED
    BY <1>4, <2>3, <2>4 DEF WarmUp
<1>5. CASE WarmUpCall
  <2>1. PICK left \in Seq(Int \X Int), asked \in CacheAsked : sampling = [left |-> left, asked |-> asked]
    BY <1>5 DEF WarmUpCall, WarmInv
  <2>2. left # <<>> /\ sampling' = [sampling EXCEPT !.left = Tail(@)]
    BY <1>5, <2>1 DEF WarmUpCall
  <2>3. Tail(left) \in Seq(Int \X Int)
    <3> DEFINE P == Int \X Int
    <3>1. left \in Seq(P)
      BY <2>1
    <3> HIDE DEF P
    <3>2. Tail(left) \in Seq(P)
      BY <2>2, <3>1
    <3> QED
      BY <3>2 DEF P
  <2>4. sampling' = [left |-> Tail(left), asked |-> asked]
    BY <2>1, <2>2
  <2> QED
    BY <2>3, <2>4 DEF WarmInv
<1>6. CASE \E c \in Searches : Call(c)
  <2>1. (\E c : Begin(c)) /\ UNCHANGED sampling
    BY <1>6, Zenon DEF Call
  <2> QED
    BY <1>1, <2>1 DEF Begin
<1>7. CASE EndWarmUp
  BY <1>7 DEF EndWarmUp, WarmInv
<1>8. CASE Hop
  BY <1>1, <1>8 DEF Hop, buildVars
<1>9. CASE Finish \/ NoReorderData
  BY <1>1, <1>9 DEF Finish, NoReorderData, warmVars
<1>10. CASE FinishWarmUpCall \/ NextCall
  BY <1>1, <1>10 DEF FinishWarmUpCall, NextCall, GiveBack, warmVars
<1>11. CASE Done \/ UNCHANGED vars
  BY <1>1, <1>11 DEF Done, vars, buildVars, warmVars
<1> QED
  BY <1>2, <1>3, <1>4, <1>5, <1>6, <1>7, <1>8, <1>9, <1>10, <1>11 DEF Next

LEMMA SearchInvNext ==
    ASSUME DiskInv, GraphInv, WarmInv, SearchInv, [Next]_vars PROVE SearchInv'
<1>1. ASSUME stage' \notin {"searching", "answered"} PROVE SearchInv'
  BY <1>1 DEF SearchInv
<1>2. ASSUME stage \in {"searching", "answered"}, stage' \in {"searching", "answered"},
             UNCHANGED <<rows, perSector, file, flat, call, queue, visited, expanded, ios>>,
             stage' = "answered" => ~(HasUnexpanded(queue) /\ ios < call.limit)
      PROVE  SearchInv'
  <2>1. SearchRight
    BY <1>2 DEF SearchInv
  <2>2. Offs' = Offs /\ AdmittedRows' = AdmittedRows /\ ExpandedIds' = ExpandedIds /\ \A r : ReadNode(r)' = ReadNode(r)
    BY <1>2 DEF Offs, Places, AdmittedRows, Admitted, IsDummy, PointHasLabel, ReadNode, OffsetToNode, NodeSector,
                ExpandedIds
  <2>3. QueueRight(queue', call'.l, visited', ExpandedIds', Offs', AdmittedRows')
    BY <1>2, <2>1, <2>2 DEF SearchRight
  <2>4. QueueRight(queue, call.l, visited, ExpandedIds, Offs, AdmittedRows)'
    BY <2>3
  <2>5. (expanded \in Seq(Expansions))' /\ Distinct(IdsIn(expanded))'
    <3>1. expanded \in Seq(Expansions) /\ Distinct(IdsIn(expanded))
      BY <2>1 DEF SearchRight
    <3>2. expanded' = expanded /\ Expansions' = Expansions /\ IdsIn(expanded') = IdsIn(expanded)
      BY <1>2 DEF Expansions
    <3>3. expanded' \in Seq(Expansions') /\ Distinct(IdsIn(expanded'))
      BY <3>1, <3>2
    <3> QED
      BY <3>3
  <2>6. SearchRight'
    BY <1>2, <2>1, <2>2, <2>4, <2>5 DEF SearchRight
  <2>7. stage' = "answered" => ~(HasUnexpanded(queue') /\ ios' < call'.limit)
    BY <1>2
  <2> QED
    BY <2>6, <2>7 DEF SearchInv
<1>3. CASE BuildNext
  BY <1>1, <1>3 DEF BuildNext, BreakUp, OneShot, Partition, BuildShard, StartMerge, MergeNode, EndMerge, RemoveTempFiles,
                    SearchInv
<1>4. CASE CreateDiskLayout \/ Open \/ LoadCache \/ WarmUp \/ EndWarmUp
  BY <1>1, <1>4 DEF CreateDiskLayout, Open, LoadCache, WarmUp, EndWarmUp
<1>5. CASE WarmUpCall
  <2>1. PICK left \in Seq(Int \X Int), asked \in CacheAsked : sampling = [left |-> left, asked |-> asked]
    BY <1>5 DEF WarmUpCall, WarmInv
  <2>2. stage \in Served /\ left # <<>>
    BY <1>5, <2>1 DEF WarmUpCall, Served
  <2>3. PICK label \in RandomLabels :
           Begin([place |-> Head(sampling.left), label |-> label, k |-> 1, l |-> SampleL, beam |-> SampleBeam,
                  limit |-> 1000, reorder |-> FALSE])
    BY <1>5, Zenon DEF WarmUpCall
  <2> DEFINE c == [place |-> Head(sampling.left), label |-> label, k |-> 1, l |-> SampleL, beam |-> SampleBeam,
                   limit |-> 1000, reorder |-> FALSE]
  <2>4. Head(left) \in Int \X Int
    <3> DEFINE P == Int \X Int
    <3>1. left \in Seq(P)
      BY <2>1
    <3> HIDE DEF P
    <3>2. Head(left) \in P
      BY <2>2, <3>1
    <3> QED
      BY <3>2 DEF P
  <2>5. c.place = Head(left) /\ c.l = SampleL /\ c.beam = SampleBeam
    BY <2>1
  <2>6. c.l \in Nat \ {0} /\ c.beam \in Nat /\ c.place \in Int \X Int
    BY <2>4, <2>5, SearchAssumption
  <2>7. Begin(c)
    BY <2>3
  <2> HIDE DEF c
  <2> QED
    BY <2>2, <2>6, <2>7, BeginRight
<1>6. CASE \E c \in Searches : Call(c)
  <2>1. PICK c \in Searches : Call(c)
    BY <1>6
  <2>2. stage \in Served /\ Begin(c)
    BY <2>1, Zenon DEF Call, Served
  <2>3. c.l \in Nat \ {0} /\ c.beam \in Nat /\ c.place \in Int \X Int
    BY SearchAssumption
  <2> QED
    BY <2>2, <2>3, BeginRight
<1>7. CASE Hop
  BY <1>7, HopRight
<1>8. CASE Finish
  <2>1. /\ stage = "searching" /\ stage' = "answered" /\ ~(HasUnexpanded(queue) /\ ios < call.limit)
        /\ UNCHANGED <<rows, perSector, file, flat, call, queue, visited, expanded, ios>>
    BY <1>8 DEF Finish, Ended, diskVars
  <2> QED
    BY <1>2, <2>1
<1>9. CASE FinishWarmUpCall \/ NoReorderData \/ NextCall
  BY <1>1, <1>9 DEF FinishWarmUpCall, NoReorderData, NextCall
<1>10. CASE Done \/ UNCHANGED vars
  <2>1. UNCHANGED <<stage, rows, perSector, file, flat, call, queue, visited, expanded, ios>>
    BY <1>10 DEF Done, vars, buildVars, diskVars, searchVars
  <2>2. stage = "answered" => ~(HasUnexpanded(queue) /\ ios < call.limit)
    BY DEF SearchInv
  <2> QED
    BY <1>1, <1>2, <2>1, <2>2
<1> QED
  BY <1>3, <1>4, <1>5, <1>6, <1>7, <1>8, <1>9, <1>10 DEF Next

\* What an ended search holds.
LEMMA SearchEnds ==
    ASSUME DiskInv, GraphInv, SearchInv PROVE NothingLeftBehind
<1> SUFFICES ASSUME stage = "answered" PROVE NothingLeftBehind
  BY DEF NothingLeftBehind
<1>1. /\ call.place \in Int \X Int /\ visited \in SUBSET DOMAIN rows
      /\ QueueRight(queue, call.l, visited, ExpandedIds, Offs, AdmittedRows)
      /\ expanded \in Seq(Expansions) /\ Distinct(IdsIn(expanded))
      /\ \A r \in ExpandedIds : ToSet(ReadNode(r).nhood) \subseteq visited
      /\ ~(HasUnexpanded(queue) /\ ios < call.limit)
  BY DEF SearchInv, SearchRight
<1> DEFINE data == queue.data
           num == Len(data)
<1>2. /\ queue \in Queues(Offs) /\ queue.cur <= num
      /\ \A i \in 1 .. num : data[i].expanded <=> data[i].id \in ExpandedIds
      /\ \A i \in 1 .. queue.cur : data[i].expanded
      /\ \A r \in visited \cap AdmittedRows :
            \/ \E i \in 1 .. num : data[i].id = r
            \/ num = call.l /\ \A i \in 1 .. num : data[i].dist <= Offs[r]
  BY <1>1 DEF QueueRight
<1>3. data \in Seq(Entries(Offs)) /\ queue.cur \in Nat
  BY <1>2 DEF Queues
<1>4. /\ num \in Nat /\ DOMAIN data = 1 .. num
      /\ \A i \in 1 .. num : data[i].id \in DOMAIN rows /\ data[i].dist = Dist(call.place, Places[data[i].id])
  <2>1. num \in Nat /\ DOMAIN data = 1 .. num /\ \A i \in 1 .. num : data[i] \in Entries(Offs)
    BY <1>3
  <2>2. \A m \in Entries(Offs) : m.id \in DOMAIN rows /\ m.dist = Offs[m.id]
    BY DEF Entries, Offs
  <2> QED
    BY <2>1, <2>2 DEF Offs
<1>5. Cardinality(ExpandedIds) = Len(expanded)
  <2>1. /\ Len(expanded) \in Nat /\ DOMAIN expanded = 1 .. Len(expanded)
        /\ \A i \in 1 .. Len(expanded) : expanded[i].id \in DOMAIN rows
    <3>1. /\ Len(expanded) \in Nat /\ DOMAIN expanded = 1 .. Len(expanded)
          /\ \A i \in 1 .. Len(expanded) : expanded[i] \in Expansions
      BY <1>1
    <3> QED
      BY <3>1 DEF Expansions
  <2> DEFINE list == IdsIn(expanded)
  <2>2. list \in Seq(DOMAIN rows) /\ Len(list) = Len(expanded) /\ ToSet(list) = ExpandedIds
    BY <2>1 DEF IdsIn, ToSet, ExpandedIds
  <2> HIDE DEF list
  <2>3. Cardinality(ToSet(list)) = Len(list)
    BY <1>1, <2>2, DistinctLength DEF list
  <2> QED
    BY <2>2, <2>3
<1>6. ASSUME ios < call.limit
      PROVE  /\ \A i \in DOMAIN data : data[i].id \in ExpandedIds
             /\ \A r \in visited \ ExpandedIds :
                   Admitted(call, r) => /\ num = call.l
                                        /\ \A i \in DOMAIN data : Dist(call.place, Places[data[i].id]) <= Dist(call.place, Places[r])
  <2>1. ~(queue.cur < num)
    BY <1>1, <1>6 DEF HasUnexpanded
  <2>2. queue.cur = num
    BY <1>2, <1>3, <1>4, <2>1
  <2>3. \A i \in 1 .. num : data[i].id \in ExpandedIds
    BY <1>2, <2>2
  <2>4. ASSUME NEW r \in visited \ ExpandedIds, Admitted(call, r)
        PROVE  num = call.l /\ \A i \in 1 .. num : Dist(call.place, Places[data[i].id]) <= Dist(call.place, Places[r])
    <3>1. r \in DOMAIN rows /\ r \in visited \cap AdmittedRows
      BY <1>1, <2>4 DEF AdmittedRows
    <3>2. \A i \in 1 .. num : data[i].id # r
      BY <2>3
    <3>3. num = call.l /\ \A i \in 1 .. num : data[i].dist <= Offs[r]
      BY <1>2, <3>1, <3>2
    <3>4. Offs[r] = Dist(call.place, Places[r])
      BY <3>1 DEF Offs
    <3> QED
      BY <1>4, <3>3, <3>4
  <2> QED
    BY <1>4, <2>3, <2>4
<1> QED
  BY <1>1, <1>4, <1>5, <1>6 DEF NothingLeftBehind

\* A disk search without limit on its reads leaves nothing behind: it expands each
\* row it kept, none twice, has visited all neighbours of the rows it expanded, and
\* what it visited, admitted and did not keep is no nearer than what fills its queue
\* (cached_beam_search of src/pq_flash_index.cpp with the queue of
\* include/neighbor.h), for any rows, graph, cache, beam and length of the queue.
THEOREM NothingLeftBehindHolds == Spec => []NothingLeftBehind
<1> DEFINE Inv == DiskInv /\ BuildInv /\ MergeInv /\ GraphInv /\ WarmInv /\ SearchInv
<1>1. Init => Inv
  <2>1. Init => GraphInv /\ WarmInv /\ SearchInv
    BY DEF Init, BuildInit, GraphInv, RowsPlaced, Served, WarmInv, SearchInv
  <2>2. Init => MergeInv
    BY DEF MergeInv, MergedIsUnion, Init, BuildInit
  <2> QED
    BY <2>1, <2>2, DiskInvInit, ShardInitially
<1>2. Inv /\ [Next]_vars => Inv'
  BY DiskInvNext, BuildInvNext, MergeInvNext, GraphInvNext, WarmInvNext, SearchInvNext
<1>3. Inv => NothingLeftBehind
  BY SearchEnds
<1> HIDE DEF Inv
<1>4. Inv /\ [][Next]_vars => []Inv
  BY <1>2, PTL
<1> QED
  BY <1>1, <1>3, <1>4, PTL DEF Spec
=============================================================================
