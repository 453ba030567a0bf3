------------------------- MODULE SearchToolsProofs -------------------------
(***************************************************************************)
(* Proofs about the tools built on searches.  For any indexes, clients and *)
(* requests a server's answer over several indexes is that of one over all *)
(* their points; for any points, queries and list sizes the search of a    *)
(* range that has room for what is in range finds all of it.               *)
(***************************************************************************)
EXTENDS SearchTools, RankProofs, SequenceTheorems

-----------------------------------------------------------------------------
(* Merging.                                                                *)

\* Of finitely many numbers one is the first that is least.
LEMMA FirstLeast ==
    ASSUME NEW n \in Nat \ {0}, NEW d, \A i \in 1 .. n : d[i] \in Int
    PROVE  \E b \in 1 .. n : (\A j \in 1 .. n : d[b] <= d[j]) /\ (\A j \in 1 .. b - 1 : d[b] < d[j])
<1> DEFINE First(m, b) == /\ b \in 1 .. m
                          /\ \A j \in 1 .. m : d[b] <= d[j]
                          /\ \A j \in 1 .. b - 1 : d[b] < d[j]
           Good == {m \in 0 .. n : m = 0 \/ \E b \in 1 .. m : First(m, b)}
<1>1. 0 \in Good
  OBVIOUS
<1>2. ASSUME NEW m \in 1 .. n, m - 1 \in Good PROVE m \in Good
  <2>1. CASE m = 1
    <3>1. First(1, 1)
      BY <2>1
    <3> HIDE DEF First
    <3> QED
      BY <2>1, <3>1
  <2>2. CASE m # 1
    <3>1. PICK b \in 1 .. m - 1 : First(m - 1, b)
      BY <1>2, <2>2
    <3>2. b \in 1 .. m /\ m - 1 \in 1 .. n /\ d[b] \in Int /\ d[m] \in Int /\ \A j \in 1 .. m : d[j] \in Int
      BY <2>2
    <3>3. CASE d[m] < d[b]
      <4>1. First(m, m)
        BY <3>1, <3>2, <3>3
      <4> HIDE DEF First
      <4> QED
        BY <4>1
    <3>4. CASE ~(d[m] < d[b])
      <4>1. First(m, b)
        BY <3>1, <3>2, <3>4
      <4> HIDE DEF First
      <4> QED
        BY <3>2, <4>1
    <3> QED
      BY <3>3, <3>4
  <2> QED
    BY <2>1, <2>2
<1>3. 0 .. n \subseteq Good
  <2> HIDE DEF Good
  <2> QED
    BY <1>1, <1>2, Rounds
<1>4. PICK b \in 1 .. n : First(n, b)
  BY <1>3
<1> QED
  BY <1>4

\* One step of the loop of aggregate_results, and all of them.
Advanced(found, s) ==
    LET i == BestPartition(found, s.pos)
    IN  [pos |-> [s.pos EXCEPT ![i] = @ + 1], out |-> Append(s.out, Taken(i, NextOf(found, s.pos, i)))]
Merging(found, k) ==
    CHOOSE f : f = [n \in 0 .. k |->
                      IF n = 0 THEN [pos |-> [i \in DOMAIN found |-> 1], out |-> <<>>]
                      ELSE Advanced(found, f[n - 1])]

LEMMA MergeIsMerging ==
    ASSUME NEW found, NEW k
    PROVE  Merge(found, k) = Merging(found, k)[k].out
BY DEF Merge, MergeAdvancing, Merging, Advanced

\* The loop has a first round and each round follows from the last.
LEMMA MergingRounds ==
    ASSUME NEW found, NEW k \in Nat
    PROVE  /\ Merging(found, k)[0] = [pos |-> [i \in DOMAIN found |-> 1], out |-> <<>>]
           /\ \A n \in 1 .. k : Merging(found, k)[n] = Advanced(found, Merging(found, k)[n - 1])
<1> DEFINE start == [pos |-> [i \in DOMAIN found |-> 1], out |-> <<>>]
           Step(s) == Advanced(found, s)
           Solves(f, m) == f = [n \in 0 .. m |-> IF n = 0 THEN start ELSE Step(f[n - 1])]
           Good == {m \in 0 .. k : \E f : Solves(f, m)}
           merged == CHOOSE f : f = [n \in 0 .. k |-> IF n = 0 THEN start ELSE Step(f[n - 1])]
<1>1. Merging(found, k) = merged
  BY DEF Merging
<1> HIDE DEF start, Step
<1>2. 0 \in Good
  <2>1. Solves([n \in 0 .. 0 |-> start], 0)
    OBVIOUS
  <2>2. \E f : Solves(f, 0)
    <3> HIDE DEF Solves
    <3> QED
      BY <2>1
  <2> QED
    BY <2>2
<1>3. ASSUME NEW m \in 1 .. k, m - 1 \in Good PROVE m \in Good
  <2>1. PICK f : Solves(f, m - 1)
    BY <1>3
  <2> DEFINE h == [n \in 0 .. m |-> IF n = m THEN Step(f[m - 1]) ELSE f[n]]
  <2>2. ASSUME NEW n \in 0 .. m PROVE h[n] = IF n = 0 THEN start ELSE Step(h[n - 1])
    <3>1. CASE n = m
      BY <3>1
    <3>2. CASE n # m
      <4>1. n \in 0 .. m - 1 /\ h[n] = f[n]
        BY <3>2
      <4>2. f[n] = IF n = 0 THEN start ELSE Step(f[n - 1])
        BY <2>1, <4>1
      <4>3. n # 0 => h[n - 1] = f[n - 1]
        BY <4>1
      <4> QED
        BY <4>1, <4>2, <4>3
    <3> QED
      BY <3>1, <3>2
  <2>3. h = [n \in 0 .. m |-> h[n]]
    OBVIOUS
  <2> HIDE DEF h
  <2>4. Solves(h, m)
    BY <2>2, <2>3
  <2> QED
    BY <2>4
<1>4. \E f : Solves(f, k)
  <2> HIDE DEF Good
  <2>1. 0 .. k \subseteq Good
    BY <1>2, <1>3, Rounds
  <2>2. k \in Good
    BY <2>1
  <2> QED
    BY <2>2 DEF Good
<1>5. merged = [n \in 0 .. k |-> IF n = 0 THEN start ELSE Step(merged[n - 1])]
  <2>1. merged = CHOOSE f : Solves(f, k)
    OBVIOUS
  <2> HIDE DEF merged
  <2>2. Solves(merged, k)
    <3> HIDE DEF Solves
    <3> QED
      BY <1>4, <2>1
  <2> QED
    BY <2>2
<1> HIDE DEF merged
<1>6. merged[0] = start /\ \A n \in 1 .. k : merged[n] = Step(merged[n - 1])
  <2>1. 0 \in 0 .. k /\ \A n \in 1 .. k : n \in 0 .. k /\ n # 0
    OBVIOUS
  <2> QED
    BY <1>5, <2>1
<1> QED
  BY <1>1, <1>6 DEF start, Step

\* The m-th answer of the i-th list.
Given(found, i, m) == found[i].entries[m]

\* Its answers are in order, and none has an index twice.
Sorted(found, i, k) ==
    /\ \A a \in 1 .. k : Given(found, i, a).distance \in Int
    /\ \A a, b \in 1 .. k : a < b =>
          /\ Given(found, i, a).distance <= Given(found, i, b).distance
          /\ Given(found, i, a).index # Given(found, i, b).index

\* A sequence of n elements.
OfLength(s, n) == s = [j \in 1 .. n |-> s[j]]

\* An element at its end.  A name of ours: a fact about Append is otherwise rewritten
\* by the provers and not found again.
Longer(s, e) == Append(s, e)

\* What was taken after n rounds: of each list its beginning, in order, and nothing
\* that is farther than what the lists have next.  Only a list that gave all n may
\* be at its end.
MergeInv(found, k, n, pos, out) ==
    /\ pos \in [DOMAIN found -> 1 .. n + 1]
    /\ OfLength(out, n)
    /\ \A j \in 1 .. n : \E i \in DOMAIN found : \E m \in 1 .. pos[i] - 1 : out[j] = Taken(i, Given(found, i, m))
    /\ \A i \in DOMAIN found : \A m \in 1 .. pos[i] - 1 : \E j \in 1 .. n : out[j] = Taken(i, Given(found, i, m))
    /\ \A j, l \in 1 .. n : j < l =>
          /\ out[j].distance <= out[l].distance
          /\ out[j].partition # out[l].partition \/ out[j].index # out[l].index
    /\ \A i \in DOMAIN found : \A j \in 1 .. n :
          /\ pos[i] <= k => out[j].distance <= Given(found, i, pos[i]).distance
          /\ pos[i] = n + 1 => out[j].partition = i

\* What was appended is the last element, and the others stay.
LEMMA Appended ==
    ASSUME NEW s, NEW n \in Nat, OfLength(s, n), NEW e
    PROVE  /\ OfLength(Longer(s, e), n + 1)
           /\ Longer(s, e)[n + 1] = e /\ \A i \in 1 .. n : Longer(s, e)[i] = s[i]
<1> DEFINE T == {s[j] : j \in 1 .. n} \cup {e}
<1>1. s \in [1 .. n -> T]
  BY DEF OfLength
<1> HIDE DEF T
<1>2. s \in Seq(T)
  BY <1>1, SeqDef
<1>3. Len(s) = n
  <2>1. PICK len \in Nat : len = Len(s) /\ DOMAIN s = 1 .. len
    BY <1>2, LenProperties, Zenon
  <2>2. 1 .. len = 1 .. n
    BY <1>1, <2>1, Zenon
  <2>3. len = n
    BY <2>2
  <2> QED
    BY <2>1, <2>3, Zenon
<1>4. e \in T
  BY DEF T
<1>5. /\ Append(s, e) \in Seq(T) /\ Len(Append(s, e)) = n + 1
      /\ \A i \in 1 .. n : Append(s, e)[i] = s[i]
      /\ Append(s, e)[n + 1] = e
  BY <1>2, <1>3, <1>4, AppendProperties
<1>6. Append(s, e) = [j \in 1 .. n + 1 |-> Append(s, e)[j]]
  BY <1>5, LenProperties
<1> QED
  BY <1>5, <1>6 DEF OfLength, Longer

\* The first of the partitions whose next answer is nearest.
LEMMA BestIsLeast ==
    ASSUME NEW found, NEW num \in Nat \ {0}, DOMAIN found = 1 .. num, NEW pos,
           \A i \in 1 .. num : NextOf(found, pos, i).distance \in Int
    PROVE  /\ BestPartition(found, pos) \in 1 .. num
           /\ \A j \in 1 .. num : NextOf(found, pos, BestPartition(found, pos)).distance
                                      <= NextOf(found, pos, j).distance
<1> DEFINE d == [i \in 1 .. num |-> NextOf(found, pos, i).distance]
           Best(i) == (\A j \in 1 .. num : d[i] <= d[j]) /\ (\A j \in 1 .. i - 1 : d[i] < d[j])
<1>1. \A i \in 1 .. num : d[i] \in Int /\ d[i] = NextOf(found, pos, i).distance
  OBVIOUS
<1> HIDE DEF d
<1>2. \E i \in 1 .. num : Best(i)
  BY <1>1, FirstLeast
<1>3. BestPartition(found, pos) = CHOOSE i \in 1 .. num : Best(i)
  <2>1. ASSUME NEW i \in 1 .. num
        PROVE  Best(i) <=> /\ \A j \in 1 .. num : NextOf(found, pos, i).distance <= NextOf(found, pos, j).distance
                           /\ \A j \in 1 .. i - 1 : NextOf(found, pos, i).distance < NextOf(found, pos, j).distance
    <3>1. \A j \in 1 .. i - 1 : j \in 1 .. num
      OBVIOUS
    <3> QED
      BY <1>1, <3>1
  <2> HIDE DEF Best
  <2> QED
    BY <2>1 DEF BestPartition
<1>4. BestPartition(found, pos) \in 1 .. num /\ Best(BestPartition(found, pos))
  <2> HIDE DEF Best
  <2> QED
    BY <1>2, <1>3
<1> QED
  BY <1>1, <1>4

LEMMA MergeStep ==
    ASSUME NEW found, NEW num \in Nat \ {0}, DOMAIN found = 1 .. num, NEW k \in Nat,
           \A i \in 1 .. num : Sorted(found, i, k),
           NEW n \in 1 .. k, NEW pos, NEW out, MergeInv(found, k, n - 1, pos, out)
    PROVE  LET i == BestPartition(found, pos)
           IN  MergeInv(found, k, n, [pos EXCEPT ![i] = @ + 1],
                        Append(out, Taken(i, NextOf(found, pos, i))))
<1>0. ASSUME NEW e
      PROVE  /\ OfLength(Longer(out, e), n) /\ Longer(out, e)[n] = e
             /\ \A i \in 1 .. n - 1 : Longer(out, e)[i] = out[i]
  <2>1. OfLength(out, n - 1) /\ n - 1 \in Nat /\ (n - 1) + 1 = n
    BY DEF MergeInv
  <2> QED
    BY <2>1, Appended
<1> DEFINE b == BestPartition(found, pos)
           p == pos[b]
           new == Taken(b, Given(found, b, p))
           later == [pos EXCEPT ![b] = @ + 1]
           more == Longer(out, new)
<1>1. pos \in [1 .. num -> 1 .. n] /\ OfLength(out, n - 1)
  BY DEF MergeInv
<1>2. \A i \in 1 .. num : \A m \in 1 .. k : Given(found, i, m).distance \in Int
  BY DEF Sorted
<1>3. \A i \in 1 .. num : pos[i] \in 1 .. k /\ NextOf(found, pos, i) = Given(found, i, pos[i])
  BY <1>1 DEF NextOf, Given
<1>4. /\ b \in 1 .. num /\ p \in 1 .. n
      /\ \A j \in 1 .. num : Given(found, b, p).distance <= Given(found, j, pos[j]).distance
  <2>1. \A i \in 1 .. num : NextOf(found, pos, i).distance \in Int
    BY <1>2, <1>3
  <2>2. /\ b \in 1 .. num
        /\ \A j \in 1 .. num : NextOf(found, pos, b).distance <= NextOf(found, pos, j).distance
    BY <2>1, BestIsLeast
  <2> HIDE DEF b
  <2> QED
    BY <1>1, <1>3, <2>2
<1> HIDE DEF b
<1>6. /\ later \in [1 .. num -> 1 .. n + 1]
      /\ later[b] = p + 1 /\ \A i \in 1 .. num : i # b => later[i] = pos[i]
  BY <1>1, <1>4
<1>6a. ASSUME NEW i \in 1 .. num
       PROVE  pos[i] \in 1 .. n /\ later[i] \in 1 .. n + 1 /\ pos[i] <= later[i]
  <2>1. pos[i] \in 1 .. n /\ later[i] \in 1 .. n + 1
    BY <1>1, <1>6
  <2>2. CASE i = b
    BY <1>6, <2>1, <2>2
  <2>3. CASE i # b
    BY <1>6, <2>1, <2>3
  <2> QED
    BY <2>1, <2>2, <2>3
<1> HIDE DEF later
<1>7a. OfLength(more, n) /\ more[n] = new /\ \A j \in 1 .. n - 1 : more[j] = out[j]
  <2> HIDE DEF new
  <2> QED
    BY <1>0, Zenon
<1>7. more[n] = new /\ \A j \in 1 .. n - 1 : more[j] = out[j]
  BY <1>7a
<1> HIDE DEF more
<1>8. new = Taken(b, Given(found, b, p))
  OBVIOUS
<1> HIDE DEF new
<1>9. \A i, e : Taken(i, e).partition = i /\ Taken(i, e).index = e.index /\ Taken(i, e).distance = e.distance
  BY DEF Taken
<1>10a. \A j \in 1 .. n - 1 : \E i \in 1 .. num : \E m \in 1 .. pos[i] - 1 : out[j] = Taken(i, Given(found, i, m))
  <2>1. \A j \in 1 .. n - 1 : \E i \in DOMAIN found : \E m \in 1 .. pos[i] - 1 : out[j] = Taken(i, Given(found, i, m))
    BY Zenon DEF MergeInv
  <2> QED
    BY <2>1
<1>10b. \A i \in 1 .. num : \A m \in 1 .. pos[i] - 1 : \E j \in 1 .. n - 1 : out[j] = Taken(i, Given(found, i, m))
  <2>1. \A i \in DOMAIN found : \A m \in 1 .. pos[i] - 1 : \E j \in 1 .. n - 1 : out[j] = Taken(i, Given(found, i, m))
    BY Zenon DEF MergeInv
  <2> QED
    BY <2>1
<1>10c. \A j, l \in 1 .. n - 1 : j < l =>
           /\ out[j].distance <= out[l].distance
           /\ out[j].partition # out[l].partition \/ out[j].index # out[l].index
  BY Zenon DEF MergeInv
<1>10d. \A i \in 1 .. num : \A j \in 1 .. n - 1 :
           pos[i] <= k => out[j].distance <= Given(found, i, pos[i]).distance
  BY Zenon DEF MergeInv
<1>10e. \A i \in 1 .. num : \A j \in 1 .. n - 1 : pos[i] = n => out[j].partition = i
  <2>1. \A i \in 1 .. num : \A j \in 1 .. n - 1 : pos[i] = (n - 1) + 1 => out[j].partition = i
    BY Zenon DEF MergeInv
  <2>2. (n - 1) + 1 = n
    OBVIOUS
  <2> QED
    BY <2>1, <2>2, Zenon
<1>11. \A i \in 1 .. num : \A a, c \in 1 .. k :
          a < c => Given(found, i, a).distance <= Given(found, i, c).distance /\ Given(found, i, a).index # Given(found, i, c).index
  BY DEF Sorted
<1>12. ASSUME NEW j \in 1 .. n
       PROVE  \E i \in 1 .. num : \E m \in 1 .. later[i] - 1 : more[j] = Taken(i, Given(found, i, m))
  <2>1. CASE j = n
    <3>1. p \in 1 .. later[b] - 1 /\ more[j] = Taken(b, Given(found, b, p))
      BY <1>4, <1>6, <1>7, <1>8, <2>1
    <3> QED
      BY <1>4, <3>1
  <2>2. CASE j # n
    <3>1. PICK i \in 1 .. num : \E m \in 1 .. pos[i] - 1 : out[j] = Taken(i, Given(found, i, m))
      BY <1>10a, <2>2
    <3>2. PICK m \in 1 .. pos[i] - 1 : out[j] = Taken(i, Given(found, i, m))
      BY <3>1
    <3>3. m \in 1 .. later[i] - 1
      BY <1>6a, <3>2
    <3>4. more[j] = Taken(i, Given(found, i, m))
      BY <1>7, <2>2, <3>2
    <3> QED
      BY <3>3, <3>4
  <2> QED
    BY <2>1, <2>2
<1>13. ASSUME NEW i \in 1 .. num, NEW m \in 1 .. later[i] - 1
       PROVE  \E j \in 1 .. n : more[j] = Taken(i, Given(found, i, m))
  <2>1. CASE i = b /\ m = p
    BY <1>7, <1>8, <2>1
  <2>2. CASE ~(i = b /\ m = p)
    <3>1. m \in 1 .. pos[i] - 1
      <4>1. pos[i] \in 1 .. n
        BY <1>1
      <4>2. CASE i = b
        <5>1. later[i] = pos[i] + 1 /\ m # pos[i]
          BY <1>6, <2>2, <4>2
        <5> QED
          BY <4>1, <5>1
      <4>3. CASE i # b
        BY <1>6, <4>3
      <4> QED
        BY <4>2, <4>3
    <3>2. PICK j \in 1 .. n - 1 : out[j] = Taken(i, Given(found, i, m))
      BY <1>10b, <3>1
    <3> QED
      BY <1>7, <3>2
  <2> QED
    BY <2>1, <2>2
<1>14. ASSUME NEW j \in 1 .. n, NEW l \in 1 .. n, j < l
       PROVE  /\ more[j].distance <= more[l].distance
              /\ more[j].partition # more[l].partition \/ more[j].index # more[l].index
  <2>1. j \in 1 .. n - 1 /\ more[j] = out[j]
    BY <1>7, <1>14
  <2>2. CASE l = n
    <3>1. more[l].partition = b /\ more[l].index = Given(found, b, p).index /\ more[l].distance = Given(found, b, p).distance
      BY <1>7, <1>8, <1>9, <2>2
    <3>2. more[j].distance <= more[l].distance
      BY <1>3, <1>4, <1>10d, <2>1, <3>1
    <3>3. PICK i \in 1 .. num : \E m \in 1 .. pos[i] - 1 : out[j] = Taken(i, Given(found, i, m))
      BY <1>10a, <2>1
    <3>4. PICK m \in 1 .. pos[i] - 1 : out[j] = Taken(i, Given(found, i, m))
      BY <3>3
    <3>5. i = b => Given(found, b, m).index # Given(found, b, p).index
      BY <1>1, <1>4, <1>11
    <3> QED
      BY <1>9, <2>1, <3>1, <3>2, <3>4, <3>5
  <2>3. CASE l # n
    BY <1>7, <1>10c, <1>14, <2>1, <2>3
  <2> QED
    BY <2>2, <2>3
<1>15. ASSUME NEW i \in 1 .. num, NEW j \in 1 .. n
       PROVE  /\ later[i] <= k => more[j].distance <= Given(found, i, later[i]).distance
              /\ later[i] = n + 1 => more[j].partition = i
  <2>1. later[i] \in 1 .. n + 1 /\ pos[i] \in 1 .. n
    BY <1>1, <1>6
  <2>2. more[n].partition = b /\ more[n].distance = Given(found, b, p).distance
    BY <1>7, <1>8, <1>9
  <2>3. more[j].distance \in Int /\ more[j].distance <= Given(found, b, p).distance
    <3>1. CASE j = n
      BY <1>2, <1>4, <2>2, <3>1
    <3>2. CASE j # n
      <4>1. PICK h \in 1 .. num : \E m \in 1 .. pos[h] - 1 : out[j] = Taken(h, Given(found, h, m))
        BY <1>10a, <3>2
      <4>2. PICK m \in 1 .. pos[h] - 1 : out[j] = Taken(h, Given(found, h, m))
        BY <4>1
      <4>3. m \in 1 .. k /\ out[j].distance = Given(found, h, m).distance
        BY <1>1, <1>9, <4>2
      <4>4. Given(found, h, m).distance \in Int
        BY <1>2, <4>3
      <4>5. out[j].distance <= Given(found, b, p).distance
        BY <1>3, <1>4, <1>10d, <3>2
      <4> QED
        BY <1>7, <3>2, <4>3, <4>4, <4>5
    <3> QED
      BY <3>1, <3>2
  <2>4. ASSUME later[i] <= k PROVE more[j].distance <= Given(found, i, later[i]).distance
    <3>1. Given(found, b, p).distance <= Given(found, i, pos[i]).distance
      BY <1>4
    <3>2. Given(found, i, pos[i]).distance <= Given(found, i, later[i]).distance
      <4>1. CASE i = b
        BY <1>3, <1>4, <1>6, <1>11, <2>1, <2>4, <4>1
      <4>2. CASE i # b
        BY <1>2, <1>3, <1>6, <4>2
      <4> QED
        BY <4>1, <4>2
    <3>3. /\ Given(found, b, p).distance \in Int /\ Given(found, i, pos[i]).distance \in Int
          /\ Given(found, i, later[i]).distance \in Int
      BY <1>2, <1>3, <1>4, <2>1, <2>4
    <3> QED
      BY <2>3, <3>1, <3>2, <3>3
  <2>5. ASSUME later[i] = n + 1 PROVE more[j].partition = i
    <3>1. i = b /\ pos[i] = n
      BY <1>4, <1>6, <2>1, <2>5
    <3>2. CASE j = n
      BY <2>2, <3>1, <3>2
    <3>3. CASE j # n
      BY <1>7, <1>10e, <3>1, <3>3
    <3> QED
      BY <3>2, <3>3
  <2> QED
    BY <2>4, <2>5
<1>16. /\ later \in [DOMAIN found -> 1 .. n + 1]
       /\ \A i \in DOMAIN found : \A m \in 1 .. later[i] - 1 : \E j \in 1 .. n : more[j] = Taken(i, Given(found, i, m))
  BY <1>6, <1>13
<1>17. \A j \in 1 .. n : \E i \in DOMAIN found : \E m \in 1 .. later[i] - 1 : more[j] = Taken(i, Given(found, i, m))
  BY <1>12
<1>18. /\ \A j, l \in 1 .. n : j < l =>
             /\ more[j].distance <= more[l].distance
             /\ more[j].partition # more[l].partition \/ more[j].index # more[l].index
       /\ \A i \in DOMAIN found : \A j \in 1 .. n :
             /\ later[i] <= k => more[j].distance <= Given(found, i, later[i]).distance
             /\ later[i] = n + 1 => more[j].partition = i
  BY <1>14, <1>15
<1>19. MergeInv(found, k, n, later, more)
  BY <1>7a, <1>16, <1>17, <1>18, Zenon DEF MergeInv
<1> QED
  BY <1>3, <1>4, <1>19 DEF later, more, new, b, Longer

LEMMA MergeAdvances ==
    ASSUME NEW found, NEW num \in Nat \ {0}, DOMAIN found = 1 .. num, NEW k \in Nat,
           \A i \in 1 .. num : Sorted(found, i, k),
           NEW n \in 1 .. k, NEW s, MergeInv(found, k, n - 1, s.pos, s.out)
    PROVE  MergeInv(found, k, n, Advanced(found, s).pos, Advanced(found, s).out)
<1> DEFINE b == BestPartition(found, s.pos)
           later == [s.pos EXCEPT ![b] = @ + 1]
           more == Append(s.out, Taken(b, NextOf(found, s.pos, b)))
<1>1. MergeInv(found, k, n, later, more)
  BY MergeStep, Zenon
<1>2. Advanced(found, s) = [pos |-> later, out |-> more]
  BY Zenon DEF Advanced
<1> HIDE DEF later, more
<1> QED
  BY <1>1, <1>2

\* The invariant after all rounds, of what is returned.
LEMMA MergeHolds ==
    ASSUME NEW found, NEW num \in Nat \ {0}, DOMAIN found = 1 .. num, NEW k \in Nat,
           \A i \in 1 .. num : Sorted(found, i, k)
    PROVE  \E pos : MergeInv(found, k, k, pos, Merge(found, k))
<1> DEFINE s == Merging(found, k)
           Good == {n \in 0 .. k : MergeInv(found, k, n, s[n].pos, s[n].out)}
<1>1. /\ s[0] = [pos |-> [i \in DOMAIN found |-> 1], out |-> <<>>]
      /\ \A n \in 1 .. k : s[n] = Advanced(found, s[n - 1])
  BY MergingRounds, Zenon
<1>2. Merge(found, k) = s[k].out
  BY MergeIsMerging
<1> HIDE DEF s
<1>3. 0 \in Good
  <2> DEFINE one == [i \in DOMAIN found |-> 1]
  <2>1. OfLength(<<>>, 0)
    BY DEF OfLength
  <2>2. \A x : x \notin 1 .. 0
    OBVIOUS
  <2>3. one \in [DOMAIN found -> 1 .. 0 + 1] /\ \A i \in DOMAIN found : \A m \in 1 .. one[i] - 1 : FALSE
    OBVIOUS
  <2> HIDE DEF one
  <2>4. MergeInv(found, k, 0, one, <<>>)
    BY <2>1, <2>2, <2>3, Zenon DEF MergeInv
  <2> QED
    BY <1>1, <2>4 DEF one
<1>4. ASSUME NEW n \in 1 .. k, n - 1 \in Good PROVE n \in Good
  <2>1. MergeInv(found, k, n - 1, s[n - 1].pos, s[n - 1].out)
    BY <1>4
  <2>2. MergeInv(found, k, n, s[n].pos, s[n].out)
    BY <1>1, <2>1, MergeAdvances, Zenon
  <2> QED
    BY <2>2
<1>5. 0 .. k \subseteq Good
  <2> HIDE DEF Good
  <2> QED
    BY <1>3, <1>4, Rounds
<1>6. MergeInv(found, k, k, s[k].pos, Merge(found, k))
  BY <1>2, <1>5
<1> QED
  BY <1>6, Zenon

\* What aggregate_results returns: answers of the partitions, in order and none
\* twice, none farther than an answer left over, or than the last of a partition.
NearestOf(found, num, k, a) ==
    /\ OfLength(a, k)
    /\ \A j \in 1 .. k : \E i \in 1 .. num : \E m \in 1 .. k : a[j] = Taken(i, Given(found, i, m))
    /\ \A j, l \in 1 .. k : j < l =>
          /\ a[j].distance <= a[l].distance
          /\ a[j].partition # a[l].partition \/ a[j].index # a[l].index
    /\ \A i \in 1 .. num : \A m \in 1 .. k :
          \/ \E j \in 1 .. k : a[j] = Taken(i, Given(found, i, m))
          \/ \A j \in 1 .. k : a[j].distance <= Given(found, i, m).distance
    /\ \A i \in 1 .. num : \A j \in 1 .. k : a[j].distance <= Given(found, i, k).distance

LEMMA MergeIsNearest ==
    ASSUME NEW found, NEW num \in Nat \ {0}, DOMAIN found = 1 .. num, NEW k \in Nat,
           \A i \in 1 .. num : Sorted(found, i, k),
           NEW a, a = Merge(found, k)
    PROVE  NearestOf(found, num, k, a)
<1>1. PICK pos : MergeInv(found, k, k, pos, a)
  BY MergeHolds
<1>2. pos \in [1 .. num -> 1 .. k + 1] /\ OfLength(a, k)
  BY <1>1 DEF MergeInv
<1>3. \A j \in 1 .. k : \E i \in 1 .. num : \E m \in 1 .. pos[i] - 1 : a[j] = Taken(i, Given(found, i, m))
  <2>1. \A j \in 1 .. k : \E i \in DOMAIN found : \E m \in 1 .. pos[i] - 1 : a[j] = Taken(i, Given(found, i, m))
    BY <1>1, Zenon DEF MergeInv
  <2> QED
    BY <2>1, Zenon
<1>4. \A i \in 1 .. num : \A m \in 1 .. pos[i] - 1 : \E j \in 1 .. k : a[j] = Taken(i, Given(found, i, m))
  BY <1>1 DEF MergeInv
<1>5. \A j, l \in 1 .. k : j < l =>
         /\ a[j].distance <= a[l].distance
         /\ a[j].partition # a[l].partition \/ a[j].index # a[l].index
  BY <1>1 DEF MergeInv
<1>6. \A i \in 1 .. num : \A j \in 1 .. k : pos[i] <= k => a[j].distance <= Given(found, i, pos[i]).distance
  BY <1>1 DEF MergeInv
<1>7. \A i \in 1 .. num : \A j \in 1 .. k : pos[i] = k + 1 => a[j].partition = i
  BY <1>1 DEF MergeInv
<1>8. /\ \A i \in 1 .. num : \A m \in 1 .. k : Given(found, i, m).distance \in Int
      /\ \A i \in 1 .. num : \A m, l \in 1 .. k :
            m < l => Given(found, i, m).distance <= Given(found, i, l).distance
  BY DEF Sorted
<1>9. \A i, e : Taken(i, e).partition = i /\ Taken(i, e).distance = e.distance
  BY DEF Taken
<1>10. ASSUME NEW j \in 1 .. k
       PROVE  \E i \in 1 .. num : \E m \in 1 .. k : a[j] = Taken(i, Given(found, i, m))
  <2>1. PICK i \in 1 .. num : \E m \in 1 .. pos[i] - 1 : a[j] = Taken(i, Given(found, i, m))
    BY <1>3
  <2>2. PICK m \in 1 .. pos[i] - 1 : a[j] = Taken(i, Given(found, i, m))
    BY <2>1
  <2>3. m \in 1 .. k
    BY <1>2, <2>2
  <2> QED
    BY <2>2, <2>3
<1>11. ASSUME NEW j \in 1 .. k PROVE a[j].distance \in Int
  BY <1>8, <1>9, <1>10
<1>12. ASSUME NEW i \in 1 .. num, NEW j \in 1 .. k, NEW m \in 1 .. k, pos[i] <= m
       PROVE  a[j].distance <= Given(found, i, m).distance
  <2>1. pos[i] \in 1 .. k
    BY <1>2, <1>12
  <2>2. a[j].distance <= Given(found, i, pos[i]).distance
    BY <1>6, <2>1
  <2>3. Given(found, i, pos[i]).distance <= Given(found, i, m).distance
    BY <1>8, <1>12, <2>1
  <2>4. /\ Given(found, i, pos[i]).distance \in Int /\ Given(found, i, m).distance \in Int
        /\ a[j].distance \in Int
    BY <1>8, <1>11, <2>1
  <2> QED
    BY <2>2, <2>3, <2>4
<1>13. ASSUME NEW i \in 1 .. num, NEW m \in 1 .. k
       PROVE  \/ \E j \in 1 .. k : a[j] = Taken(i, Given(found, i, m))
              \/ \A j \in 1 .. k : a[j].distance <= Given(found, i, m).distance
  <2>1. pos[i] \in 1 .. k + 1
    BY <1>2
  <2>2. CASE m < pos[i]
    <3>1. m \in 1 .. pos[i] - 1
      BY <2>1, <2>2
    <3> QED
      BY <1>4, <3>1
  <2>3. CASE ~(m < pos[i])
    <3>1. pos[i] <= m
      BY <2>1, <2>3
    <3> QED
      BY <1>12, <3>1
  <2> QED
    BY <2>2, <2>3
<1>14. ASSUME NEW i \in 1 .. num, NEW j \in 1 .. k PROVE a[j].distance <= Given(found, i, k).distance
  <2>1. pos[i] \in 1 .. k + 1 /\ k \in 1 .. k
    BY <1>2
  <2>2. CASE pos[i] <= k
    BY <1>12, <2>1, <2>2
  <2>3. CASE pos[i] = k + 1
    <3>1. a[j].partition = i
      BY <1>7, <2>3
    <3>2. PICK h \in 1 .. num : \E m \in 1 .. k : a[j] = Taken(h, Given(found, h, m))
      BY <1>10
    <3>3. PICK m \in 1 .. k : a[j] = Taken(h, Given(found, h, m))
      BY <3>2
    <3>4. h = i /\ a[j].distance = Given(found, i, m).distance
      BY <1>9, <3>1, <3>3
    <3>5. Given(found, i, m).distance <= Given(found, i, k).distance
      BY <1>8, <2>1
    <3> QED
      BY <3>4, <3>5
  <2> QED
    BY <2>1, <2>2, <2>3
<1> QED
  BY <1>2, <1>5, <1>10, <1>13, <1>14 DEF NearestOf

-----------------------------------------------------------------------------
(* The servers.                                                            *)

\* The length of a sequence of n elements.
LEMMA LengthIs ==
    ASSUME NEW s, NEW n \in Nat, OfLength(s, n)
    PROVE  Len(s) = n /\ DOMAIN s = 1 .. n
<1> DEFINE T == {s[j] : j \in 1 .. n}
<1>1. s \in [1 .. n -> T]
  BY DEF OfLength
<1> HIDE DEF T
<1>2. s \in Seq(T)
  BY <1>1, SeqDef
<1>3. PICK len \in Nat : len = Len(s) /\ DOMAIN s = 1 .. len
  BY <1>2, LenProperties, Zenon
<1>4. 1 .. len = 1 .. n
  BY <1>1, <1>3, Zenon
<1>5. len = n
  BY <1>4
<1> QED
  BY <1>3, <1>5, Zenon

Several == Len(service.parts) > 1
NumIndexes == Len(service.parts)

\* What the assumptions say of the service at work.
LEMMA ServiceType ==
    ASSUME service \in Services
    PROVE  /\ NumIndexes \in Nat /\ Partitions = 1 .. NumIndexes
           /\ Several => service.program = "multiple_ssdindex_server"
           /\ \A i \in Partitions : IsFiniteSet(PointsOf(i)) /\ Cardinality(PointsOf(i)) \in Nat
           /\ \A i \in Partitions : \A p \in PointsOf(i) : service.parts[i].dist[p] \in Int
<1>1. /\ OfLength(service.parts, NumIndexes) /\ NumIndexes \in Nat
      /\ service.program = "multiple_ssdindex_server" \/ NumIndexes = 1
      /\ \A i \in DOMAIN service.parts :
            /\ IsFiniteSet(DOMAIN service.parts[i].dist)
            /\ \A p \in DOMAIN service.parts[i].dist : service.parts[i].dist[p] \in Int
  BY ServiceAssumption, Zenon DEF OfLength, NumIndexes
<1>2. Partitions = 1 .. NumIndexes
  BY <1>1, LengthIs DEF Partitions
<1>3. \A i \in Partitions : IsFiniteSet(PointsOf(i))
  BY <1>1, Zenon DEF Partitions, PointsOf
<1>4. \A i \in Partitions : Cardinality(PointsOf(i)) \in Nat
  BY <1>3, FS_CardinalityType
<1>5. Several => service.program = "multiple_ssdindex_server"
  <2>1. NumIndexes = 1 => ~Several
    BY DEF Several, NumIndexes
  <2> QED
    BY <1>1, <2>1, Zenon
<1> QED
  BY <1>1, <1>2, <1>3, <1>4, <1>5, Zenon DEF Partitions, PointsOf

\* The searchers of a program for several indexes: each partition's own, or one
\* that an earlier setup has moved away.
SearchersOK(num, s) == OfLength(s, num) /\ \A i \in 1 .. num : s[i] = Null \/ s[i] = i

ServerOK(num, s) == num > 1 => SearchersOK(num, s.searchers) /\ s.multi = TRUE

ServerInv ==
    /\ service \in Services
    /\ Several /\ phase \in {"setup", "open", "listening"} => SearchersOK(NumIndexes, global)
    /\ phase \in {"open", "listening"} \/ server # Null => ServerOK(NumIndexes, server)

\* What a searcher may have answered, and each of them when asked for k.
TaggedAnswers(i, k) == {Tagged(i, list) : list \in SearcherAnswers(i, k)}
PartAnswers == [k \in Nat |-> [i \in 1 .. NumIndexes |-> TaggedAnswers(i, k)]]

\* A request that has asked the first of num partitions, and one that was answered.
Gathering(num, given, k, next, found) ==
    /\ k \in Nat \ {0} /\ next \in 1 .. num + 1
    /\ OfLength(found, next - 1)
    /\ \A i \in 1 .. next - 1 : found[i] \in given[k][i]
Gathered(num, given, k, answer) ==
    /\ k \in Nat \ {0}
    /\ \E found : Gathering(num, given, k, num + 1, found) /\ answer = Merge(found, k)

RequestFields == {"step", "server", "id", "k", "Ls", "next", "results", "status", "answer"}
HasFields(r) == r = [x \in RequestFields |-> r[x]]
RequestOK(num, given, r) ==
    r.step # "none" =>
       /\ r.step = "parse" => r.next = 1 /\ r.results = <<>>
       /\ r.step = "search" => Gathering(num, given, r.k, r.next, r.results)
       /\ r.step = "reply" /\ r.status = "OK" => Gathered(num, given, r.k, r.answer)
FormOK(num, n, r) == r.step # "none" => HasFields(r) /\ (r.step = "parse" => n < num)

ClientInv ==
    /\ answered \in [Clients -> Nat] /\ DOMAIN request = Clients
    /\ request = [c \in Clients |-> request[c]]
    /\ \A c \in Clients : FormOK(Len(Bodies(c)), answered[c], request[c])
    /\ Several => \A c \in Clients : RequestOK(NumIndexes, PartAnswers, request[c])

RestInv == ServerInv /\ ClientInv

LEMMA RestInvInit ==
    ASSUME RestInit
    PROVE  RestInv
<1>1. ServerInv
  BY DEF RestInit, ServerInv
<1>2. ClientInv
  BY DEF RestInit, ClientInv, RequestOK, FormOK, NoRequest
<1> QED
  BY <1>1, <1>2 DEF RestInv

\* What depends on the command line alone is as before.
LEMMA ServiceKept ==
    ASSUME UNCHANGED service
    PROVE  Several' = Several /\ NumIndexes' = NumIndexes /\ PartAnswers' = PartAnswers
<1>1. Several' = Several /\ NumIndexes' = NumIndexes
  BY DEF Several, NumIndexes
<1>2. PartAnswers' = PartAnswers
  BY <1>1 DEF PartAnswers, TaggedAnswers, Tagged, SearcherAnswers, HasTags, TagOf, TagsOf, Found,
              LeftOver, Entry, PointsOf, Sign
<1> QED
  BY <1>1, <1>2

\* Requests are as before when the program takes a step.
LEMMA MainKeepsRequests ==
    ASSUME ClientInv, UNCHANGED <<service, answered, request>>
    PROVE  ClientInv'
BY ServiceKept DEF ClientInv

\* The requests of the others are as before when one changes.
LEMMA OneRequest ==
    ASSUME ClientInv, UNCHANGED service, NEW c \in Clients, NEW n \in Nat, NEW r,
           answered' = [answered EXCEPT ![c] = n], request' = [request EXCEPT ![c] = r],
           FormOK(Len(Bodies(c)), n, r), Several => RequestOK(NumIndexes, PartAnswers, r)
    PROVE  ClientInv'
<1>1. answered' \in [Clients -> Nat] /\ answered'[c] = n /\ \A d \in Clients : d # c => answered'[d] = answered[d]
  BY DEF ClientInv
<1>2. /\ DOMAIN request' = Clients /\ request' = [d \in Clients |-> request'[d]]
      /\ request'[c] = r /\ \A d \in Clients : d # c => request'[d] = request[d]
  BY DEF ClientInv
<1>3. ASSUME NEW d \in Clients
      PROVE  /\ FormOK(Len(Bodies(d)), answered'[d], request'[d])
             /\ Several => RequestOK(NumIndexes, PartAnswers, request'[d])
  BY <1>1, <1>2, Zenon DEF ClientInv
<1>4. (Several => \A d \in Clients : RequestOK(NumIndexes, PartAnswers, request[d]))'
  BY <1>3, ServiceKept
<1> QED
  BY <1>1, <1>2, <1>3, <1>4 DEF ClientInv

LEMMA MainKeeps ==
    ASSUME RestInv, Main
    PROVE  RestInv'
<1>1. ClientInv'
  BY MainKeepsRequests DEF RestInv, Main, RefuseMetric, LoadInMemory, LoadDisk, LoadDisks, Setup, Open, ReadLine
<1> SUFFICES ServerInv'
  BY <1>1 DEF RestInv
<1>2. UNCHANGED service /\ service \in Services
  BY DEF RestInv, ServerInv, Main, RefuseMetric, LoadInMemory, LoadDisk, LoadDisks, Setup, Open, ReadLine
<1>3. NumIndexes' = NumIndexes /\ Several' = Several
  BY <1>2, ServiceKept
<1>4. ASSUME UNCHANGED server,
             Several /\ phase' \in {"setup", "open", "listening"} => SearchersOK(NumIndexes, global'),
             phase' \in {"open", "listening"} => ServerOK(NumIndexes, server)
      PROVE  ServerInv'
  BY <1>2, <1>3, <1>4 DEF RestInv, ServerInv
<1>5. CASE RefuseMetric
  BY <1>4, <1>5 DEF RefuseMetric, Die
<1>6. CASE LoadInMemory
  <2>1. ~Several
    BY <1>2, <1>6, ServiceType DEF LoadInMemory
  <2> QED
    BY <1>4, <1>6, <2>1 DEF LoadInMemory
<1>7. CASE LoadDisk
  <2>1. ~Several
    BY <1>2, <1>7, ServiceType DEF LoadDisk
  <2> QED
    BY <1>4, <1>7, <2>1 DEF LoadDisk, Die
<1>8. CASE LoadDisks
  <2>1. SearchersOK(NumIndexes, [i \in Partitions |-> i])
    BY <1>2, ServiceType DEF SearchersOK, OfLength
  <2> QED
    BY <1>4, <1>8, <2>1 DEF LoadDisks, Die
<1>9. CASE Setup
  <2>1. Several => SearchersOK(NumIndexes, global) /\ NumIndexes \in Nat
    BY <1>2, <1>9, ServiceType DEF Setup, RestInv, ServerInv
  <2>2. Several => SearchersOK(NumIndexes, MovedFrom) /\ Len(global) = NumIndexes
    BY <2>1, LengthIs DEF SearchersOK, MovedFrom, OfLength
  <2>3. CASE ServerType
    <3> DEFINE new == [number |-> setups', open |-> FALSE, searchers |-> global, multi |-> Len(global) > 1]
    <3>1. server' = new /\ phase' = "open" /\ global' = MovedFrom
      BY <1>9, <2>3 DEF Setup
    <3>2. ServerOK(NumIndexes, new)
      <4>1. new.searchers = global /\ new.multi = (Len(global) > 1)
        OBVIOUS
      <4> HIDE DEF new
      <4> QED
        BY <2>1, <2>2, <4>1 DEF ServerOK, Several, NumIndexes
    <3> HIDE DEF new
    <3> QED
      BY <1>2, <1>3, <2>2, <3>1, <3>2 DEF ServerInv
  <2>4. CASE ~ServerType
    BY <1>4, <1>9, <2>4 DEF Setup, Die
  <2> QED
    BY <2>3, <2>4
<1>10. CASE Open
  <2>1. PICK had \in BOOLEAN : phase' = (IF had THEN "listening" ELSE "setup") /\ server' = [server EXCEPT !.open = had]
    BY <1>10 DEF Open
  <2>2. ServerOK(NumIndexes, server) /\ (Several => SearchersOK(NumIndexes, global'))
    BY <1>10 DEF Open, RestInv, ServerInv
  <2>3. server'.searchers = server.searchers /\ server'.multi = server.multi
    BY <2>1
  <2>4. ServerOK(NumIndexes, server')
    BY <2>2, <2>3, Zenon DEF ServerOK
  <2> QED
    BY <1>2, <1>3, <2>2, <2>4 DEF ServerInv
<1>11. CASE ReadLine
  BY <1>4, <1>11 DEF ReadLine, RestInv, ServerInv
<1> QED
  BY <1>5, <1>6, <1>7, <1>8, <1>9, <1>10, <1>11 DEF Main

\* The program's part of the invariant when a client or a handler takes a step.
LEMMA ClientKeepsServer ==
    ASSUME RestInv, UNCHANGED <<service, global, server>>, UNCHANGED phase \/ Die
    PROVE  ServerInv'
<1>1. NumIndexes' = NumIndexes /\ Several' = Several /\ service \in Services
  BY ServiceKept DEF RestInv, ServerInv
<1> QED
  BY <1>1 DEF RestInv, ServerInv, Die

LEMMA SendKeeps ==
    ASSUME RestInv, NEW c \in Clients, Send(c)
    PROVE  RestInv'
<1>1. ServerInv'
  BY ClientKeepsServer DEF Send
<1>2. answered[c] \in Nat /\ ClientInv /\ UNCHANGED service
  BY DEF RestInv, ClientInv, Send
<1>3. CASE Accepting
  <2> DEFINE r == [step |-> "parse", server |-> server.number, id |-> -1, k |-> 0, Ls |-> 0,
                   next |-> 1, results |-> <<>>, status |-> Null, answer |-> Null]
  <2>1. request' = [request EXCEPT ![c] = r] /\ answered' = [answered EXCEPT ![c] = answered[c]]
    BY <1>2, <1>3 DEF Send, ClientInv
  <2>2. HasFields(r) /\ r.step = "parse" /\ r.next = 1 /\ r.results = <<>>
    BY DEF HasFields, RequestFields
  <2> HIDE DEF r
  <2>3. RequestOK(NumIndexes, PartAnswers, r) /\ FormOK(Len(Bodies(c)), answered[c], r)
    BY <2>2 DEF RequestOK, FormOK, Send
  <2>4. ClientInv'
    BY <1>2, <2>1, <2>3, OneRequest, Zenon
  <2> QED
    BY <1>1, <2>4 DEF RestInv
<1>4. CASE ~Accepting
  <2>1. /\ request' = [request EXCEPT ![c] = request[c]] /\ answered' = [answered EXCEPT ![c] = answered[c] + 1]
        /\ request[c].step = "none"
    BY <1>2, <1>4 DEF Send, ClientInv
  <2>2. RequestOK(NumIndexes, PartAnswers, request[c]) /\ FormOK(Len(Bodies(c)), answered[c] + 1, request[c])
    BY <2>1 DEF RequestOK, FormOK
  <2>3. ClientInv'
    <3>1. answered[c] + 1 \in Nat
      BY <1>2
    <3> QED
      BY <1>2, <2>1, <2>2, <3>1, OneRequest, Zenon
  <2> QED
    BY <1>1, <2>3 DEF RestInv
<1> QED
  BY <1>3, <1>4

\* A handler that leaves its request at none, at a failure or at an error's reply.
LEMMA EndsKeep ==
    ASSUME RestInv, NEW c \in Clients, Reply(c) \/ Lost(c)
    PROVE  RestInv'
<1>1. ServerInv'
  BY ClientKeepsServer DEF Reply, Lost
<1>2. /\ answered[c] \in Nat /\ ClientInv /\ UNCHANGED service
      /\ request' = [request EXCEPT ![c] = NoRequest] /\ answered' = [answered EXCEPT ![c] = answered[c] + 1]
  BY DEF RestInv, ClientInv, Reply, Lost
<1>3. RequestOK(NumIndexes, PartAnswers, NoRequest) /\ FormOK(Len(Bodies(c)), answered[c] + 1, NoRequest)
  BY DEF RequestOK, FormOK, NoRequest
<1>4. answered[c] + 1 \in Nat
  BY <1>2
<1>5. ClientInv'
  BY <1>2, <1>3, <1>4, OneRequest, Zenon
<1> QED
  BY <1>1, <1>5 DEF RestInv

\* A step of a handler whose request becomes r.
LEMMA BecomesKeeps ==
    ASSUME RestInv, NEW c \in Clients, NEW r, Becomes(c, r),
           UNCHANGED <<service, global, server, answered>>, UNCHANGED phase \/ Die,
           HasFields(r), r.step # "parse", Several => RequestOK(NumIndexes, PartAnswers, r)
    PROVE  RestInv'
<1>1. ServerInv'
  BY ClientKeepsServer
<1>2. answered[c] \in Nat /\ ClientInv /\ answered' = [answered EXCEPT ![c] = answered[c]]
  BY DEF RestInv, ClientInv
<1>3. FormOK(Len(Bodies(c)), answered[c], r)
  BY DEF FormOK
<1>4. ClientInv'
  BY <1>2, <1>3, OneRequest DEF Becomes
<1> QED
  BY <1>1, <1>4 DEF RestInv

\* A step of a handler that only ends the program.
LEMMA DieKeeps ==
    ASSUME RestInv, Die, UNCHANGED <<service, global, server, answered, request>>
    PROVE  RestInv'
BY ClientKeepsServer, MainKeepsRequests DEF RestInv

\* What a refusal is, whatever was read before it.
LEMMA FailedOK ==
    ASSUME NEW num, NEW given, NEW r, HasFields(r), NEW message
    PROVE  /\ HasFields(Failed(r, message)) /\ Failed(r, message).step = "reply"
           /\ RequestOK(num, given, Failed(r, message))
<1>1. /\ HasFields(Failed(r, message)) /\ Failed(r, message).step = "reply"
      /\ Failed(r, message).status = "InternalError"
  BY DEF Failed, HasFields, RequestFields
<1> QED
  BY <1>1 DEF RequestOK

LEMMA FailedKeeps ==
    ASSUME RestInv, NEW c \in Clients, NEW r, HasFields(r), NEW message, Becomes(c, Failed(r, message)),
           UNCHANGED <<service, global, server, answered>>, UNCHANGED phase \/ Die
    PROVE  RestInv'
<1> DEFINE f == Failed(r, message)
<1>1. HasFields(f) /\ f.step = "reply" /\ RequestOK(NumIndexes, PartAnswers, f) /\ Becomes(c, f)
  BY FailedOK
<1> HIDE DEF f
<1> QED
  BY <1>1, BecomesKeeps

LEMMA ParseKeeps ==
    ASSUME RestInv, NEW c \in Clients, ParseJson(c)
    PROVE  RestInv'
<1> DEFINE b == Body(c)
           r == request[c]
           read == [r EXCEPT !.id = IdOf(b)]
           got == [read EXCEPT !.k = b.k]
           search == [read EXCEPT !.step = "search", !.k = b.k, !.Ls = ListSizeOf(b)]
<1>1. /\ UNCHANGED <<service, phase, global, server, answered>> /\ r.step = "parse"
      /\ \/ Becomes(c, Failed(r, "what"))
         \/ Becomes(c, Failed(read, "what"))
         \/ Becomes(c, Failed(got, "unknown_error"))
         \/ b.k # Missing /\ ~Refused(b) /\ Becomes(c, search)
  BY DEF ParseJson, Parse
<1>2. /\ HasFields(r) /\ answered[c] \in Nat /\ answered[c] < Len(Bodies(c)) /\ Len(Bodies(c)) \in Nat
      /\ Several => r.next = 1 /\ r.results = <<>>
  BY <1>1, ServiceAssumption DEF RestInv, ClientInv, FormOK, RequestOK
<1>3. b.k # Missing => b.k \in Int
  BY <1>2, ServiceAssumption DEF Body
<1> HIDE DEF r, b
<1>4. HasFields(read) /\ HasFields(got)
  BY <1>2 DEF HasFields, RequestFields
<1>5. CASE b.k # Missing /\ ~Refused(b) /\ Becomes(c, search)
  <2>1. b.k \in Nat \ {0}
    BY <1>3, <1>5 DEF Refused
  <2>2. /\ HasFields(search) /\ search.step = "search" /\ search.k = b.k
        /\ search.next = r.next /\ search.results = r.results
    BY <1>2 DEF HasFields, RequestFields
  <2> HIDE DEF search
  <2>3. ASSUME Several PROVE RequestOK(NumIndexes, PartAnswers, search)
    <3>1. search.k \in Nat \ {0} /\ search.next = 1 /\ search.results = <<>>
      BY <1>2, <2>1, <2>2, <2>3
    <3>2. NumIndexes \in Nat
      BY ServiceType DEF RestInv, ServerInv
    <3>3. OfLength(<<>>, 0)
      BY DEF OfLength
    <3>4. Gathering(NumIndexes, PartAnswers, search.k, 1, <<>>)
      BY <3>1, <3>2, <3>3 DEF Gathering
    <3> QED
      BY <2>2, <3>1, <3>4 DEF RequestOK
  <2> QED
    BY <1>1, <1>5, <2>2, <2>3, BecomesKeeps
<1> HIDE DEF search, got, read
<1> QED
  BY <1>1, <1>2, <1>4, <1>5, FailedKeeps

LEMMA SearchKeeps ==
    ASSUME RestInv, NEW c \in Clients, Search(c)
    PROVE  RestInv'
<1> DEFINE r == request[c]
           i == server.searchers[r.next]
           more(list) == [r EXCEPT !.results = Append(@, Tagged(i, list)), !.next = @ + 1]
<1>1. /\ UNCHANGED <<service, global, server, answered>> /\ r.step = "search" /\ server # Null
      /\ r.next \in DOMAIN server.searchers
      /\ \/ i = Null /\ Die /\ UNCHANGED request
         \/ i # Null /\ UNCHANGED phase /\ Becomes(c, Failed(r, "what"))
         \/ i # Null /\ UNCHANGED phase /\ \E list \in SearcherAnswers(i, r.k) : Becomes(c, more(list))
  BY DEF Search, MyServer
<1>2. HasFields(r) /\ (Several => Gathering(NumIndexes, PartAnswers, r.k, r.next, r.results))
  BY <1>1 DEF RestInv, ClientInv, FormOK, RequestOK
<1>3. Several => SearchersOK(NumIndexes, server.searchers) /\ NumIndexes \in Nat
  <2>1. Several => NumIndexes > 1 /\ NumIndexes \in Nat
    BY ServiceType DEF RestInv, ServerInv, Several, NumIndexes
  <2> QED
    BY <1>1, <2>1 DEF RestInv, ServerInv, ServerOK
<1> HIDE DEF r
<1>4. ASSUME i # Null, UNCHANGED phase, NEW list \in SearcherAnswers(i, r.k), Becomes(c, more(list))
      PROVE  RestInv'
  <2> DEFINE t == Tagged(i, list)
             longer == Longer(r.results, t)
             next == r.next + 1
             new == more(list)
  <2>1. /\ HasFields(new) /\ new.step = "search" /\ new.k = r.k
        /\ new.results = longer /\ new.next = next
    <3> HIDE DEF i
    <3> QED
      BY <1>1, <1>2, Zenon DEF HasFields, RequestFields, Longer
  <2> HIDE DEF new
  <2>2. ASSUME Several PROVE RequestOK(NumIndexes, PartAnswers, new)
    <3>1. Gathering(NumIndexes, PartAnswers, r.k, r.next, r.results)
      BY <1>2, <2>2
    <3>2. r.next \in 1 .. NumIndexes /\ i = r.next
      BY <1>1, <1>3, <1>4, <2>2, LengthIs DEF SearchersOK
    <3>3. t \in PartAnswers[r.k][i]
      BY <3>1, <3>2 DEF PartAnswers, TaggedAnswers, Gathering
    <3> HIDE DEF t, i
    <3>4. /\ OfLength(longer, r.next) /\ longer[r.next] = t
          /\ \A j \in 1 .. r.next - 1 : longer[j] = r.results[j]
      <4>1. r.next - 1 \in Nat /\ (r.next - 1) + 1 = r.next /\ OfLength(r.results, r.next - 1)
        BY <3>1, <3>2 DEF Gathering
      <4> QED
        BY <4>1, Appended
    <3> HIDE DEF longer
    <3>5. \A j \in 1 .. r.next : longer[j] \in PartAnswers[r.k][j]
      BY <3>1, <3>2, <3>3, <3>4 DEF Gathering
    <3>6. next \in 1 .. NumIndexes + 1 /\ next - 1 = r.next
      BY <1>3, <2>2, <3>2
    <3>7. Gathering(NumIndexes, PartAnswers, r.k, next, longer)
      BY <3>1, <3>4, <3>5, <3>6 DEF Gathering
    <3> QED
      BY <2>1, <3>7 DEF RequestOK
  <2> QED
    BY <1>1, <1>4, <2>1, <2>2, BecomesKeeps DEF new
<1> HIDE DEF i, more
<1>5. CASE i = Null /\ Die /\ UNCHANGED request
  BY <1>1, <1>5, DieKeeps
<1>6. CASE UNCHANGED phase /\ Becomes(c, Failed(r, "what"))
  BY <1>1, <1>2, <1>6, FailedKeeps
<1> QED
  BY <1>1, <1>4, <1>5, <1>6

LEMMA AggregateKeeps ==
    ASSUME RestInv, NEW c \in Clients, Aggregate(c)
    PROVE  RestInv'
<1> DEFINE r == request[c]
           a == IF server.multi THEN Merge(r.results, r.k) ELSE r.results[1].entries
           new == Served(r, a)
<1>1. /\ UNCHANGED <<service, global, server, answered>> /\ r.step = "search" /\ server # Null
      /\ r.next = Len(server.searchers) + 1
      /\ \/ Die /\ UNCHANGED request
         \/ UNCHANGED phase /\ Becomes(c, new)
  BY DEF Aggregate, MyServer
<1>2. HasFields(r) /\ (Several => Gathering(NumIndexes, PartAnswers, r.k, r.next, r.results))
  BY <1>1 DEF RestInv, ClientInv, FormOK, RequestOK
<1>3. Several => SearchersOK(NumIndexes, server.searchers) /\ NumIndexes \in Nat /\ server.multi = TRUE
  <2>1. Several => NumIndexes > 1 /\ NumIndexes \in Nat
    BY ServiceType DEF RestInv, ServerInv, Several, NumIndexes
  <2> QED
    BY <1>1, <2>1 DEF RestInv, ServerInv, ServerOK
<1>4. HasFields(new) /\ new.step = "reply" /\ new.status = "OK" /\ new.k = r.k /\ new.answer = a
  <2> HIDE DEF r, a
  <2> QED
    BY <1>2 DEF Served, HasFields, RequestFields
<1>5. ASSUME Several PROVE RequestOK(NumIndexes, PartAnswers, new)
  <2>1. r.next = NumIndexes + 1 /\ a = Merge(r.results, r.k)
    BY <1>1, <1>3, <1>5, LengthIs DEF SearchersOK
  <2>2. Gathering(NumIndexes, PartAnswers, r.k, NumIndexes + 1, r.results)
    BY <1>2, <1>5, <2>1
  <2> HIDE DEF r, a, new
  <2>3. Gathered(NumIndexes, PartAnswers, r.k, a)
    BY <2>1, <2>2 DEF Gathered, Gathering
  <2> QED
    BY <1>4, <2>3 DEF RequestOK
<1> HIDE DEF new, r
<1>6. CASE Becomes(c, new) /\ UNCHANGED phase
  BY <1>1, <1>4, <1>5, <1>6, BecomesKeeps
<1> QED
  BY <1>1, <1>6, DieKeeps

LEMMA RestInvKept ==
    ASSUME RestInv, RestNext \/ UNCHANGED restVars
    PROVE  RestInv'
<1>1. ASSUME NEW c \in Clients, Client(c) PROVE RestInv'
  <2>1. CASE ServerGone(c)
    BY <2>1, DieKeeps DEF ServerGone
  <2> QED
    BY <1>1, <2>1, SendKeeps, ParseKeeps, SearchKeeps, AggregateKeeps, EndsKeep DEF Client, Handle
<1>2. CASE UNCHANGED restVars
  BY <1>2, ClientKeepsServer, MainKeepsRequests DEF restVars, RestInv
<1> QED
  BY <1>1, <1>2, MainKeeps DEF RestNext

\* The points that a searcher's answer f of k entries is about.
Lists(i, k, f, list) ==
    /\ list \in [1 .. k -> PointsOf(i)]
    /\ \A a, b \in 1 .. k : a < b =>
          list[a] # list[b] /\ service.parts[i].dist[list[a]] <= service.parts[i].dist[list[b]]
    /\ \A p \in PointsOf(i) :
          \/ \E a \in 1 .. k : p = list[a]
          \/ \A a \in 1 .. k : service.parts[i].dist[list[a]] <= service.parts[i].dist[p]
    /\ \A m \in 1 .. k :
          /\ f.entries[m].index = list[m]
          /\ f.entries[m].distance = service.parts[i].dist[list[m]]
          /\ f.entries[m].tag \in {Null, <<i, list[m]>>}

\* A searcher with enough points answers the nearest of them, if nearer is smaller.
LEMMA AnswerLists ==
    ASSUME service \in Services, NEW i \in Partitions, NEW k \in Nat \ {0}, Cardinality(PointsOf(i)) >= k,
           Sign = 1, NEW f \in TaggedAnswers(i, k)
    PROVE  \E list : Lists(i, k, f, list)
<1> DEFINE d == service.parts[i].dist
<1>1. /\ Cardinality(PointsOf(i)) \in Nat /\ \A p \in PointsOf(i) : d[p] \in Int
  BY ServiceType
<1>2. PICK list \in Found(i, k) :
         f \in {Tagged(i, [j \in 1 .. k |-> IF j <= Len(list) THEN Entry(i, list[j]) ELSE left]) : left \in LeftOver(i)}
  BY DEF TaggedAnswers, SearcherAnswers
<1>3. PICK left : f = Tagged(i, [j \in 1 .. k |-> IF j <= Len(list) THEN Entry(i, list[j]) ELSE left])
  BY <1>2
<1>4. /\ list \in [1 .. k -> PointsOf(i)]
      /\ IsInjective(list)
      /\ \A a, b \in 1 .. k : a < b => d[list[a]] <= d[list[b]]
      /\ \A p \in PointsOf(i) \ Range(list) : \A a \in 1 .. k : d[list[a]] <= d[p]
  <2>1. (IF Cardinality(PointsOf(i)) < k THEN Cardinality(PointsOf(i)) ELSE k) = k
    BY <1>1
  <2> QED
    BY <1>2, <2>1 DEF Found
<1>5. Len(list) = k
  BY <1>4, LengthIs DEF OfLength
<1>6. ASSUME NEW m \in 1 .. k
      PROVE  /\ f.entries[m].index = list[m] /\ f.entries[m].distance = d[list[m]]
             /\ f.entries[m].tag \in {Null, <<i, list[m]>>}
  <2>1. list[m] \in PointsOf(i) /\ d[list[m]] \in Int
    BY <1>1, <1>4
  <2>2. Entry(i, list[m]).index = list[m] /\ Entry(i, list[m]).distance = d[list[m]]
    BY <2>1 DEF Entry
  <2>3. TagOf(i, list[m]) \in {Null, <<i, list[m]>>}
    BY DEF TagOf
  <2> DEFINE given == [j \in 1 .. k |-> IF j <= Len(list) THEN Entry(i, list[j]) ELSE left]
  <2>4. given[m] = Entry(i, list[m]) /\ DOMAIN given = 1 .. k
    BY <1>5
  <2> HIDE DEF given
  <2>5. f.entries[m] = [tag |-> TagOf(i, given[m].index), index |-> given[m].index, distance |-> given[m].distance]
    <3>1. f = Tagged(i, given)
      BY <1>3 DEF given
    <3> QED
      BY <2>4, <3>1 DEF Tagged
  <2> QED
    BY <2>2, <2>3, <2>4, <2>5
<1>7. \A a, b \in 1 .. k : a < b => list[a] # list[b]
  BY <1>4 DEF IsInjective
<1>8. ASSUME NEW p \in PointsOf(i)
      PROVE  (\E a \in 1 .. k : p = list[a]) \/ \A a \in 1 .. k : d[list[a]] <= d[p]
  BY <1>4 DEF Range
<1>9. Lists(i, k, f, list)
  BY <1>4, <1>6, <1>7, <1>8 DEF Lists
<1> QED
  BY <1>9

LEMMA ListsAreSorted ==
    ASSUME service \in Services, NEW i \in Partitions, NEW k \in Nat \ {0}, NEW found, NEW list,
           Lists(i, k, found[i], list)
    PROVE  Sorted(found, i, k)
<1>1. \A m \in 1 .. k : /\ Given(found, i, m).index = list[m] /\ list[m] \in PointsOf(i)
                        /\ Given(found, i, m).distance = service.parts[i].dist[list[m]]
  BY DEF Lists, Given
<1>2. \A p \in PointsOf(i) : service.parts[i].dist[p] \in Int
  BY ServiceType
<1> QED
  BY <1>1, <1>2 DEF Sorted, Lists

\* What was gathered from the searchers is merged into the nearest of all points.
LEMMA GatheredIsNearest ==
    ASSUME service \in Services, Several, Sign = 1, NEW k, HavePoints(k),
           NEW a, Gathered(NumIndexes, PartAnswers, k, a)
    PROVE  LET at(j) == <<a[j].partition, a[j].index>>
               real == UNION {{<<i, p>> : p \in PointsOf(i)} : i \in Partitions}
               d(s) == service.parts[s[1]].dist[s[2]]
           IN  /\ Len(a) = k
               /\ \A j \in DOMAIN a : at(j) \in real /\ a[j].distance = d(at(j))
               /\ \A j, l \in DOMAIN a : j < l => at(j) # at(l) /\ a[j].distance <= a[l].distance
               /\ \A s \in real \ {at(j) : j \in DOMAIN a} : \A j \in DOMAIN a : a[j].distance <= d(s)
               /\ \A j \in DOMAIN a : a[j].tag # Null => a[j].tag = at(j)
<1> DEFINE num == NumIndexes
           real == UNION {{<<i, p>> : p \in PointsOf(i)} : i \in Partitions}
           dist(i, p) == service.parts[i].dist[p]
<1>1. num \in Nat \ {0} /\ Partitions = 1 .. num /\ k \in Nat \ {0}
  BY ServiceType DEF Gathered, Several, NumIndexes
<1>2. PICK found : Gathering(num, PartAnswers, k, num + 1, found) /\ a = Merge(found, k)
  BY DEF Gathered
<1>3. DOMAIN found = 1 .. num /\ \A i \in 1 .. num : found[i] \in TaggedAnswers(i, k)
  <2>1. (num + 1) - 1 = num /\ OfLength(found, num) /\ \A i \in 1 .. num : found[i] \in PartAnswers[k][i]
    BY <1>1, <1>2 DEF Gathering
  <2> QED
    BY <1>1, <2>1, LengthIs DEF PartAnswers
<1>4. \A i \in 1 .. num : \E list : Lists(i, k, found[i], list)
  BY <1>1, <1>3, AnswerLists DEF HavePoints
<1>5. \A i \in 1 .. num : Sorted(found, i, k)
  BY <1>1, <1>4, ListsAreSorted
<1>6. NearestOf(found, num, k, a)
  <2>1. k \in Nat /\ num \in Nat \ {0}
    BY <1>1
  <2> HIDE DEF num
  <2> QED
    BY <1>2, <1>3, <1>5, <2>1, MergeIsNearest, Zenon
<1>7. Len(a) = k /\ DOMAIN a = 1 .. k
  BY <1>1, <1>6, LengthIs DEF NearestOf
<1>8. \A i, e : /\ Taken(i, e).partition = i /\ Taken(i, e).index = e.index
                /\ Taken(i, e).distance = e.distance /\ Taken(i, e).tag = e.tag
  BY DEF Taken
<1>9. \A i \in 1 .. num : \A m \in 1 .. k :
         /\ Given(found, i, m).index \in PointsOf(i)
         /\ Given(found, i, m).distance = dist(i, Given(found, i, m).index)
         /\ Given(found, i, m).tag \in {Null, <<i, Given(found, i, m).index>>}
  <2>1. ASSUME NEW i \in 1 .. num, NEW m \in 1 .. k
        PROVE  /\ Given(found, i, m).index \in PointsOf(i)
               /\ Given(found, i, m).distance = dist(i, Given(found, i, m).index)
               /\ Given(found, i, m).tag \in {Null, <<i, Given(found, i, m).index>>}
    <3>1. PICK list : Lists(i, k, found[i], list)
      BY <1>4
    <3>2. list[m] \in PointsOf(i)
      BY <3>1 DEF Lists
    <3>3. /\ Given(found, i, m).index = list[m]
          /\ Given(found, i, m).distance = dist(i, list[m])
          /\ Given(found, i, m).tag \in {Null, <<i, list[m]>>}
      BY <3>1, Zenon DEF Lists, Given
    <3> QED
      BY <3>2, <3>3, Zenon
  <2> QED
    BY <2>1, Zenon
<1>10. ASSUME NEW j \in 1 .. k
       PROVE  /\ a[j].partition \in 1 .. num /\ a[j].index \in PointsOf(a[j].partition)
              /\ a[j].distance = dist(a[j].partition, a[j].index)
              /\ a[j].tag \in {Null, <<a[j].partition, a[j].index>>}
  <2>1. PICK i \in 1 .. num : \E m \in 1 .. k : a[j] = Taken(i, Given(found, i, m))
    BY <1>6 DEF NearestOf
  <2>2. PICK m \in 1 .. k : a[j] = Taken(i, Given(found, i, m))
    BY <2>1
  <2> QED
    BY <1>8, <1>9, <2>2
<1>11. ASSUME NEW i \in 1 .. num, NEW p \in PointsOf(i),
              \A j \in 1 .. k : ~(a[j].partition = i /\ a[j].index = p), NEW j \in 1 .. k
       PROVE  a[j].distance <= dist(i, p)
  <2>1. PICK list : Lists(i, k, found[i], list)
    BY <1>4
  <2>2. \A m \in 1 .. k : Given(found, i, m).index = list[m] /\ Given(found, i, m).distance = dist(i, list[m])
    BY <2>1 DEF Lists, Given
  <2>3. k \in 1 .. k /\ list[k] \in PointsOf(i)
    BY <1>1, <2>1 DEF Lists
  <2>4. \A q \in PointsOf(i) : dist(i, q) \in Int
    BY <1>1, ServiceType
  <2>5. CASE \E m \in 1 .. k : p = list[m]
    <3>1. PICK m \in 1 .. k : p = list[m]
      BY <2>5
    <3>2. \A l \in 1 .. k : a[l] # Taken(i, Given(found, i, m))
      BY <1>8, <1>11, <2>2, <3>1
    <3>3. \/ \E l \in 1 .. k : a[l] = Taken(i, Given(found, i, m))
          \/ \A l \in 1 .. k : a[l].distance <= Given(found, i, m).distance
      <4> HIDE DEF num
      <4> QED
        BY <1>6, <3>1, Zenon DEF NearestOf
    <3>4. a[j].distance <= Given(found, i, m).distance
      BY <3>2, <3>3, Zenon
    <3> QED
      BY <2>2, <3>1, <3>4
  <2>6. CASE \A m \in 1 .. k : dist(i, list[m]) <= dist(i, p)
    <3>1. a[j].distance <= dist(i, list[k]) /\ dist(i, list[k]) <= dist(i, p)
      BY <1>6, <2>2, <2>3, <2>6 DEF NearestOf
    <3>2. a[j].distance \in Int /\ dist(i, list[k]) \in Int /\ dist(i, p) \in Int
      BY <1>1, <1>10, <2>3, <2>4, ServiceType
    <3> QED
      BY <3>1, <3>2
  <2> QED
    BY <2>1, <2>5, <2>6 DEF Lists
<1> HIDE DEF num
<1>12. ASSUME NEW j \in 1 .. k PROVE <<a[j].partition, a[j].index>> \in real
  BY <1>1, <1>10
<1>13. ASSUME NEW s \in real \ {<<a[j].partition, a[j].index>> : j \in 1 .. k}, NEW l \in 1 .. k
       PROVE  a[l].distance <= service.parts[s[1]].dist[s[2]]
  <2>1. PICK i \in 1 .. num : \E p \in PointsOf(i) : s = <<i, p>>
    BY <1>1
  <2>2. PICK p \in PointsOf(i) : s = <<i, p>>
    BY <2>1
  <2>3. \A j \in 1 .. k : ~(a[j].partition = i /\ a[j].index = p)
    BY <2>2
  <2>4. a[l].distance <= dist(i, p)
    BY <1>11, <2>3
  <2> QED
    BY <2>2, <2>4
<1> QED
  BY <1>6, <1>7, <1>10, <1>12, <1>13 DEF NearestOf

LEMMA RestInvAnswers ==
    ASSUME RestInv
    PROVE  AnswersAreMerged
<1>1. ASSUME NEW c \in Clients, request[c].step = "reply", request[c].status = "OK", Several
      PROVE  Gathered(NumIndexes, PartAnswers, request[c].k, request[c].answer)
  BY <1>1 DEF RestInv, ClientInv, RequestOK
<1>2. service \in Services
  BY DEF RestInv, ServerInv
<1> QED
  BY <1>1, <1>2, GatheredIsNearest DEF AnswersAreMerged, Several

\* Whatever the clients ask of the servers, in whatever order their requests are
\* handled and the program loads, opens and replaces its server, every answer over
\* several indexes is that of one over all their points (aggregate_results).
THEOREM AnswersMerge == ToolsSpec => []AnswersAreMerged
<1>1. ToolsInit => RestInv
  BY RestInvInit DEF ToolsInit
<1>2. RestInv /\ [ToolsNext]_toolVars => RestInv'
  <2>1. [ToolsNext]_toolVars => RestNext \/ UNCHANGED restVars
    BY DEF ToolsNext, Evaluate, SearchRange, Serve, toolVars
  <2> QED
    BY <2>1, RestInvKept
<1>3. RestInv => AnswersAreMerged
  BY RestInvAnswers
<1> QED
  BY <1>1, <1>2, <1>3, PTL DEF ToolsSpec

-----------------------------------------------------------------------------
(* The search of a range.                                                  *)

\* What comes before p in S, when d is what Dist gives.
Preceding(d, S, p) == {q \in S : d[q] < d[p] \/ (d[q] = d[p] /\ q < p)}

\* Points that precede one precede what comes after it.
LEMMA PrecedingLess ==
    ASSUME NEW S, IsFiniteSet(S), S \subseteq Nat, NEW d, \A p \in S : d[p] \in Int,
           NEW p \in S, NEW q \in S, p \in Preceding(d, S, q)
    PROVE  /\ Cardinality(Preceding(d, S, p)) \in Nat /\ Cardinality(Preceding(d, S, q)) \in Nat
           /\ Cardinality(Preceding(d, S, p)) < Cardinality(Preceding(d, S, q))
<1> DEFINE A == Preceding(d, S, p)
           B == Preceding(d, S, q)
<1>1. A \in SUBSET B /\ p \in B /\ p \notin A
  <2>1. \A x \in S : x \in Nat /\ d[x] \in Int
    OBVIOUS
  <2>2. d[p] < d[q] \/ (d[p] = d[q] /\ p < q)
    BY DEF Preceding
  <2>3. ASSUME NEW x \in S, d[x] < d[p] \/ (d[x] = d[p] /\ x < p)
        PROVE  d[x] < d[q] \/ (d[x] = d[q] /\ x < q)
    <3>1. x \in Nat /\ p \in Nat /\ q \in Nat /\ d[x] \in Int /\ d[p] \in Int /\ d[q] \in Int
      BY <2>1
    <3> QED
      BY <2>2, <2>3, <3>1
  <2>4. ~(d[p] < d[p]) /\ ~(p < p)
    BY <2>1
  <2> QED
    BY <2>2, <2>3, <2>4 DEF Preceding
<1>2. A \in SUBSET S /\ B \in SUBSET S
  BY DEF Preceding
<1> HIDE DEF A, B
<1>3. IsFiniteSet(A) /\ IsFiniteSet(B)
  BY <1>2, FS_Subset
<1>4. Cardinality(A) <= Cardinality(B) /\ (Cardinality(B) = Cardinality(A) => B = A)
  BY <1>1, <1>3, FS_Subset
<1>5. Cardinality(A) \in Nat /\ Cardinality(B) \in Nat
  BY <1>3, FS_CardinalityType
<1>6. Cardinality(A) < Cardinality(B)
  BY <1>1, <1>4, <1>5
<1> QED
  BY <1>5, <1>6 DEF A, B

\* How many points precede one; each number below that of the points is one's.
RanksAreAll(d, S) ==
    /\ \A p \in S : Cardinality(Preceding(d, S, p)) \in 0 .. Cardinality(S) - 1
    /\ \A i \in 0 .. Cardinality(S) - 1 : \E p \in S : Cardinality(Preceding(d, S, p)) = i

LEMMA PrecedingOnto ==
    ASSUME NEW S, IsFiniteSet(S), S \subseteq Nat, NEW d, \A p \in S : d[p] \in Int
    PROVE  RanksAreAll(d, S)
<1> DEFINE T == 0 .. Cardinality(S) - 1
           rank(p) == Cardinality(Preceding(d, S, p))
           f == [p \in S |-> rank(p)]
<1>1. Cardinality(S) \in Nat
  BY FS_CardinalityType
<1>2. IsFiniteSet(T) /\ Cardinality(T) = Cardinality(S)
  <2> DEFINE num == Cardinality(S)
  <2>1. num \in Nat
    BY <1>1
  <2> HIDE DEF num
  <2>2. IsFiniteSet(0 .. num - 1) /\ Cardinality(0 .. num - 1) = num
    BY <2>1, FS_Interval
  <2> QED
    BY <2>2 DEF num
<1>3. ASSUME NEW p \in S PROVE rank(p) \in T
  <2>1. Preceding(d, S, p) \in SUBSET S /\ p \notin Preceding(d, S, p)
    <3>1. p \in Nat /\ d[p] \in Int
      OBVIOUS
    <3> QED
      BY <3>1 DEF Preceding
  <2>2. /\ IsFiniteSet(Preceding(d, S, p)) /\ rank(p) \in Nat
        /\ rank(p) <= Cardinality(S) /\ (Cardinality(S) = rank(p) => S = Preceding(d, S, p))
    BY <2>1, FS_Subset, FS_CardinalityType
  <2>3. rank(p) # Cardinality(S)
    BY <2>1, <2>2
  <2> HIDE DEF rank
  <2> QED
    BY <1>1, <2>2, <2>3
<1>4. ASSUME NEW p \in S, NEW q \in S, rank(p) = rank(q) PROVE p = q
  <2>1. p \notin Preceding(d, S, q) /\ q \notin Preceding(d, S, p)
    <3>1. ASSUME NEW x \in S, NEW y \in S, x \in Preceding(d, S, y) PROVE rank(x) # rank(y)
      <4>1. rank(x) \in Nat /\ rank(y) \in Nat /\ rank(x) < rank(y)
        BY <3>1, PrecedingLess
      <4> HIDE DEF rank
      <4> QED
        BY <4>1
    <3> HIDE DEF rank
    <3> QED
      BY <1>4, <3>1
  <2>2. p \in Nat /\ q \in Nat /\ d[p] \in Int /\ d[q] \in Int
    OBVIOUS
  <2> QED
    BY <2>1, <2>2 DEF Preceding
<1> HIDE DEF rank
<1>5. f \in Injection(S, T)
  <2>1. f \in [S -> T]
    BY <1>3
  <2>2. \A p, q \in S : f[p] = f[q] => p = q
    BY <1>4
  <2> QED
    BY <2>1, <2>2 DEF Injection, IsInjective
<1>6. f \in Surjection(S, T)
  BY <1>2, <1>5, FS_Injection
<1> QED
  BY <1>3, <1>6 DEF Surjection, rank, T, f, RanksAreAll

\* The points of S as InOrder gives them, and what their order is.
Ranked(f, d, S) ==
    f = [n \in 1 .. Cardinality(S) |-> CHOOSE p \in S : Cardinality(Preceding(d, S, p)) = n - 1]
NearFirst(f, d, S, num) ==
    /\ f \in [1 .. num -> S]
    /\ \A a, b \in 1 .. num : a < b => d[f[a]] <= d[f[b]] /\ f[a] # f[b]
    /\ \A p \in S : \E a \in 1 .. num : f[a] = p

LEMMA OrderedBy ==
    ASSUME NEW S, IsFiniteSet(S), S \subseteq Nat, NEW d, \A p \in S : d[p] \in Int,
           NEW f, Ranked(f, d, S)
    PROVE  NearFirst(f, d, S, Cardinality(S))
<1> DEFINE num == Cardinality(S)
           rank(p) == Cardinality(Preceding(d, S, p))
<1>1. num \in Nat
  BY FS_CardinalityType
<1>2. (\A p \in S : rank(p) \in 0 .. num - 1) /\ \A i \in 0 .. num - 1 : \E p \in S : rank(p) = i
  <2>1. RanksAreAll(d, S)
    BY PrecedingOnto
  <2> QED
    BY <2>1, Zenon DEF RanksAreAll
<1>3. \A p, q \in S : p \in Preceding(d, S, q) => rank(p) < rank(q)
  BY PrecedingLess
<1>4. \A p, q \in S : p = q \/ p \in Preceding(d, S, q) \/ q \in Preceding(d, S, p)
  <2>1. \A p \in S : p \in Nat /\ d[p] \in Int
    OBVIOUS
  <2> QED
    BY <2>1 DEF Preceding
<1>5. \A p, q \in S : p \in Preceding(d, S, q) => d[p] <= d[q]
  <2>1. \A p \in S : p \in Nat /\ d[p] \in Int
    OBVIOUS
  <2> QED
    BY <2>1 DEF Preceding
<1> HIDE DEF rank, num
<1>6. ASSUME NEW a \in 1 .. num PROVE f[a] \in S /\ rank(f[a]) = a - 1
  <2>1. a - 1 \in 0 .. num - 1
    BY <1>1
  <2>2. \E p \in S : rank(p) = a - 1
    BY <1>2, <2>1
  <2>3. f[a] = CHOOSE p \in S : rank(p) = a - 1
    BY DEF num, rank, Ranked
  <2> QED
    BY <2>2, <2>3
<1>7. f \in [1 .. num -> S]
  <2>1. f = [n \in 1 .. num |-> f[n]]
    BY DEF num, Ranked
  <2> QED
    BY <1>6, <2>1
<1>8. ASSUME NEW a \in 1 .. num, NEW b \in 1 .. num, a < b
      PROVE  d[f[a]] <= d[f[b]] /\ f[a] # f[b]
  <2>1. f[a] \in S /\ f[b] \in S /\ rank(f[a]) = a - 1 /\ rank(f[b]) = b - 1
    BY <1>6
  <2>2. ~(rank(f[b]) < rank(f[a])) /\ rank(f[a]) # rank(f[b])
    BY <1>1, <1>8, <2>1
  <2>3. f[a] \in Preceding(d, S, f[b])
    BY <1>3, <1>4, <2>1, <2>2
  <2> QED
    BY <1>5, <2>1, <2>2, <2>3
<1>9. ASSUME NEW p \in S PROVE \E a \in 1 .. num : f[a] = p
  <2>1. rank(p) + 1 \in 1 .. num /\ rank(p) \in Nat
    BY <1>1, <1>2
  <2>2. f[rank(p) + 1] \in S /\ rank(f[rank(p) + 1]) = rank(p)
    <3>1. f[rank(p) + 1] \in S /\ rank(f[rank(p) + 1]) = (rank(p) + 1) - 1
      BY <1>6, <2>1
    <3>2. (rank(p) + 1) - 1 = rank(p)
      BY <2>1
    <3> QED
      BY <3>1, <3>2
  <2>3. f[rank(p) + 1] = p
    <3>1. ~(rank(f[rank(p) + 1]) < rank(p)) /\ ~(rank(p) < rank(f[rank(p) + 1]))
      BY <2>1, <2>2
    <3> QED
      BY <1>3, <1>4, <2>2, <3>1
  <2> QED
    BY <2>1, <2>3
<1> QED
  BY <1>7, <1>8, <1>9 DEF num, NearFirst

\* The sizes that doubling reaches have a largest, and it is that of each of them.
LEMMA LargestDoubles ==
    ASSUME NEW l \in Nat
    PROVE  /\ 2 * l > MaxListSize => Largest(l) = l
           /\ 2 * l <= MaxListSize => Largest(l) = Largest(2 * l)
<1> DEFINE Next2(f, n) == IF 2 * n > MaxListSize THEN n ELSE f[2 * n]
           Solves(f) == f = [n \in Nat |-> Next2(f, n)]
           From(f, m) == /\ f = [n \in Nat |-> f[n]]
                         /\ \A n \in Nat : n > MaxListSize - m => f[n] = Next2(f, n)
           Good == {m \in 0 .. MaxListSize : \E f : From(f, m)}
<1>1. MaxListSize \in Nat
  BY RangeAssumption
<1>2. 0 \in Good
  <2> DEFINE f == [n \in Nat |-> n]
  <2>1. f = [n \in Nat |-> f[n]]
    OBVIOUS
  <2>2. \A n \in Nat : n > MaxListSize - 0 => f[n] = Next2(f, n)
    BY <1>1
  <2> HIDE DEF f
  <2>3. From(f, 0)
    BY <2>1, <2>2
  <2> HIDE DEF From
  <2> QED
    BY <1>1, <2>3
<1>3. ASSUME NEW m \in 1 .. MaxListSize, m - 1 \in Good PROVE m \in Good
  <2>1. PICK f : From(f, m - 1)
    BY <1>3
  <2> DEFINE x == MaxListSize - m + 1
             g == [n \in Nat |-> IF n = x THEN Next2(f, x) ELSE f[n]]
  <2>2. x \in Nat /\ x > 0 /\ 2 * x # x /\ 2 * x \in Nat
    BY <1>1
  <2>3. ASSUME NEW n \in Nat, n > MaxListSize - m PROVE g[n] = Next2(g, n)
    <3>1. n >= x /\ 2 * n \in Nat /\ 2 * n # x
      BY <1>1, <2>2, <2>3
    <3>2. g[2 * n] = f[2 * n]
      BY <3>1
    <3>3. CASE n = x
      BY <3>1, <3>2, <3>3
    <3>4. CASE n # x
      <4>1. n > MaxListSize - (m - 1)
        BY <1>1, <3>1, <3>4
      <4> QED
        BY <2>1, <3>2, <3>4, <4>1
    <3> QED
      BY <3>3, <3>4
  <2>4. g = [n \in Nat |-> g[n]]
    OBVIOUS
  <2> HIDE DEF g
  <2>5. From(g, m)
    BY <2>3, <2>4
  <2> HIDE DEF From
  <2> QED
    BY <2>5
<1>4. \E f : From(f, MaxListSize)
  <2> HIDE DEF Good
  <2>1. MaxListSize \in Good
    BY <1>1, <1>2, <1>3, Rounds
  <2> QED
    BY <2>1 DEF Good
<1>5. \E f : Solves(f)
  <2>1. PICK f : From(f, MaxListSize)
    BY <1>4
  <2>2. ASSUME NEW n \in Nat PROVE f[n] = Next2(f, n)
    <3>1. CASE n = 0
      BY <1>1, <3>1
    <3>2. CASE n # 0
      <4>1. n > MaxListSize - MaxListSize
        BY <1>1, <3>2
      <4> QED
        BY <2>1, <4>1
    <3> QED
      BY <3>1, <3>2
  <2>3. f = [n \in Nat |-> f[n]]
    BY <2>1
  <2>4. Solves(f)
    BY <2>2, <2>3
  <2> HIDE DEF Solves
  <2> QED
    BY <2>4
<1> DEFINE grown == CHOOSE f : f = [n \in Nat |-> Next2(f, n)]
<1>6. Largest(l) = grown[l] /\ Largest(2 * l) = grown[2 * l]
  BY DEF Largest
<1>7. Solves(grown)
  <2>1. grown = CHOOSE f : Solves(f)
    OBVIOUS
  <2> HIDE DEF Solves, grown
  <2> QED
    BY <1>5, <2>1
<1> HIDE DEF grown
<1>8. grown[l] = Next2(grown, l)
  BY <1>7
<1> QED
  BY <1>1, <1>6, <1>8

LEMMA LargestAtLeast ==
    ASSUME NEW l \in Nat \ {0}
    PROVE  Largest(l) \in Nat /\ l <= Largest(l)
<1> DEFINE Bound(n) == Largest(n) \in Nat /\ n <= Largest(n)
           Good == {m \in 0 .. MaxListSize : \A n \in Nat : n > MaxListSize - m => Bound(n)}
<1>1. MaxListSize \in Nat
  BY RangeAssumption
<1>2. 0 \in Good
  <2>1. ASSUME NEW n \in Nat, n > MaxListSize - 0 PROVE Bound(n)
    <3>1. Largest(n) = n
      BY <1>1, <2>1, LargestDoubles
    <3> QED
      BY <3>1
  <2> HIDE DEF Bound
  <2> QED
    BY <1>1, <2>1
<1>3. ASSUME NEW m \in 1 .. MaxListSize, m - 1 \in Good PROVE m \in Good
  <2>1. ASSUME NEW n \in Nat, n > MaxListSize - m PROVE Bound(n)
    <3>1. CASE 2 * n > MaxListSize
      <4>1. Largest(n) = n
        BY <3>1, LargestDoubles
      <4> QED
        BY <4>1
    <3>2. CASE ~(2 * n > MaxListSize)
      <4>1. 2 * n \in Nat /\ 2 * n > MaxListSize - (m - 1) /\ n <= 2 * n /\ 2 * n <= MaxListSize
        BY <1>1, <2>1, <3>2
      <4>2. Largest(n) = Largest(2 * n)
        BY <4>1, LargestDoubles
      <4>3. Bound(2 * n)
        <5> HIDE DEF Bound
        <5> QED
          BY <1>3, <4>1
      <4> QED
        BY <4>1, <4>2, <4>3
    <3> QED
      BY <3>1, <3>2
  <2> HIDE DEF Bound
  <2> QED
    BY <2>1
<1>4. MaxListSize \in Good
  <2> HIDE DEF Good
  <2> QED
    BY <1>1, <1>2, <1>3, Rounds
<1>5. l > MaxListSize - MaxListSize
  BY <1>1
<1> HIDE DEF Bound
<1>6. Bound(l)
  BY <1>4, <1>5
<1> QED
  BY <1>6 DEF Bound

\* range_search counts the answers up to the first that is out of range.
LEMMA CountIs ==
    ASSUME NEW l \in Nat, NEW copied, OfLength(copied, l), ask.range \in Int,
           \A j \in 1 .. l : copied[j].dist \in Int, ask.dist_fn # "mips"
    PROVE  /\ Count(copied) \in 0 .. l
           /\ \A j \in 1 .. Count(copied) : copied[j].dist <= ask.range
           /\ Count(copied) < l => copied[Count(copied) + 1].dist > ask.range
<1> DEFINE B == Beyond(copied)
           first == CHOOSE j \in B : \A x \in B : j <= x
<1>1. Len(copied) = l /\ DOMAIN copied = 1 .. l
  BY LengthIs
<1>2. B = {j \in 1 .. l : copied[j].dist > ask.range}
  BY <1>1 DEF Beyond, Flipped
<1>3. Count(copied) = IF B = {} THEN l ELSE first - 1
  BY <1>1 DEF Count
<1> HIDE DEF B
<1>4. CASE B = {}
  <2>1. \A j \in 1 .. l : ~(copied[j].dist > ask.range)
    BY <1>2, <1>4
  <2> QED
    BY <1>3, <1>4, <2>1
<1>5. CASE B # {}
  <2>1. B \subseteq Nat
    BY <1>2
  <2>2. first \in B /\ \A x \in B : first <= x
    BY <1>5, <2>1, LeastNumber
  <2> HIDE DEF first
  <2>3. first \in 1 .. l /\ copied[first].dist > ask.range /\ Count(copied) = first - 1
    BY <1>2, <1>3, <1>5, <2>2
  <2>4. \A j \in 1 .. first - 1 : j \in 1 .. l /\ ~(first <= j)
    BY <2>3
  <2>5. \A j \in 1 .. first - 1 : copied[j].dist <= ask.range
    BY <1>2, <2>2, <2>4
  <2> QED
    BY <2>3, <2>5
<1> QED
  BY <1>4, <1>5

NearestIn(S, Every, d) == \A p \in S, q \in Every \ S : d[p] <= d[q]
WithinRange(Every, d, r) == {p \in Every : d[p] <= r}
FirstOutside(f, d, n, l, r) == (\A j \in 1 .. n : d[f[j]] <= r) /\ (n < l => d[f[n + 1]] > r)
Firsts(f, n) == [j \in 1 .. n |-> f[j]]

\* Of points in order of their distances, which are nearest to the query, those up to
\* the first that is out of range are the points in range, unless there are more of
\* them than were looked at.
LEMMA FirstAreRange ==
    ASSUME NEW Every, IsFiniteSet(Every), NEW d, \A p \in Every : d[p] \in Int,
           NEW S \in SUBSET Every, NearestIn(S, Every, d),
           NEW c \in Nat, NEW f, NearFirst(f, d, S, c),
           NEW l \in Nat, l <= c, NEW r \in Int, NEW n \in 0 .. l, FirstOutside(f, d, n, l, r),
           n = l => Cardinality(WithinRange(Every, d, r)) <= l
    PROVE  Range(Firsts(f, n)) = WithinRange(Every, d, r) /\ IsInjective(Firsts(f, n))
<1> DEFINE list == Firsts(f, n)
           R == WithinRange(Every, d, r)
<1>1. /\ f \in [1 .. c -> S]
      /\ \A a, b \in 1 .. c : a < b => d[f[a]] <= d[f[b]] /\ f[a] # f[b]
      /\ \A p \in S : \E a \in 1 .. c : f[a] = p
  BY DEF NearFirst
<1>2. n \in Nat /\ n <= c /\ DOMAIN list = 1 .. n /\ \A j \in 1 .. n : j \in 1 .. c /\ list[j] = f[j]
  BY DEF Firsts
<1>3. R = {p \in Every : d[p] <= r}
  BY DEF WithinRange
<1>4. (\A j \in 1 .. n : d[f[j]] <= r) /\ (n < l => d[f[n + 1]] > r)
  BY DEF FirstOutside
<1>5. \A p \in S, q \in Every \ S : d[p] <= d[q]
  BY DEF NearestIn
<1>6. n = l => Cardinality(R) <= l
  OBVIOUS
<1> SUFFICES Range(list) = R /\ IsInjective(list)
  OBVIOUS
<1> HIDE DEF list, R
<1>7. \A j \in 1 .. n : list[j] \in R
  BY <1>1, <1>2, <1>3, <1>4
<1>8. IsInjective(list)
  <2>1. \A a, b \in 1 .. c : a # b => f[a] # f[b]
    <3>1. \A a, b \in 1 .. c : a # b => a < b \/ b < a
      OBVIOUS
    <3> QED
      BY <1>1, <3>1
  <2> QED
    BY <1>2, <2>1 DEF IsInjective
<1>9. CASE n < l
  <2>1. n + 1 \in 1 .. c /\ f[n + 1] \in S /\ d[f[n + 1]] > r /\ d[f[n + 1]] \in Int
    BY <1>1, <1>2, <1>9, <1>4
  <2>2. ASSUME NEW p \in R PROVE \E j \in 1 .. n : list[j] = p
    <3>1. p \in Every /\ d[p] <= r /\ d[p] \in Int
      BY <2>2, <1>3
    <3>2. p \in S
      <4>1. ASSUME p \notin S PROVE FALSE
        <5>1. d[f[n + 1]] <= d[p]
          BY <1>5, <2>1, <3>1, <4>1
        <5> QED
          BY <2>1, <3>1, <5>1
      <4> QED
        BY <4>1
    <3>3. PICK a \in 1 .. c : f[a] = p
      BY <1>1, <3>2
    <3>4. ~(n + 1 < a)
      <4>1. n + 1 < a => d[f[n + 1]] <= d[f[a]]
        BY <1>1, <2>1
      <4> QED
        BY <2>1, <3>1, <3>3, <4>1
    <3>5. a # n + 1
      BY <2>1, <3>1, <3>3
    <3>6. a \in 1 .. n
      BY <1>2, <3>4, <3>5
    <3> QED
      BY <1>2, <3>3, <3>6
  <2> QED
    BY <1>2, <1>7, <1>8, <2>2 DEF Range
<1>10. CASE n = l
  <2>1. IsFiniteSet(R)
    <3>1. R \in SUBSET Every
      BY <1>3
    <3> QED
      BY <3>1, FS_Subset
  <2>2. list \in Injection(1 .. n, R)
    <3>1. list = [j \in 1 .. n |-> list[j]]
      BY DEF list, Firsts
    <3>2. list \in [1 .. n -> R]
      BY <1>7, <3>1
    <3> QED
      BY <1>8, <3>2 DEF Injection
  <2>3. Cardinality(1 .. n) = n /\ Cardinality(R) \in Nat
    <3>1. 1 \in Int /\ n \in Int
      OBVIOUS
    <3>2. Cardinality(1 .. n) = IF 1 > n THEN 0 ELSE n - 1 + 1
      BY <3>1, FS_Interval
    <3> QED
      BY <1>2, <2>1, <3>2, FS_CardinalityType
  <2>4. Cardinality(1 .. n) <= Cardinality(R)
    BY <2>1, <2>2, FS_Injection
  <2>5. Cardinality(1 .. n) = Cardinality(R)
    BY <1>10, <1>6, <2>3, <2>4
  <2>6. list \in Surjection(1 .. n, R)
    BY <2>1, <2>2, <2>5, FS_Injection
  <2> QED
    BY <1>2, <1>7, <1>8, <2>6 DEF Range, Surjection
<1> QED
  BY <1>2, <1>9, <1>10

\* What RangeIsComplete says of the answer to query q with the list size t of command a.
InRangeOf(a, q) == {p \in DOMAIN a.rangeDist[1] : a.rangeDist[q][p] <= a.range}
Completes(a, t, q, list) ==
    LET big == Largest(a.lvec[t])
    IN  a.exact /\ a.dist_fn # "mips"
            /\ Cardinality(InRangeOf(a, q)) <= big /\ big <= Cardinality(DOMAIN a.rangeDist[1])
        => Range(list) = InRangeOf(a, q) /\ IsInjective(list)

\* The search that range_search stops at.
LEMMA LastSearchCompletes ==
    ASSUME ask \in RangeCommands, queryAt \in Asked, Len(retset) \in Nat,
           NEW l \in Nat \ {0}, Largest(l) = Largest(ask.lvec[listTest]),
           NEW S \in Expanded(l), NEW junk,
           NEW copied, copied = Copied(Storage(InOrder(S)), l, junk),
           Enough(Count(copied), l) \/ 2 * l > MaxListSize
    PROVE  Completes(ask, listTest, queryAt, [j \in 1 .. Count(copied) |-> copied[j].id])
<1> DEFINE big == Largest(l)
           list == [j \in 1 .. Count(copied) |-> copied[j].id]
           R == InRangeOf(ask, queryAt)
           d == ask.rangeDist[queryAt]
           c == Cardinality(S)
           f == InOrder(S)
<1> SUFFICES ASSUME ask.exact, ask.dist_fn # "mips", Cardinality(R) <= big,
                    big <= Cardinality(Indexed)
             PROVE  Range(list) = R /\ IsInjective(list)
  BY DEF Completes, Indexed
<1>1. /\ ask.rangeDist \in Seq([Indexed -> Int]) /\ IsFiniteSet(Indexed) /\ Indexed \subseteq Nat
      /\ ask.range \in Int /\ MaxListSize \in Nat
  BY RangeAssumption DEF Indexed
<1>2. \A p \in Indexed : d[p] \in Int
  <2>1. d \in [Indexed -> Int]
    BY <1>1, ElementOfSeq DEF Asked
  <2> QED
    BY <2>1
<1>3. big \in Nat /\ l <= big
  BY LargestAtLeast
<1>4. S \in SUBSET Indexed /\ Cardinality(Indexed) \in Nat /\ c \in Nat /\ IsFiniteSet(S)
  BY <1>1, FS_Subset, FS_CardinalityType DEF Expanded
<1>5. l <= c
  <2>1. c >= IF l < Cardinality(Indexed) THEN l ELSE Cardinality(Indexed)
    BY DEF Expanded
  <2> HIDE DEF big, c
  <2> QED
    BY <1>3, <1>4, <2>1
<1>6. \A p \in S, q \in Indexed \ S : d[p] <= d[q]
  BY DEF Expanded, Nearest, Dist
<1>7. NearFirst(f, d, S, c)
  <2>1. Ranked(f, d, S)
    BY DEF InOrder, Before, Dist, Preceding, Ranked
  <2>2. S \subseteq Nat /\ \A p \in S : d[p] \in Int
    BY <1>1, <1>2, <1>4
  <2> HIDE DEF f, d
  <2> QED
    BY <1>4, <2>1, <2>2, OrderedBy
<1>8. OfLength(f, c)
  <2> HIDE DEF f, c
  <2> QED
    BY <1>7 DEF OfLength, NearFirst
<1>9. Len(f) = c
  BY <1>4, <1>8, LengthIs
<1> HIDE DEF f, d, c, big, R
<1>10. OfLength(copied, l) /\ \A j \in 1 .. l : copied[j].id = f[j] /\ copied[j].dist = d[f[j]]
  <2> DEFINE m == IF Len(f) < Len(retset) THEN Len(retset) ELSE Len(f)
             storage == Storage(f)
  <2>1. m \in Nat /\ l <= m
    BY <1>4, <1>5, <1>9
  <2>2. storage = [j \in 1 .. m |-> IF j <= Len(f) THEN [id |-> f[j], dist |-> d[f[j]]] ELSE retset[j]]
    BY DEF Storage, Dist, d
  <2> HIDE DEF m, storage
  <2>3. OfLength(storage, m)
    BY <2>2 DEF OfLength
  <2>4. Len(storage) = m
    BY <2>1, <2>3, LengthIs
  <2>5. copied = [j \in 1 .. l |-> IF j <= m THEN storage[j] ELSE junk]
    BY <2>4 DEF Copied, storage, f
  <2>6. ASSUME NEW j \in 1 .. l PROVE copied[j] = [id |-> f[j], dist |-> d[f[j]]]
    <3>1. j <= m /\ j <= Len(f) /\ j \in 1 .. m
      BY <1>4, <1>5, <1>9, <2>1
    <3> QED
      BY <2>2, <2>5, <3>1
  <2>7. OfLength(copied, l)
    BY <2>5 DEF OfLength
  <2>8. ASSUME NEW j \in 1 .. l PROVE copied[j].id = f[j] /\ copied[j].dist = d[f[j]]
    <3>1. copied[j] = [id |-> f[j], dist |-> d[f[j]]]
      BY <2>6
    <3>2. [id |-> f[j], dist |-> d[f[j]]].id = f[j] /\ [id |-> f[j], dist |-> d[f[j]]].dist = d[f[j]]
      OBVIOUS
    <3> QED
      BY <3>1, <3>2, Zenon
  <2> QED
    BY <2>7, <2>8, Zenon
<1>11. \A j \in 1 .. l : d[f[j]] \in Int
  BY <1>2, <1>4, <1>5, <1>7 DEF NearFirst
<1> DEFINE n == Count(copied)
<1>12. n \in 0 .. l /\ (\A j \in 1 .. n : copied[j].dist <= ask.range) /\ (n < l => copied[n + 1].dist > ask.range)
  <2>1. \A j \in 1 .. l : copied[j].dist \in Int
    BY <1>10, <1>11
  <2> QED
    BY <1>1, <1>10, <2>1, CountIs
<1>13. n = l => Cardinality(R) <= l
  <2> SUFFICES ASSUME n = l PROVE big = l
    OBVIOUS
  <2>1. ~Enough(n, l)
    BY DEF Enough
  <2>2. 2 * l > MaxListSize
    BY <2>1
  <2> QED
    BY <2>2, LargestDoubles DEF big
<1> HIDE DEF n
<1>14. FirstOutside(f, d, n, l, ask.range)
  <2>1. n \in Nat /\ (\A j \in 1 .. n : j \in 1 .. l) /\ (n < l => n + 1 \in 1 .. l)
    BY <1>12
  <2> QED
    BY <1>10, <1>12, <2>1 DEF FirstOutside
<1>15. list = Firsts(f, n)
  <2>1. \A j \in 1 .. n : j \in 1 .. l
    BY <1>12
  <2> QED
    BY <1>10, <2>1 DEF n, Firsts
<1>16. R = WithinRange(Indexed, d, ask.range)
  BY DEF R, InRangeOf, Indexed, d, WithinRange
<1>17. /\ IsFiniteSet(Indexed) /\ S \in SUBSET Indexed /\ c \in Nat /\ l \in Nat /\ l <= c
       /\ ask.range \in Int /\ n \in 0 .. l /\ NearestIn(S, Indexed, d)
       /\ n = l => Cardinality(WithinRange(Indexed, d, ask.range)) <= l
  BY <1>1, <1>4, <1>5, <1>6, <1>12, <1>13, <1>16 DEF NearestIn
<1>18. /\ Range(Firsts(f, n)) = WithinRange(Indexed, d, ask.range)
       /\ IsInjective(Firsts(f, n))
  BY <1>2, <1>7, <1>14, <1>17, FirstAreRange
<1> QED
  BY <1>15, <1>16, <1>18

\* The answers of one list size to the first queries, and the inductive invariant: each
\* answer so far is complete, the list at work grew out of the size asked for, and the
\* sizes to come have no answers.
AnsweredUpTo(a, t, answers, num) ==
    OfLength(answers, num) /\ \A q \in 1 .. num : Completes(a, t, q, answers[q])
AnsweredAt(a, t, answers, at, q) ==
    \E num \in Nat : (t = at => num = q - 1) /\ (t > at => num = 0) /\ AnsweredUpTo(a, t, answers, num)

RangeInv ==
    /\ ask \in RangeCommands
    /\ listTest \in Nat /\ queryAt \in Nat \ {0} /\ listSize \in Nat /\ Len(retset) \in Nat
    /\ listTest = 0 => queryAt = 1 /\ listSize = 0
    /\ listSize # 0 => queryAt \in Asked /\ Largest(listSize) = Largest(ask.lvec[listTest])
    /\ DOMAIN lists \subseteq DOMAIN ask.lvec
    /\ \A t \in DOMAIN lists : AnsweredAt(ask, t, lists[t], listTest, queryAt)

LEMMA NoneAnswered ==
    ASSUME NEW a, NEW t, NEW at \in Nat
    PROVE  AnsweredAt(a, t, <<>>, at, 1)
<1>1. OfLength(<<>>, 0)
  BY DEF OfLength
<1>2. AnsweredUpTo(a, t, <<>>, 0)
  BY <1>1 DEF AnsweredUpTo
<1> QED
  BY <1>2 DEF AnsweredAt

LEMMA RangeInvInit ==
    ASSUME RangeInit
    PROVE  RangeInv
<1>1. Len(<<>>) = 0 /\ DOMAIN <<>> = {}
  OBVIOUS
<1> QED
  BY <1>1 DEF RangeInit, RangeInv

\* What the lines of a command are.
LEMMA SizesAre ==
    ASSUME RangeInv
    PROVE  /\ DOMAIN ask.lvec = 1 .. Len(ask.lvec) /\ Len(ask.lvec) \in Nat
           /\ \A t \in DOMAIN ask.lvec : ask.lvec[t] \in Nat
           /\ Asked = 1 .. Len(ask.rangeDist) /\ Len(ask.rangeDist) \in Nat /\ MaxListSize \in Nat
<1>1. ask.lvec \in Seq(Nat) /\ MaxListSize \in Nat
  BY RangeAssumption DEF RangeInv
<1>2. \E T : ask.rangeDist \in Seq(T)
  BY RangeAssumption DEF RangeInv
<1>3. DOMAIN ask.lvec = 1 .. Len(ask.lvec) /\ Len(ask.lvec) \in Nat
  BY <1>1
<1>4. \A t \in DOMAIN ask.lvec : ask.lvec[t] \in Nat
  BY <1>1
<1>5. Asked = 1 .. Len(ask.rangeDist) /\ Len(ask.rangeDist) \in Nat
  BY <1>2 DEF Asked
<1> QED
  BY <1>1, <1>3, <1>4, <1>5

LEMMA StartRangeKeeps ==
    ASSUME RangeInv, StartRange
    PROVE  RangeInv'
<1>1. /\ listTest = 0 /\ queryAt = 1 /\ listSize = 0 /\ queryAt' = queryAt /\ listSize' = listSize
      /\ ask' = ask /\ retset' = retset
  BY DEF StartRange, RangeInv
<1>2. CASE TruthMatches
  <2>1. listTest' = 1 /\ lists' = [t \in DOMAIN ask.lvec |-> <<>>]
    BY <1>2 DEF StartRange
  <2>2. ASSUME NEW t \in DOMAIN lists' PROVE AnsweredAt(ask', t, lists'[t], 1, 1)
    <3>1. lists'[t] = <<>>
      BY <2>1
    <3> QED
      BY <3>1, NoneAnswered
  <2> QED
    BY <1>1, <2>1, <2>2 DEF RangeInv
<1>3. CASE ~TruthMatches
  <2>1. listTest' = listTest /\ lists' = lists
    BY <1>3 DEF StartRange
  <2> QED
    BY <1>1, <2>1 DEF RangeInv, Asked
<1> QED
  BY <1>2, <1>3

LEMMA RangeRecallKeeps ==
    ASSUME RangeInv, RangeRecall
    PROVE  RangeInv'
<1>1. /\ listTest' = listTest + 1 /\ queryAt' = 1 /\ queryAt = Len(ask.rangeDist) + 1
      /\ ask' = ask /\ listSize' = listSize /\ retset' = retset /\ lists' = lists
  BY DEF RangeRecall
<1>2. listSize = 0
  BY <1>1, SizesAre DEF RangeInv
<1>3. ASSUME NEW t \in DOMAIN lists PROVE AnsweredAt(ask, t, lists[t], listTest + 1, 1)
  <2>1. t \in Nat /\ listTest \in Nat
    BY SizesAre DEF RangeInv
  <2>2. PICK num \in Nat : (t > listTest => num = 0) /\ AnsweredUpTo(ask, t, lists[t], num)
    BY DEF RangeInv, AnsweredAt
  <2>3. (t = listTest + 1 => num = 1 - 1) /\ (t > listTest + 1 => num = 0)
    BY <2>1, <2>2
  <2> QED
    BY <2>2, <2>3 DEF AnsweredAt
<1>4. listTest' \in Nat /\ listTest' # 0
  BY <1>1 DEF RangeInv
<1> QED
  BY <1>1, <1>2, <1>3, <1>4 DEF RangeInv

LEMMA SearchOnceKeeps ==
    ASSUME RangeInv, SearchOnce
    PROVE  RangeInv'
<1> DEFINE l == CurrentSize
<1>1. /\ listTest \in DOMAIN ask.lvec /\ queryAt \in Asked /\ ask' = ask /\ listTest' = listTest
      /\ ask \in RangeCommands /\ Len(retset) \in Nat /\ listTest \in Nat /\ queryAt \in Nat \ {0}
  BY DEF SearchOnce, RangeInv
<1>2. l \in Nat /\ Largest(l) = Largest(ask.lvec[listTest])
  BY <1>1, SizesAre DEF CurrentSize, RangeInv
<1>3. listTest # 0 /\ MaxListSize \in Nat
  BY <1>1, SizesAre
<1> DEFINE junk(far) == [id |-> Garbage, dist |-> IF far THEN ask.range + 1 ELSE ask.range]
<1>4. PICK S \in Expanded(l), far \in BOOLEAN :
          LET storage == Storage(InOrder(S))
              copied == Copied(storage, l, junk(far))
              count == Count(copied)
          IN  /\ retset' = storage
              /\ IF Enough(count, l) \/ 2 * l > MaxListSize
                 THEN /\ lists' = [lists EXCEPT ![listTest] =
                              Longer(@, [j \in 1 .. count |-> copied[j].id])]
                      /\ listSize' = 0 /\ queryAt' = queryAt + 1
                 ELSE listSize' = 2 * l /\ UNCHANGED <<lists, queryAt>>
  BY DEF SearchOnce, Longer
<1> DEFINE f == InOrder(S)
           m == IF Len(f) < Len(retset) THEN Len(retset) ELSE Len(f)
           storage == Storage(f)
           copied == Copied(storage, l, junk(far))
           count == Count(copied)
<1>5. Len(retset') \in Nat
  <2>1. Len(f) \in Nat /\ m \in Nat
    <3>1. Cardinality(S) \in Nat
      <4>1. IsFiniteSet(Indexed) /\ S \in SUBSET Indexed
        BY <1>1, RangeAssumption DEF Indexed, Expanded
      <4> QED
        BY <4>1, FS_Subset, FS_CardinalityType
    <3>2. OfLength(f, Cardinality(S))
      <4> DEFINE nth(n) == CHOOSE p \in S : Cardinality({q \in S : Before(q, p)}) = n - 1
                 size == Cardinality(S)
      <4>1. f = [n \in 1 .. size |-> nth(n)]
        BY DEF InOrder
      <4> HIDE DEF f, nth, size
      <4>2. \A n \in 1 .. size : f[n] = nth(n)
        BY <4>1
      <4>3. OfLength(f, size)
        BY <4>1, <4>2 DEF OfLength
      <4> QED
        BY <4>3 DEF size
    <3>3. Len(f) = Cardinality(S)
      BY <3>1, <3>2, LengthIs
    <3> HIDE DEF f
    <3> QED
      BY <1>1, <3>1, <3>3
  <2>2. OfLength(storage, m)
    BY DEF Storage, OfLength
  <2> HIDE DEF storage, m
  <2>3. Len(storage) = m
    BY <2>1, <2>2, LengthIs
  <2> QED
    BY <1>4, <2>1, <2>3 DEF storage
<1>6. l = 0 => ~Enough(count, l)
  <2> SUFFICES ASSUME l = 0 PROVE ~Enough(count, 0)
    OBVIOUS
  <2>1. OfLength(copied, 0)
    BY DEF Copied, OfLength
  <2> HIDE DEF copied
  <2>2. Len(copied) = 0 /\ DOMAIN copied = 1 .. 0
    BY <2>1, LengthIs
  <2>3. Beyond(copied) = {}
    BY <2>2 DEF Beyond
  <2>4. count = 0
    BY <2>2, <2>3 DEF Count
  <2>5. 0 \div 2 = 0
    OBVIOUS
  <2> QED
    BY <2>4, <2>5 DEF Enough
<1> HIDE DEF l, copied, count
<1> DEFINE last == Enough(count, l) \/ 2 * l > MaxListSize
<1>7. CASE ~last
  <2>1. listSize' = 2 * l /\ lists' = lists /\ queryAt' = queryAt
    BY <1>4, <1>7 DEF copied, count
  <2>2. 2 * l <= MaxListSize /\ 2 * l \in Nat
    BY <1>2, <1>3, <1>7
  <2>3. Largest(2 * l) = Largest(l)
    BY <1>2, <2>2, LargestDoubles
  <2> HIDE DEF last
  <2> QED
    BY <1>1, <1>2, <1>3, <1>5, <2>1, <2>2, <2>3 DEF RangeInv, Asked
<1>8. CASE last
  <2> DEFINE e == [j \in 1 .. count |-> copied[j].id]
  <2>1. lists' = [lists EXCEPT ![listTest] = Longer(@, e)] /\ listSize' = 0 /\ queryAt' = queryAt + 1
    BY <1>4, <1>8 DEF copied, count
  <2>2. l # 0
    BY <1>6, <1>3, <1>8
  <2>3. Completes(ask, listTest, queryAt, e)
    BY <1>1, <1>2, <1>8, <2>2, LastSearchCompletes DEF copied, count
  <2> HIDE DEF last, e
  <2>4. ASSUME NEW t \in DOMAIN lists PROVE AnsweredAt(ask, t, lists'[t], listTest, queryAt + 1)
    <3>1. PICK num \in Nat : (t = listTest => num = queryAt - 1) /\ (t > listTest => num = 0)
                             /\ AnsweredUpTo(ask, t, lists[t], num)
      BY DEF RangeInv, AnsweredAt
    <3>2. CASE t = listTest
      <4>1. lists'[t] = Longer(lists[t], e)
        BY <2>1, <3>2
      <4>2. num + 1 = queryAt
        BY <1>1, <3>1, <3>2
      <4>3. AnsweredUpTo(ask, t, Longer(lists[t], e), num + 1)
        <5>1. OfLength(lists[t], num) /\ \A q \in 1 .. num : Completes(ask, t, q, lists[t][q])
          BY <3>1 DEF AnsweredUpTo
        <5>2. /\ OfLength(Longer(lists[t], e), num + 1) /\ Longer(lists[t], e)[num + 1] = e
              /\ \A i \in 1 .. num : Longer(lists[t], e)[i] = lists[t][i]
          BY <5>1, Appended
        <5>3. ASSUME NEW q \in 1 .. num + 1 PROVE Completes(ask, t, q, Longer(lists[t], e)[q])
          <6>1. CASE q = num + 1
            BY <2>3, <3>2, <4>2, <5>2, <6>1
          <6>2. CASE q # num + 1
            <7>1. q \in 1 .. num
              BY <6>2
            <7> QED
              BY <5>1, <5>2, <7>1
          <6> QED
            BY <6>1, <6>2
        <5> QED
          BY <5>2, <5>3 DEF AnsweredUpTo
      <4>4. /\ num + 1 \in Nat /\ num + 1 = (queryAt + 1) - 1
            /\ ~(t > listTest)
        BY <1>1, <3>2, <4>2
      <4> QED
        BY <4>1, <4>3, <4>4 DEF AnsweredAt
    <3>3. CASE t # listTest
      <4>1. lists'[t] = lists[t]
        BY <2>1, <3>3
      <4> QED
        BY <3>1, <3>3, <4>1 DEF AnsweredAt
    <3> QED
      BY <3>2, <3>3
  <2>5. DOMAIN lists' = DOMAIN lists /\ queryAt' \in Nat \ {0}
    BY <1>1, <2>1
  <2> QED
    BY <1>1, <1>3, <1>5, <2>1, <2>4, <2>5 DEF RangeInv
<1> QED
  BY <1>7, <1>8

LEMMA RangeInvKept ==
    ASSUME RangeInv, RangeNext \/ UNCHANGED rangeVars
    PROVE  RangeInv'
<1>1. CASE UNCHANGED <<ask, listTest, queryAt, listSize, retset, lists>>
  BY <1>1 DEF RangeInv, Asked
<1>2. CASE RefuseRange \/ EndRange \/ UNCHANGED rangeVars
  BY <1>1, <1>2 DEF RefuseRange, EndRange, rangeVars
<1> QED
  BY <1>2, StartRangeKeeps, SearchOnceKeeps, RangeRecallKeeps DEF RangeNext

LEMMA RangeInvCompletes ==
    ASSUME RangeInv
    PROVE  RangeIsComplete
<1>1. ASSUME NEW t \in DOMAIN lists, NEW q \in DOMAIN lists[t] PROVE Completes(ask, t, q, lists[t][q])
  <2>1. PICK num \in Nat : AnsweredUpTo(ask, t, lists[t], num)
    BY DEF RangeInv, AnsweredAt
  <2>2. DOMAIN lists[t] = 1 .. num
    BY <2>1, LengthIs DEF AnsweredUpTo
  <2> QED
    BY <2>1, <2>2 DEF AnsweredUpTo
<1>2. \A q : InRangeOf(ask, q) = InRange(q)
  BY DEF InRangeOf, InRange, Indexed
<1> QED
  BY <1>1, <1>2 DEF RangeIsComplete, Completes, Indexed

\* Whatever the points, the queries and the list sizes, and whatever earlier searches of
\* the thread left behind: a search of a range that finds the nearest, over as many points
\* as the largest list that doubling reaches, answers with all points in range, each once,
\* if that list has room for them (PQFlashIndex::range_search).
THEOREM RangeCompletes == ToolsSpec => []RangeIsComplete
<1>1. ToolsInit => RangeInv
  BY RangeInvInit DEF ToolsInit
<1>2. RangeInv /\ [ToolsNext]_toolVars => RangeInv'
  <2>1. [ToolsNext]_toolVars => RangeNext \/ UNCHANGED rangeVars
    BY DEF ToolsNext, Evaluate, SearchRange, Serve, toolVars
  <2> QED
    BY <2>1, RangeInvKept
<1>3. RangeInv => RangeIsComplete
  BY RangeInvCompletes
<1> QED
  BY <1>1, <1>2, <1>3, PTL DEF ToolsSpec
=============================================================================
