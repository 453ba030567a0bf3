-------------------------- MODULE CandidateSearch --------------------------
(* The pure algorithms of a graph search and of the pruning of a list:       *)
(* detect_common_filters, calculate_medoid, occlude_list and prune_neighbors *)
(* (src/index.cpp).  A layout says where the rows of the data store are and  *)
(* what labels they have.  Ratios of distances are kept in hundredths,       *)
(* rounded up: such a ratio exceeds an alpha of whole hundredths exactly     *)
(* when the real one does.                                                   *)
EXTENDS NeighborQueue

CONSTANTS
    MaxDegree,      \* _indexingRange: the degree lists are pruned to
    SlackDegree,    \* GRAPH_SLACK_FACTOR * _indexingRange, rounded down
    MaxC,           \* _indexingMaxC: how much of a pool is looked at
    Rounds,         \* the powers of 1.2 from 1 on, in hundredths
    Universal       \* _universal_label

ASSUME DegreeAssumption == MaxDegree \in Nat \ {0} /\ SlackDegree \in Nat /\ MaxDegree <= SlackDegree

Infinite == 1000000    \* float::max: no layout has so large a ratio

(***************************************************************************)
(* Labels.  A row's labels are a sequence, in the order of the code.        *)
(***************************************************************************)
(* The walk of detect_common_filters along two sequences it takes as sorted. *)
CommonLabel(s, t) ==
    LET from[i \in 1 .. Len(s) + 1, j \in 1 .. Len(t) + 1] ==
            CASE i > Len(s) \/ j > Len(t) -> FALSE
              [] i <= Len(s) /\ j <= Len(t) ->
                   CASE s[i] < t[j] -> from[i + 1, j]
                     [] t[j] < s[i] -> from[i, j + 1]
                     [] s[i] = t[j] -> TRUE
    IN  from[1, 1]

DetectCommonFilters(rowLabels, searching, incoming) ==
    \/ CommonLabel(incoming, rowLabels)
    \/ Contains(rowLabels, Universal)
    \/ ~searching /\ Contains(incoming, Universal)

(***************************************************************************)
(* The entry point: the first row closest to the centroid of all rows, the  *)
(* ones that hold no point included.                                        *)
(***************************************************************************)
CalculateMedoid(coord) ==
    LET rows == DOMAIN coord
        n == Cardinality(rows)
        total(k) == FoldFunction(+, 0, [r \in rows |-> coord[r][k]])
        off(r) == Square(n * coord[r][1] - total(1)) + Square(n * coord[r][2] - total(2))
        nearest == {r \in rows : \A s \in rows : off(r) <= off(s)}
    IN  Min(nearest)

(***************************************************************************)
(* Pruning.                                                                 *)
(***************************************************************************)
Ratio(far, near) == IF near = 0 THEN Infinite ELSE (100 * far + near - 1) \div near
Ids(pool) == [i \in DOMAIN pool |-> pool[i].id]

(* In a filtered index b may only be dropped for an a with all its labels.   *)
(* A wrong variant: a must have no label that b lacks.                       *)
PruneAllowedReversed(labels, filtered, a, b) ==
    filtered => ToSet(labels[a]) \subseteq ToSet(labels[b])
PruneAllowed(labels, filtered, a, b) ==
    filtered => ToSet(labels[b]) \subseteq ToSet(labels[a])

(* One pool entry i of one round of occlude_list: it is taken unless it is   *)
(* occluded, and occludes what comes after it.                               *)
Take(lay, loc, pool, deleted, alpha, round, degree, st, i) ==
    LET id == pool[i].id
        occlude(t) == Max({st.factor[t], Ratio(pool[t].dist, Dist(lay.coord[id], lay.coord[pool[t].id]))})
    IN  IF Len(st.result) >= degree \/ st.factor[i] > round
        THEN st
        ELSE [result |-> IF id \in deleted \cup {loc} THEN st.result ELSE Append(st.result, id),
              factor |-> [t \in DOMAIN pool |->
                              CASE t < i -> st.factor[t]
                                [] t = i -> Infinite
                                [] t > i -> IF \/ st.factor[t] > alpha
                                               \/ ~PruneAllowed(lay.labels, lay.filtered, id, pool[t].id)
                                            THEN st.factor[t] ELSE occlude(t)]]

OccludeList(lay, loc, pool, deleted, alpha, degree) ==
    LET start == [result |-> <<>>, factor |-> [i \in DOMAIN pool |-> 0]]
        pass(st, round) ==
            FoldLeft(LAMBDA acc, i : Take(lay, loc, pool, deleted, alpha, round, degree, acc, i),
                     st, [i \in DOMAIN pool |-> i])
    IN  FoldLeft(pass, start, SelectSeq(Rounds, LAMBDA a : a <= alpha)).result

Truncated(pool) == SubSeq(pool, 1, Min({Len(pool), MaxC}))
Filled(list, pool, loc, degree) ==
    LET spare == SelectSeq(Ids(pool), LAMBDA id : id # loc /\ ~Contains(list, id))
    IN  list \o SubSeq(spare, 1, Min({Len(spare), degree - Len(list)}))

(* The list prune_neighbors makes of a pool for the row loc.                 *)
PruneNeighbors(lay, loc, pool, alpha) ==
    LET seen == Truncated(SortSeq(pool, Less))
        list == OccludeList(lay, loc, seen, {}, alpha, MaxDegree)
    IN  IF lay.saturate /\ alpha > 100 THEN Filled(list, seen, loc, MaxDegree) ELSE list
=============================================================================
