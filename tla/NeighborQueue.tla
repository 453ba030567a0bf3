--------------------------- MODULE NeighborQueue ---------------------------
(* The queue of candidates of a search, NeighborPriorityQueue                *)
(* (include/neighbor.h), that searches of the memory index, the build and    *)
(* the disk index share.  A distance is the square of the Euclidean one, as  *)
(* Metric::L2 has it.                                                        *)
EXTENDS Integers, Sequences, FiniteSets, FiniteSetsExt, SequencesExt

Square(z) == z * z
Dist(p, q) == Square(p[1] - q[1]) + Square(p[2] - q[2])

(***************************************************************************)
(* The candidate queue.                                                     *)
(***************************************************************************)
Less(m, n) == m.dist < n.dist \/ (m.dist = n.dist /\ m.id < n.id)
EmptyQueue(capacity) == [data |-> <<>>, capacity |-> capacity, cur |-> 0]
Met == -1      \* the binary search came across the id

(* A round of the binary search of insert, which is done when lo = hi.  It   *)
(* compares the id only with the entries it happens to visit.                *)
Halved(data, n, z) ==
    LET mid == (z.lo + z.hi) \div 2
    IN  CASE z.lo >= z.hi -> z
          [] z.lo < z.hi /\ Less(n, data[mid + 1]) -> [z EXCEPT !.hi = mid]
          [] z.lo < z.hi /\ ~Less(n, data[mid + 1]) ->
               IF data[mid + 1].id = n.id THEN [lo |-> Met, hi |-> Met] ELSE [z EXCEPT !.lo = mid + 1]
Position(q, n) ==
    LET z[i \in 0 .. Len(q.data)] ==
            IF i = 0 THEN [lo |-> 0, hi |-> Len(q.data)] ELSE Halved(q.data, n, z[i - 1])
    IN  z[Len(q.data)].lo

(* A wrong variant: a full queue takes nothing more.                         *)
FullBelowAny(q, n) == Len(q.data) = q.capacity
FullBelow(q, n) == Len(q.data) = q.capacity /\ Less(q.data[Len(q.data)], n)

(* A wrong variant: a node that comes in before the cursor is not expanded.  *)
CursorKept(q, lo) == q.cur
CursorAfter(q, lo) == Min({lo, q.cur})
QueueInsert(q, n) ==
    LET lo == Position(q, n)
    IN  IF FullBelow(q, n) \/ lo = Met
        THEN q
        ELSE LET longer == InsertAt(q.data, lo + 1, n)
             IN  [q EXCEPT !.data = SubSeq(longer, 1, Min({Len(longer), q.capacity})),
                           !.cur = CursorAfter(q, lo)]

(* closest_unexpanded: marks the entry at the cursor and moves the cursor.   *)
HasUnexpanded(q) == q.cur < Len(q.data)
ClosestUnexpanded(q) == q.data[q.cur + 1]
(* A wrong variant: the entry is not marked.                                 *)
AdvanceUnmarked(q) ==
    LET open == {i \in q.cur .. Len(q.data) - 1 : ~q.data[i + 1].expanded}
    IN  [q EXCEPT !.cur = Min(open \cup {Len(q.data)})]
Advance(q) ==
    LET data == [q.data EXCEPT ![q.cur + 1].expanded = TRUE]
        open == {i \in (q.cur + 1) .. Len(data) - 1 : ~data[i + 1].expanded}
    IN  [q EXCEPT !.data = data, !.cur = Min(open \cup {Len(data)})]

(* Rows, where coord puts them, with their distance from a place.            *)
AsNeighbor(coord, place, id) == [id |-> id, dist |-> Dist(place, coord[id]), expanded |-> FALSE]
AsPool(coord, place, ids) == [i \in DOMAIN ids |-> AsNeighbor(coord, place, ids[i])]
Offer(q, coord, place, ids) == FoldLeft(QueueInsert, q, AsPool(coord, place, ids))
=============================================================================
