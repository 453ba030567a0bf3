---------------------------- MODULE RangeSearch ----------------------------
(* range_search_disk_index: all points within a distance of a query          *)
(* (src/apps/range_search_disk_index.cpp, PQFlashIndex::range_search).  A    *)
(* search with a list of some size is repeated with twice the size until     *)
(* less than half of what it returns is in range, and the recall of the      *)
(* results is taken over sets of any size.                                   *)
EXTENDS Integers, Sequences, FiniteSets, SequencesExt, Functions

CONSTANTS
    RangeCommands,  \* command lines: data_type, dist_fn, per query the distances of the points
                    \* (rangeDist), range, lvec, truth (load_range_truthset: a set per query, or
                    \* Absent), complete (no argument is missing), and whether searches find
                    \* the nearest (exact)
    MaxListSize,    \* max_list_size
    Absent,         \* no file, no exit code yet
    Garbage         \* memory nobody wrote

\* All queries are asked of one index.
ASSUME RangeAssumption ==
    /\ MaxListSize \in Nat
    /\ \A c \in RangeCommands :
          LET points == DOMAIN c.rangeDist[1]
          IN  /\ c.rangeDist \in Seq([points -> Int]) /\ IsFiniteSet(points) /\ points \subseteq Nat
              /\ c.range \in Int /\ c.lvec \in Seq(Nat)

VARIABLES
    ask,            \* the command line
    listTest,       \* test_id
    queryAt,        \* i, the query of this thread's loop
    listSize,       \* l_search, 0 between two queries
    retset,         \* what the storage of full_retset holds, valid or left over
    lists,          \* query_result_ids per list size
    recallPairs,    \* of calculate_range_search_recall: true results and positives per query
    returned        \* exit code

rangeVars == <<ask, listTest, queryAt, listSize, retset, lists, recallPairs, returned>>

Asked == DOMAIN ask.rangeDist
Indexed == DOMAIN ask.rangeDist[1]

RangeInit ==
    /\ ask \in RangeCommands
    /\ listTest = 0 /\ queryAt = 1 /\ listSize = 0 /\ retset = <<>>
    /\ lists = <<>> /\ recallPairs = <<>> /\ returned = Absent

(***************************************************************************)
(* main, and the start of search_disk_index: here another number of queries *)
(* than the truth's is an error.                                            *)
(***************************************************************************)
RangeAccepted ==
    /\ ask.complete
    /\ ask.data_type \in {"float", "int8", "uint8"}
    /\ ask.dist_fn \in {"l2", "mips", "cosine"}
    /\ ask.dist_fn = "mips" => ask.data_type = "float"
TruthMatches == ask.truth = Absent \/ Len(ask.truth) = Len(ask.rangeDist)

RefuseRange ==
    /\ listTest = 0 /\ returned = Absent /\ ~RangeAccepted
    /\ returned' = -1
    /\ UNCHANGED <<ask, listTest, queryAt, listSize, retset, lists, recallPairs>>

StartRange ==
    /\ listTest = 0 /\ returned = Absent /\ RangeAccepted
    /\ IF TruthMatches
       THEN listTest' = 1 /\ lists' = [t \in DOMAIN ask.lvec |-> <<>>] /\ UNCHANGED returned
       ELSE returned' = -1 /\ UNCHANGED <<listTest, lists>>
    /\ UNCHANGED <<ask, queryAt, listSize, retset, recallPairs>>

(***************************************************************************)
(* cached_beam_search with k = l: it expands l nodes or all it can reach,   *)
(* and perhaps more, and copies the l nearest.  Where it expanded fewer, the *)
(* storage of the list has what an earlier search of the thread left in it. *)
(***************************************************************************)
Dist(p) == ask.rangeDist[queryAt][p]
Flipped(d) == IF ask.dist_fn = "mips" THEN -d ELSE d

\* Neighbors are ordered by distance, equal ones by number.
Before(p, q) == Dist(p) < Dist(q) \/ (Dist(p) = Dist(q) /\ p < q)
InOrder(S) ==
    [n \in 1 .. Cardinality(S) |-> CHOOSE p \in S : Cardinality({q \in S : Before(q, p)}) = n - 1]
Nearest(S) == \A p \in S, q \in Indexed \ S : Dist(p) <= Dist(q)
Expanded(l) ==
    {S \in SUBSET Indexed :
        /\ Cardinality(S) >= IF l < Cardinality(Indexed) THEN l ELSE Cardinality(Indexed)
        /\ ask.exact => Nearest(S)}

Storage(list) ==
    [j \in 1 .. (IF Len(list) < Len(retset) THEN Len(retset) ELSE Len(list)) |->
        IF j <= Len(list) THEN [id |-> list[j], dist |-> Dist(list[j])] ELSE retset[j]]

(* The copy of the first l entries; memory that nobody wrote reads as a      *)
(* point with any distance.                                                  *)
Copied(storage, l, junk) ==
    [j \in 1 .. l |-> IF j <= Len(storage) THEN storage[j] ELSE junk]

(***************************************************************************)
(* range_search, a search at a time.                                        *)
(***************************************************************************)
Beyond(copied) == {j \in DOMAIN copied : Flipped(copied[j].dist) > ask.range}
Count(copied) ==
    IF Beyond(copied) = {} THEN Len(copied)
    ELSE (CHOOSE j \in Beyond(copied) : \A x \in Beyond(copied) : j <= x) - 1

(* A wrong variant: as long as all of the list is in range.                  *)
EnoughAll(count, l) == count <= l
Enough(count, l) == count < l \div 2

CurrentSize == IF listSize = 0 THEN ask.lvec[listTest] ELSE listSize

SearchOnce ==
    /\ listTest \in DOMAIN ask.lvec /\ queryAt \in Asked /\ returned = Absent
    /\ \E S \in Expanded(CurrentSize), far \in BOOLEAN :
          LET l == CurrentSize
              storage == Storage(InOrder(S))
              junk == [id |-> Garbage, dist |-> IF far THEN ask.range + 1 ELSE ask.range]
              copied == Copied(storage, l, junk)
              count == Count(copied)
          IN  /\ retset' = storage
              /\ IF Enough(count, l) \/ 2 * l > MaxListSize
                 THEN /\ lists' = [lists EXCEPT ![listTest] =
                              Append(@, [j \in 1 .. count |-> copied[j].id])]
                      /\ listSize' = 0 /\ queryAt' = queryAt + 1
                 ELSE listSize' = 2 * l /\ UNCHANGED <<lists, queryAt>>
    /\ UNCHANGED <<ask, listTest, recallPairs, returned>>

(***************************************************************************)
(* After the queries the recall; after the list sizes the end.              *)
(***************************************************************************)
RangeHits(results) ==
    [q \in Asked |-> [hits |-> Cardinality(ask.truth[q] \cap Range(results[q])),
                      positives |-> Cardinality(ask.truth[q])]]

RangeRecall ==
    /\ listTest \in DOMAIN ask.lvec /\ queryAt = Len(ask.rangeDist) + 1
    /\ recallPairs' = Append(recallPairs,
                             IF ask.truth = Absent THEN <<>> ELSE RangeHits(lists[listTest]))
    /\ listTest' = listTest + 1 /\ queryAt' = 1
    /\ UNCHANGED <<ask, listSize, retset, lists, returned>>

EndRange ==
    /\ listTest = Len(ask.lvec) + 1 /\ returned = Absent
    /\ returned' = 0
    /\ UNCHANGED <<ask, listTest, queryAt, listSize, retset, lists, recallPairs>>

RangeNext == RefuseRange \/ StartRange \/ SearchOnce \/ RangeRecall \/ EndRange

(***************************************************************************)
(* Correctness                                                              *)
(***************************************************************************)
InRange(q) == {p \in Indexed : ask.rangeDist[q][p] <= ask.range}
\* The largest list that doubling reaches from the size asked for.
Largest(l) ==
    LET grown[n \in Nat] == IF 2 * n > MaxListSize THEN n ELSE grown[2 * n] IN grown[l]

(* range_search "returns results of all neighbors within distance of range"  *)
(* (pq_flash_index.cpp:1710) when its searches find the nearest, there are   *)
(* as many points as the largest list, and that list has room for them: the  *)
(* doubling stops neither before the range is exhausted nor after the list   *)
(* is.  The recall of such a result is full.                                 *)
RangeIsComplete ==
    ask.exact /\ ask.dist_fn # "mips" =>
        \A t \in DOMAIN lists : \A q \in DOMAIN lists[t] :
            LET big == Largest(ask.lvec[t])
            IN  Cardinality(InRange(q)) <= big /\ big <= Cardinality(Indexed) =>
                  /\ Range(lists[t][q]) = InRange(q)
                  /\ IsInjective(lists[t][q])
=============================================================================
