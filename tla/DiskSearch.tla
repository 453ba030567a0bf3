----------------------------- MODULE DiskSearch -----------------------------
(* From the graph of a disk index to answers: create_disk_layout puts nodes  *)
(* into sectors (src/disk_utils.cpp), PQFlashIndex reads them back, caches   *)
(* the first levels of the graph and searches with beams of reads            *)
(* (src/pq_flash_index.cpp).  The vectors in memory are the lossy ones of     *)
(* product quantization; those on disk are whole, or lossy with the whole    *)
(* ones appended for reordering.                                             *)
EXTENDS ShardMerge

CONSTANTS
    NodesPerSector,     \* what SECTOR_LEN / max_node_len may be; 0 for long nodes
    SectorsPerNode,     \* DIV_ROUND_UP(max_node_len, SECTOR_LEN) when it is 0
    VectorsPerSector,   \* of the data for reordering, which only lossy vectors on disk have; else 0
    ReorderMultiplier,  \* FULL_PRECISION_REORDER_MULTIPLIER
    MaxSectorReads,     \* MAX_N_SECTOR_READS, the sectors of the scratch
    CacheCap,           \* the tenth of the rows that may be cached
    CacheAsked,         \* num_nodes_to_cache
    Quantized(_),       \* what product quantization keeps of a place
    Searches,           \* calls of cached_beam_search: place, label (none: {}),
                        \* k, l, beam, limit, reorder
    SampleL,            \* l_search and
    SampleBeam          \* beamwidth of the warm-up searches

(* Nodes share sectors, or each has sectors of its own.                      *)
ASSUME LayoutAssumption ==
    /\ NodesPerSector \subseteq Nat /\ SectorsPerNode \in Nat \ {0}
    /\ VectorsPerSector \subseteq Nat

(* A queue has room for a node: insert compares with its last entry.  Places *)
(* stay places when they are quantized.                                      *)
ASSUME SearchAssumption ==
    /\ \A c \in Searches : c.place \in Int \X Int /\ c.l \in Nat \ {0} /\ c.beam \in Nat
    /\ SampleL \in Nat \ {0} /\ SampleBeam \in Nat
    /\ \A a \in Setups : /\ a.warm \in Seq(Int \X Int)
                         /\ \A i \in 1 .. Len(a.coord) : Quantized(a.coord[i]) \in Int \X Int

VARIABLES
    perSector,  \* _nnodes_per_sector, from the layout on
    vectors,    \* _nvecs_per_sector, 0 when the index has no such data
    file,       \* the sectors of the disk index file
    flat,       \* _pts_to_labels with the offset and count of each row
    cache,      \* _nhood_cache and _coord_cache: what is known of cached rows
    sampling,   \* the warm-up queries left and how many rows to cache, <<>> when there is no warm-up
    visits,     \* _node_visit_counter
    call,       \* the search that runs, <<>> when none does
    queue,      \* retset
    visited,    \* visited
    expanded,   \* full_retset
    ios,        \* num_ios
    calls,      \* how many searches there were
    memory,     \* what full_retset's storage still holds of earlier searches
    answer      \* the indices the last search gave

warmVars == <<sampling, visits>>
searchVars == <<call, queue, visited, expanded, ios, calls, memory, answer>>
diskVars == <<perSector, vectors, file, flat, cache>>
vars == <<buildVars, diskVars, warmVars, searchVars>>

NoCall == <<>>
NoWarmUp == <<>>
NoLabels == [labels |-> <<>>, offsets |-> <<>>, counts |-> <<>>]
Unset == -1     \* storage of full_retset never written

Init ==
    /\ BuildInit
    /\ perSector = 0 /\ vectors = 0 /\ file = <<>> /\ flat = NoLabels /\ cache = <<>>
    /\ sampling = NoWarmUp /\ visits = <<>>
    /\ call = NoCall /\ queue = EmptyQueue(0) /\ visited = {} /\ expanded = <<>>
    /\ ios = 0 /\ calls = 0 /\ memory = <<>> /\ answer = <<>>

(***************************************************************************)
(* The layout.  Sector 0 holds the metadata.                                *)
(***************************************************************************)
CeilDiv(a, b) == (a + b - 1) \div b
PlaceOnDisk(perVector, r) == IF perVector > 0 THEN Quantized(rows[r].coord) ELSE rows[r].coord
NodeRecord(perVector, r) == [coord |-> PlaceOnDisk(perVector, r), nhood |-> index.lists[r]]
SectorsOfNode(per) == IF per > 0 THEN 1 ELSE SectorsPerNode

(* A wrong variant: a last sector that is not full is not counted.           *)
NSectorsFloor(per) == IF per > 0 THEN N \div per ELSE N * SectorsPerNode
NSectors(per) == IF per > 0 THEN CeilDiv(N, per) ELSE N * SectorsPerNode

Sector(per, perVector, s) ==
    IF per > 0
    THEN LET first == (s - 1) * per
         IN  [i \in 1 .. Min({per, N - first}) |-> NodeRecord(perVector, first + i - 1)]
    ELSE IF (s - 1) % SectorsPerNode = 0 THEN <<NodeRecord(perVector, (s - 1) \div SectorsPerNode)>> ELSE <<>>

(* The loop over a sector of vectors runs to the vectors per sector even in  *)
(* the last one, and a read past the end of the file throws.                 *)
VectorsRunOut(perVector) == perVector > 0 /\ CeilDiv(N, perVector) * Min({perVector, N}) > N

CreateDiskLayout ==
    /\ stage = "indexed"
    /\ \E per \in NodesPerSector, perVector \in VectorsPerSector :
          IF index.size # SizeOf(index.lists) \/ VectorsRunOut(perVector)
          THEN stage' = "threw" /\ UNCHANGED <<perSector, vectors, file>>
          ELSE /\ stage' = "laid out"
               /\ perSector' = per /\ vectors' = perVector
               /\ file' = [s \in 1 .. NSectors(per) |-> Sector(per, perVector, s)]
    /\ index' = [None EXCEPT !.entry = index.entry]
    /\ UNCHANGED <<ask, rows, parts, idmaps, shards, merge, medoids, starts, flat, cache, warmVars, searchVars>>

(***************************************************************************)
(* parse_label_file, when the index is loaded: the labels of all rows one    *)
(* after the other, and where those of each row are.  get_label_file_metadata *)
(* counts them first, point_has_label looks in a row's stretch.              *)
(***************************************************************************)
LabelsOfRow == [i \in 1 .. N |-> rows[i - 1].labels]
Counts == [i \in 1 .. N |-> Len(LabelsOfRow[i])]
Offsets == [i \in 1 .. N |-> FoldLeft(+, 0, SubSeq(Counts, 1, i - 1))]
PointHasLabel(r, label) ==
    \E i \in 1 .. flat.counts[r + 1] : flat.labels[flat.offsets[r + 1] + i] = label

Open ==
    /\ stage = "laid out"
    /\ flat' = IF DOMAIN starts = {} THEN NoLabels
               ELSE [labels |-> FlattenSeq(LabelsOfRow), offsets |-> Offsets, counts |-> Counts]
    /\ stage' = "open"
    /\ UNCHANGED <<ask, rows, parts, idmaps, shards, merge, index, medoids, starts,
                   perSector, vectors, file, cache, warmVars, searchVars>>

(***************************************************************************)
(* Reading nodes back.                                                      *)
(***************************************************************************)
NodeSector(r) == 1 + (IF perSector > 0 THEN r \div perSector ELSE r * SectorsPerNode)
OffsetToNode(sector, r) == sector[IF perSector = 0 THEN 1 ELSE (r % perSector) + 1]
ReadNode(r) == OffsetToNode(file[NodeSector(r)], r)

(* The medoids a search without a label chooses from: the file's, or the     *)
(* entry in the metadata of the index.                                       *)
Medoids == IF medoids = <<>> THEN <<index.entry>> ELSE medoids

(***************************************************************************)
(* The cache: cache_bfs_levels and load_cache_list.                         *)
(***************************************************************************)
ToCache(asked) == IF asked > CacheCap THEN Max({CacheCap, 1}) ELSE asked
Upto(num, held, ids) ==
    FoldLeft(LAMBDA acc, r : IF Cardinality(acc \cup held) >= num THEN acc ELSE acc \cup ({r} \ held), {}, ids)

FirstLevel(num) ==
    LET ofMedoids == Upto(num, {}, Medoids)
        labels == SetToSortSeq(DOMAIN starts, <)
    IN  ofMedoids \cup Upto(num, ofMedoids, FlattenSeq([i \in DOMAIN labels |-> starts[labels[i]]]))

NextLevel(num, level) ==
    LET done == level.done \cup level.now
        order == RankOrder(level.now \ level.done)
    IN  [done |-> done,
         now |-> Upto(num, done, FlattenSeq([i \in DOMAIN order |-> ReadNode(order[i]).nhood]))]

Levels(num) ==
    LET turn(level, i) ==
            IF Cardinality(level.done) + Cardinality(level.now) < num /\ level.now # {}
            THEN NextLevel(num, level) ELSE level
    IN  FoldLeft(turn, [done |-> {}, now |-> FirstLevel(num)], [i \in 1 .. N + 1 |-> i])

LoadCache ==
    /\ stage = "open"
    /\ \E asked \in CacheAsked :
          LET level == Levels(ToCache(asked))
          IN  cache' = [r \in level.done \cup level.now |-> ReadNode(r)]
    /\ stage' = "serving"
    /\ UNCHANGED <<ask, rows, parts, idmaps, shards, merge, index, medoids, starts,
                   perSector, vectors, file, flat, warmVars, searchVars>>

(***************************************************************************)
(* The other way: generate_cache_list_from_sample_queries searches for the   *)
(* warm-up queries, counts the rows it expands, and takes those counted most. *)
(* Its parallel searches share the counters alone, which are atomic.         *)
(***************************************************************************)
WarmUp ==
    /\ stage = "open"
    /\ \E asked \in CacheAsked :
          IF asked >= N \/ ask.warm = <<>>
          THEN /\ cache' = [r \in IF asked >= N THEN DOMAIN rows ELSE {} |-> ReadNode(r)]
               /\ stage' = "serving"
               /\ UNCHANGED warmVars
          ELSE /\ stage' = "warm-up"
               /\ sampling' = [left |-> ask.warm, asked |-> asked]
               /\ visits' = [r \in DOMAIN rows |-> 0]
               /\ UNCHANGED cache
    /\ UNCHANGED <<ask, rows, parts, idmaps, shards, merge, index, medoids, starts,
                   perSector, vectors, file, flat, searchVars>>

(* As many rows as asked for, none of which was visited less than one left.  *)
MostVisited(num) ==
    {s \in kSubset(num, DOMAIN rows) : \A r \in s : \A o \in DOMAIN rows \ s : visits[o] <= visits[r]}
EndWarmUp ==
    /\ stage = "warm-up" /\ sampling.left = <<>>
    /\ \E held \in MostVisited(sampling.asked) : cache' = [r \in held |-> ReadNode(r)]
    /\ sampling' = NoWarmUp /\ visits' = <<>>
    /\ stage' = "serving"
    /\ UNCHANGED <<ask, rows, parts, idmaps, shards, merge, index, medoids, starts,
                   perSector, vectors, file, flat, searchVars>>

(***************************************************************************)
(* cached_beam_search.                                                      *)
(***************************************************************************)
Places == [r \in DOMAIN rows |-> Quantized(rows[r].coord)]
IsDummy(r) == rows[r].real # r
Admitted(c, r) == IF c.label = {} THEN ~IsDummy(r) ELSE \E l \in c.label \cup {Universal} : PointHasLabel(r, l)

(* Among the medoids the closest centroid wins, which k-means may put        *)
(* anywhere; among the starts of a label the closest by quantized distance.  *)
StartsFor(c) ==
    IF c.label = {} THEN ToSet(Medoids)
    ELSE LET ids == UNION {ToSet(starts[l]) : l \in c.label \cap DOMAIN starts}
             off(r) == Dist(c.place, Places[r])
         IN  {r \in ids : \A other \in ids : off(r) <= off(other)}

Candidate(c, r) == AsNeighbor(Places, c.place, r)
Begin(c) ==
    /\ c.beam <= SectorsOfNode(perSector) * MaxSectorReads
    /\ c.label \subseteq DOMAIN starts
    /\ \E r \in StartsFor(c) :
          /\ queue' = QueueInsert(EmptyQueue(c.l), Candidate(c, r))
          /\ visited' = {r}
    /\ call' = c
    /\ stage' = "searching"
    /\ expanded' = <<>> /\ ios' = 0 /\ answer' = <<>>
    /\ UNCHANGED <<ask, rows, parts, idmaps, shards, merge, index, medoids, starts, diskVars, visits, memory>>

Call(c) ==
    /\ stage = "serving"
    /\ calls' = calls + 1 /\ UNCHANGED sampling
    /\ Begin(c)

(* A warm-up query has the label of a place drawn in the labels of all rows, *)
(* when the index has labels.                                                *)
RandomLabels == IF DOMAIN starts = {} THEN {{}} ELSE {{label} : label \in ToSet(flat.labels)}
WarmUpCall ==
    /\ stage = "warm-up" /\ sampling.left # <<>>
    /\ sampling' = [sampling EXCEPT !.left = Tail(@)] /\ UNCHANGED calls
    /\ \E label \in RandomLabels :
          Begin([place |-> Head(sampling.left), label |-> label, k |-> 1, l |-> SampleL, beam |-> SampleBeam,
                 limit |-> 1000, reorder |-> FALSE])

(* The beam: up to the width of it of the closest rows not yet expanded.     *)
Grown(b) ==
    IF HasUnexpanded(b.queue)
    THEN [queue |-> Advance(b.queue), ids |-> Append(b.ids, ClosestUnexpanded(b.queue).id)]
    ELSE b
Beam ==
    LET taken[i \in 0 .. call.beam] ==
            IF i = 0 THEN [queue |-> queue, ids |-> <<>>] ELSE Grown(taken[i - 1])
    IN  taken[call.beam]

(* Those that are cached are expanded first, while the others are read.      *)
CachedIn(ids) == {i \in DOMAIN ids : ids[i] \in DOMAIN cache}
ToRead(ids) == Picked(ids, DOMAIN ids \ CachedIn(ids))
OrderOfBeam(ids) == Picked(ids, CachedIn(ids)) \o ToRead(ids)
Known(r) == IF r \in DOMAIN cache THEN cache[r] ELSE ReadNode(r)

(* What was not visited is, and is offered if admitted.                      *)
Looked(a, id) ==
    [visited |-> a.visited \cup {id},
     queue |-> IF id \in a.visited \/ ~Admitted(call, id) THEN a.queue
               ELSE QueueInsert(a.queue, Candidate(call, id))]
LookedOver(a, list) ==
    LET look[i \in 0 .. Len(list)] == IF i = 0 THEN a ELSE Looked(look[i - 1], list[i])
    IN  look[Len(list)]
AfterAll(a, order) ==
    LET over[i \in 0 .. Len(order)] ==
            IF i = 0 THEN a ELSE LookedOver(over[i - 1], Known(order[i]).nhood)
    IN  over[Len(order)]

Hop ==
    /\ stage = "searching" /\ HasUnexpanded(queue) /\ ios < call.limit
    /\ LET beam == Beam
           order == OrderOfBeam(beam.ids)
           after == AfterAll([visited |-> visited, queue |-> beam.queue], order)
           full(r) == [id |-> r, dist |-> Dist(call.place, Known(r).coord)]
       IN  /\ visits' = [r \in DOMAIN visits |-> visits[r] + (IF Contains(beam.ids, r) THEN 1 ELSE 0)]
           /\ queue' = after.queue /\ visited' = after.visited
           /\ expanded' = expanded \o [i \in DOMAIN order |-> full(order[i])]
           /\ ios' = ios + Len(ToRead(beam.ids))
    /\ UNCHANGED <<buildVars, diskVars, sampling, call, calls, memory, answer>>

(* The answers are the first k of the storage of full_retset, sorted as far  *)
(* as this search filled it, and sorted again by whole vectors when that is  *)
(* asked for, after what is past the multiplier was cut.  A dummy is         *)
(* answered as its point.                                                    *)
Over(new, old) == new \o SubSeq(old, Len(new) + 1, Len(old))
Sorted == SortSeq(expanded, Less)
Kept ==
    IF ~call.reorder THEN Sorted
    ELSE LET best == SubSeq(Sorted, 1, Min({Len(expanded), ReorderMultiplier * call.k}))
         IN  SortSeq([i \in DOMAIN best |-> [best[i] EXCEPT !.dist = Dist(call.place, rows[best[i].id].coord)]], Less)
IdsIn(list) == [i \in DOMAIN list |-> list[i].id]
Real(r) == IF r = Unset \/ r \notin DOMAIN rows THEN Unset ELSE rows[r].real
(* A wrong variant: the rows are answered in the order they were expanded.   *)
AnswersUnsorted(mem) == [i \in 1 .. call.k |-> Real(IF i <= Len(expanded) THEN expanded[i].id ELSE Unset)]
Answers(mem) == [i \in 1 .. call.k |-> Real(IF i <= Len(mem) THEN mem[i] ELSE Unset)]

Ended == stage = "searching" /\ ~(HasUnexpanded(queue) /\ ios < call.limit)
Leaves == Over(IdsIn(Kept), Over(IdsIn(Sorted), memory))
Finish ==
    /\ Ended /\ sampling = NoWarmUp /\ (call.reorder => vectors > 0)
    /\ memory' = Leaves
    /\ answer' = Answers(memory')
    /\ stage' = "answered"
    /\ UNCHANGED <<ask, rows, parts, idmaps, shards, merge, index, medoids, starts,
                   diskVars, warmVars, call, calls, queue, visited, expanded, ios>>

NoReorderData ==
    /\ Ended /\ call.reorder /\ vectors = 0
    /\ stage' = "threw"
    /\ UNCHANGED <<ask, rows, parts, idmaps, shards, merge, index, medoids, starts, diskVars, warmVars, searchVars>>

(* The scratch is given back; the storage of full_retset stays as it is.     *)
GiveBack ==
    /\ call' = NoCall /\ queue' = EmptyQueue(0) /\ visited' = {} /\ expanded' = <<>> /\ ios' = 0 /\ answer' = <<>>
    /\ UNCHANGED <<ask, rows, parts, idmaps, shards, merge, index, medoids, starts, diskVars, warmVars, calls>>

FinishWarmUpCall ==
    /\ Ended /\ sampling # NoWarmUp
    /\ memory' = Leaves
    /\ stage' = "warm-up"
    /\ GiveBack

NextCall ==
    /\ stage = "answered" /\ calls < ask.calls
    /\ stage' = "serving"
    /\ UNCHANGED memory
    /\ GiveBack

Done ==
    /\ stage = "threw" \/ (stage = "answered" /\ calls = ask.calls)
    /\ UNCHANGED vars

Next ==
    \/ BuildNext /\ UNCHANGED <<diskVars, warmVars, searchVars>>
    \/ CreateDiskLayout \/ Open \/ LoadCache \/ WarmUp \/ WarmUpCall \/ EndWarmUp
    \/ \E c \in Searches : Call(c)
    \/ Hop \/ Finish \/ FinishWarmUpCall \/ NoReorderData \/ NextCall \/ Done

Spec == Init /\ [][Next]_vars

(***************************************************************************)
(* Properties.                                                              *)
(***************************************************************************)
(* What a search reads where it computes a node to be is that node, however  *)
(* nodes share sectors or span them (pq_flash_index.cpp:103-113), and the   *)
(* cache holds what the file does.                                           *)
ReadsFindTheNode ==
    file # <<>> =>
        \A r \in DOMAIN rows :
            /\ NodeSector(r) \in DOMAIN file
            /\ ReadNode(r).coord = PlaceOnDisk(vectors, r)
            /\ r \in DOMAIN cache => cache[r] = ReadNode(r)

(* A search without limit on its reads leaves nothing behind: each row it    *)
(* kept is expanded, none twice, and of an expanded row's neighbours it has  *)
(* visited all (pq_flash_index.cpp:1426-1620).                               *)
ExpandedIds == {expanded[i].id : i \in DOMAIN expanded}
NothingLeftBehind ==
    stage = "answered" =>
        /\ Cardinality(ExpandedIds) = Len(expanded)
        /\ \A r \in ExpandedIds : ToSet(ReadNode(r).nhood) \subseteq visited
        /\ ios < call.limit =>
              /\ \A i \in DOMAIN queue.data : queue.data[i].id \in ExpandedIds
              /\ \A r \in visited \ ExpandedIds :
                    Admitted(call, r) => /\ Len(queue.data) = call.l
                                         /\ \A i \in DOMAIN queue.data : Dist(call.place, Places[queue.data[i].id]) <= Dist(call.place, Places[r])

(* The answers up to the number of rows expanded are the nearest of them by  *)
(* the vectors on disk, or by the whole ones, under the ids of points, with  *)
(* the label asked for.                                                      *)
AnswersAreNearest ==
    stage = "answered" =>
        LET got == Min({call.k, Len(expanded)})
            whole(p) == Dist(call.place, ask.coord[p + 1])
            off(p) == IF call.reorder THEN whole(p) ELSE Dist(call.place, PlaceOnDisk(vectors, p))
            beaten(r) == \/ off(rows[r].real) >= off(answer[got])
                         \/ \E i \in 1 .. got : answer[i] = rows[r].real
        IN  /\ \A i \in 1 .. got : answer[i] \in Ids(Len(ask.coord))
            /\ \A i \in 1 .. got - 1 : off(answer[i]) <= off(answer[i + 1])
            /\ got = call.k /\ (call.reorder => Len(expanded) <= ReorderMultiplier * call.k)
                  => \A r \in ExpandedIds : beaten(r)
            /\ call.label # {} => \A i \in 1 .. got : \E l \in call.label : HasLabel(ask.labels[answer[i] + 1], l)
=============================================================================
