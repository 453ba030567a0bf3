# Formal models of AdaDisk

AdaDisk is a graph index for approximate nearest-neighbour search: a fork of
DiskANN with a memory index that can be updated while it is used, a disk index
made from it, filtered variants of both, pruning driven by local intrinsic
dimension, and programs and HTTP servers around them. This directory holds TLA+
models of it, the TLC configurations that check them, and proofs that TLAPS
checks. Paths are relative to the repository root; `index.cpp` is
`src/index.cpp`, and `PROJECT.json` gives the lines each definition stands for.

## 1. The system

### Components

| Component | State | Operations | Talks to |
|---|---|---|---|
| **Dynamic index: locations, tags, deletions** (`index.cpp`, `natural_number_set/map.cpp`) | `_nd`, `_empty_slots`, `_delete_set`, `_tag_to_location`, `_location_to_tag`, `_data_compacted`, vectors; `_update_lock`, `_consolidate_lock`, `_tag_lock`, `_delete_lock` | `insert_point`, `lazy_delete` (two overloads), `consolidate_deletes` | called by any number of threads; edits the graph |
| **Dynamic index: graph maintenance** (`index.cpp`, `in_mem_graph_store.cpp`) | adjacency list and mutex of every location | `search_for_point_and_prune`, `inter_insert`, `process_delete` | runs inside inserts and consolidations |
| **Search, pruning and the static build** (`neighbor.h`, `index.cpp`) | sorted array with a cursor; the growing graph | `iterate_to_fixed_point`, `occlude_list`, `prune_neighbors`, `link`, `build`, `search`, `search_with_filters` | workers of one parallel loop, node by node |
| **Save, compaction, load** (`index.cpp`) | files; frozen points moved from `_max_points` to `_nd` and back | `compact_data`, `compact_frozen_point`, `reposition_points`, `save`, `load` | holds all four locks |
| **Filtered index** (`index.cpp`, `filter_utils.cpp`, `build_stitched_index.cpp`) | `_location_to_labels`, `_label_to_start_id`, `_frozen_pts_used`, label files | the labelled `insert_point`, `lazy_delete`, `consolidate_deletes`, `save`, `load`, `search_with_tags`; the stitched build | shares the locks and frozen points |
| **Streaming and update drivers** (`apps/test_streaming_scenario.cpp`, `apps/test_insert_deletes_consolidate.cpp`) | window of active points, batches, futures | insert batches, delete tasks with retries, snapshots, save | call the index from several threads |
| **Scratch pool** (`concurrent_queue.h`, `scratch.h`) | queue of scratch spaces, condition variables | `ScratchStoreManager` constructor and destructor | every search, insert and consolidation worker waits on it |
| **Disk layout and shard merging** (`disk_utils.cpp`, `partition.cpp`) | files under a prefix | `breakup_dense_points`, `partition_with_ram_budget`, `merge_shards`, `create_disk_layout`, `build_disk_index` in three forms | input of disk search |
| **Disk index search** (`pq_flash_index.cpp`) | node cache, sector buffers, beam | `cache_bfs_levels`, `load_cache_list`, `cached_beam_search` | candidate queue, quantization |
| **Quantization** (`pq.cpp`, `math_utils.cpp`, `pq_l2_distance.cpp`, `pq_data_store.cpp`) | pivots, rotation, codes, tables | `generate_pq_pivots`, `generate_opq_pivots`, `generate_pq_data_from_pivots`, table lookups | disk build and disk search |
| **Range search** (`pq_flash_index.cpp`, `apps/range_search_disk_index.cpp`) | list size that doubles, result storage of the thread | `range_search`, the program around it | repeats the beam search |
| **Ground truth and recall** (`apps/utils/compute_groundtruth*.cpp`, `apps/search_*_index.cpp`, `utils.cpp`) | parts, per-label files, results per list size | both ground-truth programs, `calculate_recall`, the search programs | files only |
| **REST servers** (`apps/restapi`, `src/restapi`) | one `Server` with searchers and tag files | `handle_post`, `aggregate_results`, the three programs, the client | concurrent requests on library threads |
| **MCGI** (`hpdic_mcgi.cpp`) | per-point pruning factor | `InitMCGIContext`, `GetGlobalMCGIAlpha` | `prune_neighbors` |
| Agents, stores, distances, bindings, factories, utilities | — | — | supporting code, section 6 |

Interaction is by calls, shared state under locks, and files: there are no
messages inside the index and nothing is logged for recovery. A thread is an
OpenMP worker, a `std::async` task, a thread of the HTTP library or a caller.

### What is hard here, and what makes each part correct

* **Slots.** A location moves from `_empty_slots` to a live tag, to `_delete_set`,
  to the set a consolidation swapped out, and back, in four operations under
  different locks; `_nd` counts three of these sets. Correct: always in exactly
  one of them, `_nd` exact, the tag maps inverse, a vector at a tag's location its
  own. Part of every insertion runs with only the shared `_update_lock`, which a
  concurrent consolidation does not take.
* **Graph.** Lists are read, copied, pruned with the lock released and written
  back by insertions and by the parallel loop of a consolidation. Correct: no
  edge to a slot that has been released, no list beyond the slack bound or
  naming itself, no live point cut off by deleting others.
* **Build.** Workers search and extend each other's half-made lists, over a
  queue whose binary search can miss an id that is already there. Correct: the
  queue holds the nearest met, what is pruned is covered by what is kept, no
  node loses its last neighbour, and the loop ends.
* **Save and load.** Compaction renumbers everything; saving moves the frozen
  points and must move them back on every path. Correct: what is loaded
  answers like what was saved.
* **Labels.** Frozen points are handed to labels while points are refused,
  deleted, moved and saved. Correct: a tag keeps its labels, a label its start,
  and an answer has the label that was asked for.
* **Drivers.** A refused consolidation is retried; tasks outlive loop iterations,
  exceptions end in futures. Correct: what is saved is what the file is named for.
* **Scratch pool.** Bounded, with a lossy notification: every waiter must get a
  space in the end.
* **Disk build and search.** Rounding of shards and sectors, merging under a
  degree bound, buffers at their limit, scratch left from the call before.
* **Files under a prefix.** A build over an earlier one, killed anywhere, leaves
  files a load takes by their presence.
* **Quantization.** Pivots, rotation and codes are separate files, kept or
  rewritten by rules of their own.
* **Servers.** Requests in flight while the `Server` is replaced or gone.

The hazards are listed line by line in `PROJECT.json`, each with the properties
that watch it or a note why none does.

## 2. Structure

```
NeighborQueue ── CandidateSearch ── GraphBuild
      └───────── ShardMerge ─────── DiskSearch
TagStore <── refinement ── DynamicIndex ── IndexGraph
IndexSave      ScratchPool      DiskIndexFiles      Quantization
LabelledIndex ─┬─ StreamingScenario ─┐
               └─ InsertDeletes ─────┼── FilteredIndex
StitchedIndex ───────────────────────┘
Ranks (for IndexSave and LabelledIndex)
GroundTruth ── SearchEvaluation ─┐
RangeSearch ─────────────────────┼── SearchTools
RestServer ──────────────────────┘
```

A line to the right is EXTENDS. `MC…` modules and `.cfg` files hold instances,
`…Proofs` theorems. The order of work was: slots and
tags, graph, save and load, pool; then search and build; disk; labels and
drivers; evaluation, quantization, files, servers. What is left is in section 6.

## 3. The models

### `TagStore`
A store of fixed capacity: `live` tags, `dead` rooms of deleted tags, rooms a
running consolidation is `reclaiming`, and the last reply. It has no locations,
maps, locks or threads. It says that a duplicate or a full store is refused, that
deleting frees no room, that only a consolidation does and only for what was
deleted before it began, and that it is refused only while another one runs.

### `DynamicIndex`
One variable per field of the class, one program counter per thread, one action
per stretch of code between points where other threads can interfere:

| Action | Code |
|---|---|
| `InsertFull`, `InsertDuplicate`, `InsertReserve` | `insert_point` up to the release of `_tag_lock`, by outcome |
| `InsertSetVector` | `set_vector`, under the shared `_update_lock` only |
| `InsertReturn` | the rest of `insert_point`; the shared lock goes |
| `LazyDelete`, `LazyDeleteMany` | the two overloads, each one critical section |
| `ConsolidateRefused`, `ConsolidateCheck` | the entry check of `consolidate_deletes` under shared locks |
| `ConsolidateLockUpdate` | waiting for the exclusive `_update_lock` (without concurrent consolidation) |
| `ConsolidateStart`, `ConsolidateLockFail` | `try_lock`, the swap of `_delete_set` |
| `ConsolidateRelease` | `release_locations` and the end of the exclusive lock |
| `ConsolidateReturn` | the return, and the end of `_consolidate_lock` |

`Modes` gives the values of `_conc_consolidate` a run covers; it never changes.
`_tag_lock` and `_delete_lock` are not variables: each is held within one action,
and whoever holds it changes only what it guards. A thread that must wait for
`_update_lock` has a disabled action. `pop_any` is allowed any element, where
the code takes the last. A `throw` of the count checks is the reply `"throw"`.
A failed assertion is a property, not a transition. Left out: the exception on
tag 0, `EXPAND_IF_FULL` (0 in the repository), and the readers (`search`,
`get_vector_by_tag`), which change nothing.

### `IndexGraph`
Refines the step between `set_vector` and return, and the one between the swap
and the release: expanding a node in the search, pruning the pool, storing the
list, `inter_insert` for one neighbour (add, or copy then overwrite), and
`process_delete` for one location (skip, unmodified, read, write). Distances are
replaced by choice: a search may expand any reachable nodes in any order, and
pruning may keep any non-empty subset within the degree, since `occlude_list`
always keeps the closest candidate when alpha is at least 1. `process_delete`
reads several lists one after another; the model reads them at once, which is
exact without concurrent consolidation, since no one writes a deleted point's
list then. `shielded` is a history variable. A `setup` gives degree, slack,
modes and the number of simultaneous callers, so that one run covers short
lists that always need pruning and long ones that never do.

### `IndexSave`
`save` and `load` hold all four locks, so here every other operation is one
action, and `save` is several: `SaveBegin` (compaction and the move of the
frozen points to `_nd`), `SaveFile` once per file in the order graph, data, tags,
`SaveEnd` (the frozen points go back), or `SaveThrow` (a file fails after the
old one was deleted). `compact_data` and `reposition_points` are folds in the
order of their loops over both stores, because that order is what keeps lists
from overwriting each other; a renumbered point's place is its rank among the
points (`Ranks`, which `LabelledIndex` uses too); `pop_any` takes the last slot, as the code does. A
vector is told by the point it belongs to, so `Content` can say what an index
holds whatever its numbering. `Load` puts the files of whatever save came last
into a new index of any capacity; with the fault `"crash"` it may come in the
middle of a save. The history variables `whole` and `mixed` tell files of one
save from those of several. `Links` bounds the candidates of an insertion, and
lists never reach the degree, so nothing is pruned; `setup.saves` bounds the saves.

`SaveBegin` takes every index that `save` takes. One that was filled in part and
never deleted from counts as compacted (`_data_compacted` is only reset by a
deletion, and `compact_data` returns at 2619), although `pop_any` has put its
points at the last slots: the frozen points are then moved onto points, or points
stay behind the rows that the files take. The same may happen when a save has
thrown with the frozen points at `_nd` and points were inserted since. The model
does what the code does, and the history variable `overrun` has the tags and
frozen points that lose their rows to such a move. The properties say that nothing
else is lost.

### `NeighborQueue`, `CandidateSearch`, `GraphBuild`
`NeighborQueue` is `NeighborPriorityQueue` with its binary search, which compares
the id only with the entries it visits. `CandidateSearch` has the algorithms:
`detect_common_filters`, `calculate_medoid`, `occlude_list` with its rounds of
alpha, `prune_neighbors` with saturation. `GraphBuild` is `build` from the loaded
rows: the medoid or the frozen point, label starts of a filtered index, then
`link`, whose workers take nodes in order and go through search (one expanded
node a step; with labels a second, unfiltered one), prune, and back links, each
either an append or a copy that is pruned later; the clean-up loop; and searches,
with and without a filter, of the finished graph; after
`optimize_index_layout`, which clears the graph store, those of
`search_with_optimized_layout`, started from neighbours of the start and rows
drawn at random. Points have integer
coordinates and distances are squared; ratios are hundredths rounded up, which
decides every comparison with an alpha of whole hundredths as the real ratio
would. `alpha_table` is the linear mapping of local dimensions to alphas.

### `ShardMerge`, `DiskSearch`
`ShardMerge` follows `build_disk_index` with rows for contents: dense points
become dummies, the graph is built at once or in shards chosen by the estimate
of `partition_with_ram_budget` (part counts grow until the estimate fits), each
shard has an id map and a graph, and `merge_shards` goes list by list under the
degree bound. What k-means, sampling and a build of a shard give is a choice.
`DiskSearch` lays the merged graph out in sectors (`create_disk_layout`, for
nodes that share sectors and nodes that span them, with or without data for
reordering), parses the labels into their flat arrays, reads nodes back by the
reader's own arithmetic, fills the cache level by level or, as
`generate_cache_list_from_sample_queries` does, from the rows that searches for
warm-up queries visit most, and runs `cached_beam_search` action by action: beams, cached and read
nodes, the read limit, and what the thread's scratch keeps between calls.

### `LabelledIndex`, `StreamingScenario`, `InsertDeletes`, `StitchedIndex`, `FilteredIndex`
`LabelledIndex` has the labels of locations and frozen points through `insert_point`
(with its early returns and exceptions, each leaving what the code leaves),
`lazy_delete`, `consolidate_deletes`, `save` (compaction, label files, frozen points
there and back, of any index without deleted points), `load`, and a filtered
`search_with_tags` in the two phases between which deletions may come. The graph is
a choice here. `TagsInFile` is what a save has written: of an index that counts as
compacted, the tags of the rows before `_nd`. `StreamingScenario` is the streaming
program: checks of its arguments, insert batches by parallel threads, the delete
task with its retries, the waits, the last save. `InsertDeletes` is the
insert/delete program: the range of rows, a built beginning, batches, snapshots,
deletion beside or after the batches, the futures in which exceptions end, the exit
code. A snapshot is `save(file, false)`, which moves the frozen points of an index
that is not full up although nothing has moved them down (`MoveFrozenUp`): label
lists change places and the starts of labels may go past the last row, where the
next insertion with such a label throws (`InsertLost`). The history variable
`misplaced` says that this has happened. `StitchedIndex` goes from label file to
stitched and pruned graph; a label's graph and the choice of a pruning are free.
`FilteredIndex` composes them: `config.user` says who uses the index.

### `GroundTruth`, `SearchEvaluation`, `RangeSearch`, `RestServer`, `SearchTools`
`GroundTruth` has both ground-truth programs, the base file in parts of
`PARTSIZE`, tags with hidden points, the split by label and its reassembly.
`SearchEvaluation` runs list size after list size over such a truth with any
answers a search could give, computes `calculate_recall`, and writes files and exit
codes. `RangeSearch` has every doubling of the list and the result storage that
earlier searches of the thread left. `RestServer` has the three programs,
`Server` with `handle_post` in its steps for several clients at once, the
searchers with their tag files, and `aggregate_results`. `SearchTools` puts the
three side by side, for one run.

### `Quantization`
Chunks, k-means++ and Lloyd's iterations, rounds of OPQ, the files of pivots,
rotation and codes with a crash possible between any two, the data store and the
simplified calls, the tables of a search. A build without OPQ leaves the rotation
file of an earlier one, and a load takes it. Arithmetic is exact, with coordinates
that the means of every cluster divide; the singular vectors of OPQ are any of
a set of rotations.

### `DiskIndexFiles`
Who wrote each file under a prefix, and its size: `build_disk_index` in its three
forms (standard, AMCGI, MCGI), over each other, with refusals, exceptions and
process ends between any two steps, and `load`, which goes by presence and
counts.

### `ScratchPool`
Threads that search, insert or consolidate, the OpenMP team of a
consolidation, the queue of spaces, and `_update_lock`. The constructor of
`ScratchStoreManager` is `Pop` or `PopNull`, then `Wait` and a wake-up by
`TimeOut` or by somebody's `Notify`; its destructor is `Return` (clear, push)
and `Notify`. A notification reaches only threads that already wait. A search
goes from its space to the lock, an insertion from the lock to its space, as in
the code. Left out: `_tag_lock`, which none of them holds while it waits for a
space, and exceptions.

## 4. What TLC checks

| Run | Instance | Shows |
|---|---|---|
| `slots` | 3 tags, 3 threads, 2 slots, both modes | `SlotsAccounted`, `TagMapsInverse`, `VectorOfTagSync`, `CountsConsistent`, and that the index implements `TagStore` |
| `graph` | 3 tags, 2 threads, 3 slots, 1 frozen point, team of 2; two racing calls with degree 1, or one call at a time with lists never pruned, in both modes | `NoDanglingEdgeSync`, `ListsWellFormed` against lost updates, `ConsolidationKeepsReach` |
| `save` | 2 tags, 2 frozen points; capacities 1 and 3 with one save, or 1 and 2 with two saves, failing files and process ends | `LiveVectors` after failures, `SaveKeepsContent`, `LoadRestores` |
| `pool` | 1 search, 1 insertion, 2 consolidations, team of 2, 2 spaces, 2 locations, both modes | `ScratchExclusive`, `ConsolidationAlone`, `CallsReturn` |
| `build` | 5 points on a line with a duplicate, 4 and a frozen point, 4 with labels; 2 workers, with and without a table of alphas | `QueueHoldsNearest`, `PrunedCandidatesCovered`, `NeverCutOff`, `BuildAdvances` |
| `disk` | 4 points in one shot, 3 or 5 shards; 3 points with labels, one of them broken up; nodes that share and that span sectors; caches by levels, and of 4 and of the labelled points by two warm-up queries; 8 kinds of search | `MergedIsUnion`, `EntriesAreRight`, `ReadsFindTheNode`, `NothingLeftBehind`, `AnswersAreNearest` |
| `filtered` | callers on 2 or 3 slots with 1 or 2 frozen points; six streams of a window of one; some seventy command lines of the insert/delete program on six rows; three label files stitched | `LabelsFollowTags`, `EveryLabelHasAStart`, `AnswersHaveLabel`, `SavedIsAsked`, `LoadKeepsLabels`, `LabelReachKept`, `StreamEnds` |
| `evaluation` | 2 to 5 points in parts of two, equal distances, filters, hidden points in one part and in two, with K of 1 and 2; range searches of up to 4 of 5 points; servers over 1 to 3 indexes, 2 clients | `TruthIsNearest`, `RecallMeasuresDistance`, `RangeIsComplete`, `AnswersAreMerged`, `RequestsEnd` |
| `quantize` | two builds of 3 or 4 points in 3 dimensions, 2 centres, every kind of build | `DistancesAreDecoded`, `CodesAreNearest`, `TrainingEnds` |
| `files` | three builds out of 19 requests in any order, each may be refused, throw or be killed | `StartsFit`, `CompletedIsAsked` |
| `late_vector` | 2 tags, 3 threads, 1 slot, concurrent | `VectorOfTag` fails |
| `rebuild` | as `files` | `LoadsWhatWasAsked` fails |

*What the less obvious ones say.* `VectorOfTagSync`: without concurrent
consolidation no insertion stores its vector at another live tag's slot.
`ConsolidationKeepsReach`: a consolidation that need not prune cuts off no live
point that was found without passing two deleted points in a row.
`QueueHoldsNearest` is the queue against a sorted set; `PrunedCandidatesCovered`
is `occlude_list` against its purpose; `BuildAdvances` is a variant function, so
the build ends under every schedule. `NothingLeftBehind`: a beam search without
read limit has expanded all it kept. `SaveKeepsContent` and `LiveVectors` hold of
every save but for what `overrun` counts: a point whose row a save has given to a
frozen point, or frozen points that a failed save has left elsewhere; `LoadRestores`
of files that hold all of the index. `LabelsFollowTags`, `EveryLabelHasAStart` and
`LoadKeepsLabels` are about saves with compaction (`~misplaced`); `LoadKeepsLabels`
says which points a save may leave out, those from row `_nd` on of an index that
counts as compacted, and that nothing else is lost or has other labels.
`SavedIsAsked` is two statements. `WindowSaved`: the streaming program ends with its
window in the index and, once the window has moved, with all of it in the file;
before, no deletion has made the save compact; and of a task that lost its range
nothing is said. `RangeSaved`: a run of the insert/delete program that ends well,
and whose range is in its input, saves the range less what it deletes, whatever the
order of its tasks. `CodesAreNearest` compares codes with the pivots that are
loaded, also those kept of other data; a rotation left over plays no part in it
(`OwnTable`), and of places where a build was cut off before it wrote codes (`torn`)
nothing is said. `TruthIsNearest`: each entry is an eligible point at its distance,
none twice, in order, and a point is left out only for K that are no farther, or
because hidden points crowd it out of its part (`Crowded`). It is stated for
`Managed` inputs: with a tags file, parts of at least K points each; with a filter
per query, no tags and no universal label. `StartsFit` is stated
with at most one build since the last standard one that was completed.

*Bounds.* No counter of the index needs one: `_nd` and all sets are bounded by
the slots. Two slots with three tags let the index fill, refuse a point, release
a slot and give it to another tag; three threads let an insertion overlap a
consolidation and a second one that is refused. Three slots let `process_delete`
meet a deleted neighbour whose neighbours are one live and one deleted. Degree 1
with slack 1 (1.3 truncated) makes every back-link after the first go through
copy, prune and overwrite; `ConsolidationKeepsReach` takes a degree above the
number of nodes because a pruned list may lose any but the closest neighbour.
`GraphView` leaves out the last reply and the vectors, which no graph action or
property reads. In `save`, capacity 3 with two tags leaves free slots below,
between and above the points, capacity 1 is filled, and two frozen points make
the moved ranges overlap; two saves with capacity 2 let a save follow one that
threw, with insertions, deletions or a load between them.

In `build`, lists of 2 with slack 3 and a queue of 3 overflow with five points, and
the pool is cut by `MaxC` = 4; the duplicate gives equal distances and a ratio with
a zero. In `disk`, four rows, three to a sector, leave a short last sector, and
nodes of two sectors leave none; `MaxSectorReads` = 2 and a limit of 1 are reached;
`MaxParts` bounds the growth of the number of shards. In `filtered`, six points pass
a window of one and an index of five slots, so slots are reused; one frozen point
with two labels runs out half-way. In `evaluation`, `PartSize` = 2 gives a last part
of one, `MaxListSize` = 4 is reached by two doublings, `MaxSetups` bounds how often
the server is set up again. In `quantize`, `MaxReps` = 12 is the program's own limit
of iterations and never the reason it stops; `OpqIters` = 2 is the least that uses
an earlier round. In `files`, `MaxBuilds` = 3 is an old index, one that goes wrong
over it and one that completes; memory limits are bytes so few that the numbers of
chunks and the cache threshold are reached. In `pool`, `Calls` makes the calls a
finite batch, `Locations` bounds the loop. Threads and tags are symmetric where the
configuration says so, and only in runs without liveness.

*Fairness.* `pool`: a thread that can run eventually does (weak fairness per
thread), since the operating system schedules every thread and `wait_for` ends.
It does not assume that a shared lock is granted while another thread waits for
it exclusively, because implementations of `shared_timed_mutex` differ there. It
is stated for a finite batch of calls: neither the lock nor the queue is fair to
its waiters, so an endless stream of calls could starve one, and the code
promises no more. `CallsReturn` needs more spaces than searching threads, which
holds when at most `num_search_threads` search and `_indexingThreads` is positive.
`filtered`: the threads of the streaming program are scheduled as long as one of
them can go on; the sleeps of the retry loop end. `evaluation`: a request that
arrived is worked on while the program runs, since the HTTP library has threads
for it; nothing is assumed of the clients or of who types at the console.
`quantize`: training and writing go on unless the process is killed. `BuildAdvances`
needs none.

*Deadlock* is checked in `slots`, `graph`, `save`, `late_vector`, `build` and
`disk`. The other systems may really stop: a batch of calls ends (`CallsReturn`
shows only then), programs exit, and no build follows the last.

### Disagreements between the code and what is said of it

* **A late vector** (`late_vector`). `include/index.h:168` allows
  `consolidate_deletes` alongside inserts and deletes when `_conc_consolidate`
  is set. An insertion registers its tag, releases `_tag_lock`, and stores its
  vector later (`index.cpp:3089`). If the tag is deleted and consolidated in
  between, the slot belongs to another tag by then, and that tag keeps the wrong
  vector. `VectorOfTagSync` shows the exclusive lock excludes this otherwise.
* **A build over another** (`rebuild`). `load` of a disk index decides by the
  presence of files whether there are labels, a universal label, dummies, lossy
  vectors on disk and a rotation; `build_disk_index` removes none of those an
  earlier build left. `workflows/SSD_index.md` says leaving the option out means
  not having it. `CompletedIsAsked` says everything else is the build's own.

### Read, not run

Observations met while modelling. The models contain these behaviours or state
properties that exclude them by name; no run of its own shows them.

*Dynamic index.* With concurrent consolidation `inter_insert` can bring an edge to
a deleted point back into a list `process_delete` has visited; `compact_data`
reports such edges. `index.h:435` has consolidations share `_update_lock` with
searches, while one that is not concurrent takes it exclusively: if as many
threads search as there are spaces, they can hold every space and wait for the
lock while the consolidation holds it and waits for a space. Searches read
`get_init_ids` before they have `_update_lock`. `get_vector_by_tag` (730) may read a
slot whose vector is not yet stored. A throwing insertion keeps its slot, and
consolidations throw from then on. A start may get a self-loop in an empty graph,
and an alpha below 1 would empty lists.

*Build, save, load.* `build` on a dynamic index leaves the built slots in
`_empty_slots`: the assertion at `index.cpp:2764` fails on the first insertion,
without assertions `consolidate_deletes` throws (2500). A partly filled index
without deletions counts as compacted (2619): saving it moves the frozen points
onto points, or leaves points behind the rows it writes, and reports nothing,
although a comment (239) takes `_nd + _num_frozen_pts` for the limit of locations;
in the models this is `overrun`, and the first saves of the run `save` meet it.
`save(file, false)` on an index that is not full, as the snapshots of the
insert/delete program are, moves frozen points up which nothing moved down,
although the comment there (392) speaks of points that were "temporarily compacted to
_nd", and the files miss them (`misplaced`). An exception while files are written
skips the move back (394), and the next save moves other rows in place of the frozen
points. `save_tags` of such an index can go past its
array; compaction and load clear the bitset of a full `_empty_slots` (2733). Rows
without a point come back with tag 0, and `_frozen_pts_used` does not come back.
`in_mem_data_store.cpp:347` takes the medoid over rows without a point.
`search_with_optimized_layout` draws rows for ever when its list is longer than
the index (`index.cpp:3382`), and after `optimize_index_layout` an ordinary search
finds no graph.

*Labels.* The assertion at `index.cpp:597` fails for every dynamic filtered index,
because `save` has written the labels of the frozen points too: `LoadKeepsLabels` is
about builds without assertions. Filters of a live dynamic index can be looked up
only after a save read the label map; loading into spare capacity swaps rows outside
the label lists. A universal label given as another number makes `parse_label_file`
take that label's points as universal; the stitched build writes 0 but parses as
given (`filter_utils.cpp:226`, `utils.h:189`, `build_stitched_index.cpp:355`), and
its random entry point may be one past the end (239).

*Drivers.* Both index labels by place in the batch
(`test_streaming_scenario.cpp:105`, `test_insert_deletes_consolidate.cpp:105`).
Delete tasks capture variables of a block that has ended. A refused insertion or
an exception inside the OpenMP loop is not caught. The insert/delete program
computes `max_points` and the last threshold before it corrects
`max_points_to_insert` (0 gives an index of one point and no insertions; too many
rows make the last batch throw); a built beginning with deletions is never saved;
`delete_task.wait()` throws when no task was launched; statuses of consolidations
are ignored; `points_per_checkpoint` 0 never ends; the last save without
snapshots is commented out; an unsupported type exits with 0.

*Evaluation.* In a part with fewer points than K the tag is tested at stride K
instead of the part's own (`compute_groundtruth.cpp:366`). Hidden points, which the
tags file of a dynamic index has (`workflows/dynamic_index.md:140`), are dropped
after the K of a part were taken: neighbours are missing from the truth and entries
never set are in their place, where the option promises "Number of ground truth
nearest neighbors to compute" (516). With filters the tag of the renumbered point is used.
Filters per query ignore universal label and tags; a wrong number of filters ends
in a bare `throw`. Unassigned entries are saved and looked up. Result loops index
by list sizes they may have skipped (`search_memory_index.cpp:255`,
`search_disk_index.cpp:295`); missing answers are id 0 and may count as hits. The
workflows give `compute_groundtruth` label options it has not. A filtered disk
search copies k entries that an earlier search of the thread may have left
(`pq_flash_index.cpp:1676`); so does a range search with fewer points than its
list, which with inner products compares in the wrong direction.

*Servers.* `int8` and `uint8` pass `main` but the `Server` wants `int8_t` and
`uint8_t`, so only `float` works. Any console line but `exit` sets up a `Server`
without searchers, as does a failed open. Refusals are thrown as pointers and
reported as unknown. `lookup_tags` lets an index equal to the size through; tags
of a merge are allocated if the first index has them; too few points leave
uninitialised answers that are merged; with inner products the merge prefers the
farthest; the dimension of a query is not checked.

*Disk build.* A rotation of an earlier OPQ build is used for codes made without
(`rebuild` shows it of the files under a prefix);
a rebuild with another number of chunks throws; builds with `codebook_prefix`
leave no pivots where load looks; a crash between codes and layout mixes builds
of equal size; a pivot file cut off before its header makes later builds throw.
AMCGI with `PQ_disk_bytes` lays out in-memory codes without disk pivots and drops
the label starts; MCGI with it reads a file that standard builds remove, and with
a label file always throws; AMCGI writes medoids where load does not look; an
inner declaration hides its alpha, which is therefore always 1.2. The reordering
loop of `create_disk_layout` throws when the points do not fill a sector, and
reading for it may exceed the scratch. The beam width is compared with the
sectors of a node times the limit on sectors, where a beam of such nodes needs as
many sectors each (`pq_flash_index.cpp:1285`). Random pivots for more than 2^23
points leave zero centres for repeated picks.

## 5. What TLAPS proves

For every number of tags, threads, slots, frozen points, workers, spaces, rows,
labels and sectors, from the named assumptions on the constants:
`ParameterAssumption` (there is a slot, and the two "none" values are neither tags
nor threads), `GraphAssumption` (a frozen point, a positive degree that the slack
does not undercut), `PoolAssumption` (the kinds of threads are disjoint and finite,
the team is not empty, the "none" values are neither threads nor spaces),
`LabelAssumption` and `NoTagAssumption` (a slot and a frozen point; label lists
offered are ascending and not empty, as the code that parses them leaves them; the
special tags are no caller's), `SaveAssumption` (capacities below some bound, a
frozen point, the special tags), `SetupAssumption` (a label list for each row, not
empty where dense points are broken up), `ShardAssumption` (each row goes to some
shard), `LayoutAssumption` (numbers), `SearchAssumption` (a list of at least one
candidate, because `insert` of a queue without room reads before its first entry;
places in the plane, also when quantized) and `RequestAssumption` (the forms there
are, data with points, unsigned numbers of shards and bytes), `StreamAssumption` and
`DriverAssumption` (positive windows, intervals and batches, unsigned arguments, a
label list and a tag for each row), `StitchAssumption` (label files are lists of
label sets that are not empty, the universal label alone on its line),
`ServiceAssumption` (only one of the three programs has several indexes; distances
and the numbers in a body are numbers) and `RangeAssumption` (finitely many points,
the same for all queries; distances, range and list sizes are numbers):

| Theorem | Module | States |
|---|---|---|
| `SlotInvAlways`, `IndexInvAlways` | `IndexGraphProofs` | the inductive invariants below |
| `TypeCorrect` | `IndexGraphProofs` | `Spec => []TypeOK` |
| `SlotsAlwaysAccounted` | `IndexGraphProofs` | `Spec => []SlotsAccounted` |
| `TagMapsAlwaysInverse` | `IndexGraphProofs` | `Spec => []TagMapsInverse` |
| `VectorsNeverOverwritten` | `IndexGraphProofs` | `Spec => []VectorOfTagSync` |
| `CountsAlwaysConsistent` | `IndexGraphProofs` | `Spec => []CountsConsistent` |
| `IndexImplementsTagStore` | `IndexGraphProofs` | `Spec => ImplementsTagStore` |
| `GraphImplementsIndex` | `IndexGraphProofs` | `GraphSpec => Spec` |
| `GraphTypeCorrect` | `IndexGraphProofs` | `GraphSpec => []GraphTypeOK` |
| `ListsAlwaysWellFormed` | `IndexGraphProofs` | `GraphSpec => []ListsWellFormed` |
| `NeverDanglesSync` | `IndexGraphProofs` | `GraphSpec => []NoDanglingEdgeSync` |
| `ConsolidationAlwaysKeepsReach` | `IndexGraphProofs` | `GraphSpec => []ConsolidationKeepsReach` |
| `PoolTypeCorrect` | `ScratchPoolProofs` | `Spec => []TypeOK` |
| `ScratchAlwaysExclusive` | `ScratchPoolProofs` | `Spec => []ScratchExclusive` |
| `ConsolidationAlwaysAlone` | `ScratchPoolProofs` | `Spec => []ConsolidationAlone` |
| `SaveInvHolds` | `IndexSaveProofs` | `Spec => []SaveInv`, the inductive invariant below |
| `LiveVectorsHolds` | `IndexSaveProofs` | `Spec => []LiveVectors` |
| `ContentInvHolds` | `IndexSaveProofs` | `Spec => []ContentInv`, the second inductive invariant below |
| `SaveKeepsContentHolds` | `IndexSaveProofs` | `Spec => SaveKeepsContent` |
| `LoadRestoresHolds` | `IndexSaveProofs` | `Spec => LoadRestores` |
| `LabelInvHolds` | `FilteredIndexProofs` | `IndexSpec => []LabelInv`, the inductive invariant below |
| `LabelsFollowTagsHolds` | `FilteredIndexProofs` | `IndexSpec => []LabelsFollowTags` |
| `EveryLabelHasAStartHolds` | `FilteredIndexProofs` | `IndexSpec => []EveryLabelHasAStart` |
| `AnswersHaveLabelHolds` | `FilteredIndexProofs` | `IndexSpec => []AnswersHaveLabel` |
| `LoadKeepsLabelsHolds` | `FilteredIndexProofs` | `IndexSpec => []LoadKeepsLabels` |
| `SavedIsAskedHolds` | `FilteredIndexProofs` | `FilteredSpec => []SavedIsAsked` |
| `WindowKeepsLabels` | `FilteredIndexProofs` | `LabelsInPlace` and `StartsInPlace` in `FilteredSpec`, but for the insert/delete program |
| `LabelReachKeptHolds` | `FilteredIndexProofs` | `FilteredSpec => []LabelReachKept` |
| `AnswersMerge` | `SearchToolsProofs` | `ToolsSpec => []AnswersAreMerged` |
| `RangeCompletes` | `SearchToolsProofs` | `ToolsSpec => []RangeIsComplete` |
| `ReadsFindTheNodeHolds` | `DiskSearchProofs` | `Spec => []ReadsFindTheNode` |
| `EntriesAreRightHolds` | `DiskSearchProofs` | `Spec => []EntriesAreRight` |
| `MergedIsUnionHolds` | `DiskSearchProofs` | `Spec => []MergedIsUnion` |
| `NothingLeftBehindHolds` | `DiskSearchProofs` | `Spec => []NothingLeftBehind` |
| `FilesInvHolds` | `DiskIndexFilesProofs` | `Spec => []FilesInv`, the inductive invariant below |
| `CompletedIsAskedHolds` | `DiskIndexFilesProofs` | `Spec => []CompletedIsAsked` |
| `StartsFitHolds` | `DiskIndexFilesProofs` | `Spec => []StartsFit` |

*Slots.* `SlotInv` joins types, accounting, inverse maps and `OldSetsOwned` (only
a consolidation between swap and release owns locations). None is inductive
alone: a popped slot has the right type because the counts leave one in
`_empty_slots`; the counts add up because no slot is in two sets; a deletion
moves exactly one slot because the maps are inverse. `LockInv` ties each lock to
the steps of its holder; with it a release without concurrent consolidation
finds no insertion under way, so `PendingInv` (the slot of an insertion yet to
store its vector stays in use and is no other tag's) survives, and vectors are
safe. The same locks show that only one consolidation owns locations, so counts
are wrong only while it does. The refinement maps rooms to slots and `Phase` to
the step of the holder of `_consolidate_lock`; each action is a step of
`TagStore` or a stutter. Facts about finite sets come from `FiniteSetTheorems`.

*Graph.* `GraphImplementsIndex` comes first: every step of the graph's
specification is a step of `DynamicIndex` or leaves it unchanged, so all of the
above holds of it too and may be used. `StepInv` adds to the types which steps an
insertion takes with which variables. `ListInv` is `ListsWellFormed` for every
list and for those in the hands of a thread or of the loop of a consolidation,
which will overwrite some list. `EdgeInv` needs more, because the list of a slot
that an insertion has just taken is still that of the point before: `Hidden` is
the free slots and those. It says that no other list names a hidden slot
(`ListsClean`), nor does what a thread has found, pruned or copied
(`HandsClean`); that slots of insertions are their own (`OwnSlot`); and that in a
running consolidation the lists already passed or rewritten are rid of the old
set (`ProcessedInv`), so that when the loop ends releasing the set hides nothing
anybody names. Without the hands it is not inductive: a list copied before a
release could be written after it.
`ReachInv` speaks of all sets that a search does not leave instead of one search:
`process_delete` leads from a location exactly where its list and those of its
neighbours in the old set led (`WriteKeepsAcross`), so such a set of the new lists
is one of the old ones, and what was within reach at the swap is in all of them.
Once the locations are released an insertion may overwrite the list of one of them,
which `EdgeInv` says nobody leads to. `ReachClosed` shows that what is reached in as
many rounds as there are nodes is such a set.

*Pool.* `PoolInv` adds to `ScratchExclusive` which steps each kind of thread
takes and that it has a space exactly between its pop and its return: without
that a return might push a space the thread does not own. `LockInv` says at which
steps a thread holds `_update_lock` or `_consolidate_lock`, and that the team
works only while the holder of the latter is in its loop; a consolidation that
is not concurrent holds the former then, so no reader is inside.

*Loops.* The library's induction theorems take the claim as a parameter, which
these provers cannot instantiate, so `RankProofs` has the induction the loops need
as a statement about sets: a set that has 0 and, with each round below the last,
the next one, has them all (`Rounds`), because the least round outside would
follow one inside (`LeastNumber`). That the equation of a recursive function, or
of the library's fold, has a solution is proved the same way, round by round
(`SwappingExists`, `FoldExists`). `RankProofs` also shows that the ranks of a
finite set are the numbers from 0 up, one for each member: this is why
`compact_data` can work in place. A point never moves up (`RankAtMost`), so a
round overwrites only rows whose points have moved already.

*Saving.* `SaveInv` says that a slot is used, deleted or free and not two of these
(`SlotsApart`); that `_nd` counts the points and the deleted ones, exactly unless
a consolidation that threw on a deleted start has forgotten those (`Counted`,
`Forgotten`); that each tag is at one location (`TagsApart`); that between two files
nothing is deleted and a point in the rows of the frozen points is counted as lost
(`InSave`); and that files of one save that had all points within its rows have the
same vector and tag in each row (`FilesInv`, with what the file of tags needs of the
file of vectors that was written just before). `LiveVectors` needs all of it:
compaction puts each tag at its point's rank, which is a row before `nd` because
of `Counted`, and the moves of the frozen points spare only the rows that they do
not go to. The lists do not matter here and stay opaque.

`ContentInv` is about the lists. `SaveKeepsContent` fails in a state where the
list of a point names a free slot: compaction drops that edge, and a load counts
the row it named among the moved ones. So `EdgesInside` says that edges of rows in
use (points, deleted points, frozen points) lead to rows in use; the deleted ones
belong to it because a consolidation hands on their lists. It is claimed while
the frozen points are at the end, and between two files of a save, when they are
next to the others: after a save that threw they are neither, and after one that
gave rows of points away edges lead to what is there now. `FilesInside` says
the same of the files of a whole save, with the start they name at the row the
frozen points were written to. Each of `compact_data`, the two moves and `load` is
then an instance of one lemma, `CarriedHolds`: if vectors, lists, names in lists
and tags follow one mapping of rows, and edges stay inside, what the index
`Holds` is the same. That they do follow one is the work: `compact_data` swaps
lists one row at a time (`MovedDown`, once for the lists and once for the
vectors), and a move swaps overlapping ranges in an order in which no round finds
its row already swapped away (`MovesFirst`, `Swaps`), which `MovedListsUpward` has
not.

*Labels.* `LabelInv` joins the accounting of slots, the labels each tag was given
(`LabelsInPlace`), and the frozen points of the labels (`StartsInPlace`), without the
exception for `misplaced`: callers save with compaction. The label lists are swapped, not copied, by
`compact_data` and `reposition_points`; the proof follows the swaps round by round
(`CompactRounds`, `DownRounds`), and the moves back up undo the moves down because
they are the same swaps in the opposite order (`MovedUpRestores`), also when the
ranges overlap. The theorems are about `IndexSpec`, callers who do what the index
allows, and `WindowKeepsLabels` is about them and the streaming program. That the
files have what they should (`SavedPoints`) follows for an index that is compacted
from the ranks, and for one that counts as compacted because the rows before `nd`
are written as they are and the frozen points come behind them. A built
beginning leaves the built slots in `_empty_slots`, where `LabelInv` does not hold;
what holds of the labels in the insert/delete program is model-checked.

*Window and range.* `SavedIsAsked` is about the last state, so `StreamInv` counts on
the way: the points present are those inserted that the task has not come to, `_nd`
is those inserted less those whose slots have come back, and the deleted set is
what lies between the two (`WindowInv`). That this is never a window and four
intervals, so that no insertion meets a full index, needs to know how far back the
task may be: `LaunchInv` says which batch's task there is at each place of the main
thread, at most one batch behind, and `TaskInv` that its range is one interval
that has been inserted. Once it has taken a point the index no longer counts as
compacted, so the last save compacts it and all of it is in the file (`FileInv`,
`TagsWritten`). `DriverInv` has rows instead: those inserted (`RowsIn`) from
the eraser's next one on are present, the eraser is launched only when all rows it
will delete are in (`MayDelete`; with `MayDeleteAnyRows` it would overtake them), and
an index that counts as compacted has had no deletion, so if its rows are to be
saved they fill it (`RangeFills`), and the save, which then compacts nothing, finds
its points from 0 on.

*Stitching.* `StitchInv` says that a label's points are listed once each and have
the label or the universal one (`PointsOfLabel`), and that what the label's graph
has is in the lists of its points, by their own numbers, from the label's turn
until the full index is saved (`HasStitched`): a later label's turn only adds to
the lists (`AddedHasBoth`). A walk of the label's graph is then followed in the
full index, round by round (`WalkFollowed`).

*Disk.* `ReadsFindTheNode` compares two computations of a node's place, that of
`create_disk_layout`, which fills sectors one after another, and that of the
reader, which divides. `DiskInv` says that the rows are numbered from zero
whatever points were broken up (`BreakUpRows`, over the concatenation of the parts,
`FlattenType`), and that nothing is read before the layout is written; the rest is
division with rest (`SharedSector`, `OwnSectors`).

*Shards.* `BuildInv` says that a shard's file of ids is the rows it was given, in
order, that every row is in one, and that what is built of a shard is built of the
data of these rows: the pass that copies them meets each id when it comes to it
(`RetrievedRows`). So a start or medoid of a shard, renamed, is a row with the label.
The merge is about the order in which it comes to the lists: sorted by row, then by
shard, every place in that order is one row of one shard (`TurnsHold`), no row is left
out, and so the next row is the current one or the one after it, and the list that
comes next in its shard's file, which is only read forward, is that row's
(`NextNode`). `MergeRight` follows from turn to turn: each file has been read up to the
rows whose turn has not come (`ReadRight`); what is gathered is what the shards read so
far link the row to, each id once and all of it marked (`HoodIs`); every list
written is complete, and the size counts them (`ListsRight`). With a row in no shard
the merge would write its successor's list in its place, so that `k_base` is not 0
is needed.

*The beam search.* `QueueRight` is what `insert` and `closest_unexpanded` promise each
other, with what the search has visited and expanded: entries in order and
distinct, marked when expanded, none before the cursor left to expand, and of the
rows visited and admitted none missing unless the queue is full of rows no
farther. The binary search of `insert` looks at few entries and still ends where
the entry belongs, because they are in order and what `visited` lets through is
not among them (`HalvedRight`, `PositionRight`); without `visited` it could miss an
equal id. `insert`, the beam, a list of neighbours and a round of lists each
keep it (`InsertRight`, `BeamRight`, `LookedOverRight`, `AfterAllRight`), by induction
over the entries. That what is read has rows as neighbours goes back to the build:
the lists of a shard, the merge, the layout and the cache (`GraphInv`).
`SearchRight` adds that the lists of the expanded rows have been visited.

*Files.* `FilesInv` follows a standard build from step to step: `MadeInv` says which
files are there by then, which of them are the running build's own (`Own`), and
how many rows and chunks they have; of pivots only the shape, because
`generate_pq_pivots` keeps those of an earlier build. When the clean-up is over,
that is `CompletedIsAsked`. `StartsFit` is about the builds that never got so far.
Nothing in a file says which build wrote it, and `load` compares numbers of rows
only, so the proof is about whose files can pass: those of one build that `load`
compares have equal rows (`SameRows`); codes are written before starts are written
or removed, and these before the layout (`OrderInv`), so starts newer than codes and
layout, or older than both, would have been preceded or followed by the build's own;
and until the second build after the last that was completed, every such file is
of the last two builds (`RecentInv`). Of three builds two may agree in their rows
by chance and the third bring the starts: hence the bound in the property. The
steps of AMCGI and MCGI keep the invariant because they write only the layout of
what `load` compares (`SizedInv`).

*Servers.* A request knows the number of its server, and the searchers of a server
are those of the command line, or have been moved away by an earlier setup
(`ServerInv`). So what a request gathers is, searcher by searcher, an answer of
that partition (`Gathering`), whatever happens to the server in between: a request
that finds another server ends the program. The merge is about K sorted lists
(`MergeInv`): of each its beginning was taken, nothing taken is farther than
what a list has next, and only a list that gave all the answers can be at its end,
so the loop never reads past one.

*A range.* Each doubling keeps the largest size that doubling reaches
(`LargestDoubles`), so while `range_search` repeats its search the list is at most
that large, and no larger than the index (`RangeInv`). The copied entries are then
all of this search, in order and nearest (`OrderedBy`), whatever the storage held
before. Where the count ends inside the list, what follows is out of range
(`FirstAreRange`); where it fills the list the loop stops only at the largest size,
and then a set of that many points within the range is all of it.

*Model-checked only:* search and build in memory; the order of a disk search's
answers; evaluation and quantization; all liveness, which like `ENABLED` is beyond
this prover; and the disagreements.

## 6. Not modelled

* **Of the modelled parts.** Save: delete-set files (a save with deleted points
  throws first) and files torn in the middle; a mixture of two saves of equal
  size loads silently, `load` has no means to notice, and nothing is claimed of
  it. Filtered index: loading into spare capacity, where the code swaps rows
  outside its label lists. Search: `search_with_tags` on a static index and the
  inner-product branch of `occlude_list`. Disk search: the
  asynchronous reader, which waits for all of its reads.
  Layout: k-means over the data, sampling, contents of sample files, `optimize_beamwidth`;
  their results are choices. MCGI: the sigmoid mapping and the advanced mode,
  floating-point code. REST: searchers whose index cannot be loaded, `main.cpp`
  (Windows, against an older interface). Files: `codebook_prefix`, shards with a
  universal label. `destroy` of the pool, called with nobody waiting.
* **Agents.** Two processes that run one binary each and report once.
* **Data and graph stores.** Moving, saving and loading rows is in `IndexSave`;
  alignment and preprocessing of vectors are left out, and so is growing, after
  which a load reads all rows from the files.
* **Distance functions.** Vectorised kernels without control; the models compute
  the distances they stand for.
* **Bindings, factories, configuration, utilities.** Type erasure, argument
  handling, I/O and logging.
* **Vendored containers** (`include/tsl`). Used as sets and maps.

Floating-point results matter to recall, not to these properties: where a
comparison decides control it is exact in the models (integers, hundredths),
otherwise a choice. Steps worth adding next: proofs about
`NeighborQueue`, readers of `IndexSave` that took `_start` before the lock, and
the lock order of all operations in one module.
