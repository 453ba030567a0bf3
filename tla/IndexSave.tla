----------------------------- MODULE IndexSave -----------------------------
(***************************************************************************)
(* Saving and loading a dynamic, unfiltered diskann::Index                 *)
(* (src/src/index.cpp): save renumbers the points, moves the frozen points *)
(* next to them, writes three files and moves the frozen points back; load *)
(* reads the files into a fresh index of its own capacity.                 *)
(*                                                                         *)
(* save and load hold every lock exclusively, so the other operations are  *)
(* one action each; their interleavings are DynamicIndex and IndexGraph.   *)
(* A vector is told by the point it belongs to: its tag, or the number of  *)
(* the frozen point; NoVector is a row of zeros.  Lists never reach the    *)
(* degree bound, so nothing is pruned.  _tag_to_location is the inverse of *)
(* _location_to_tag (TagMapsInverse of DynamicIndex).                      *)
(***************************************************************************)
EXTENDS Integers, FiniteSets, SequencesExt, Ranks

CONSTANTS
    Tags,          \* tags callers insert
    ZeroTag,       \* tag 0, which save_tags writes for a row without a tag
    NoTag,         \* a location without an entry in _location_to_tag
    Setups,        \* the values of _max_points an index is constructed with, what
                   \* may interrupt a save: "throw", "crash", and a bound of the saves
    MaxCapacity,   \* bound of these values of _max_points
    NumFrozen,     \* _num_frozen_pts
    Links          \* bound: candidates an insertion keeps

ASSUME SaveAssumption ==
    /\ NoTag \notin Tags /\ ZeroTag \notin Tags \cup {NoTag}
    /\ Setups # {} /\ MaxCapacity \in Nat \ {0}
    /\ \A s \in Setups : /\ s.capacities \subseteq 1 .. MaxCapacity /\ s.capacities # {}
                        /\ s.faults \subseteq {"throw", "crash"} /\ s.saves \in Nat
    /\ NumFrozen \in Nat \ {0}
    /\ Links \in Nat \ {0}

Rows == 0 .. MaxCapacity + NumFrozen - 1
NoVector == 0

VARIABLES
    max_points,      \* _max_points
    nd,              \* _nd
    start,           \* _start
    data_compacted,  \* _data_compacted
    empty_slots,     \* the vector of _empty_slots, popped at its back
    delete_set,      \* *_delete_set
    location_to_tag, \* _location_to_tag, NoTag where there is no entry
    neighbours,      \* _graph_store
    data_store,      \* _data_store
    setup,           \* the member of Setups this behaviour is about
    saves,           \* saves begun
    saving,          \* the file save is about to write, or where it is
    files,           \* the three files at the path of the index
    whole,           \* history: the files come from one save, and hold all of its index
    mixed,           \* history: the index was loaded from files that are not whole
    overrun          \* history: the points of the index, tags and numbers of frozen
                     \* points, whose rows a save has given to others

index == <<max_points, nd, start, data_compacted, empty_slots, delete_set,
           location_to_tag, neighbours, data_store>>
history == <<whole, mixed, overrun>>
vars == <<index, setup, saves, saving, files, history>>

Slots == 0 .. max_points - 1
FrozenAt(first) == first .. first + NumFrozen - 1
Ascending(first, last) == [i \in 1 .. last - first + 1 |-> first + i - 1]
\* natural_number_map: contains, set and erase of _location_to_tag.
HasTag(l) == location_to_tag[l] # NoTag
WithTag(l, t) == [location_to_tag EXCEPT ![l] = t]
WithoutTag(l) == [location_to_tag EXCEPT ![l] = NoTag]

\* natural_number_set: pop_any takes the last slot that became empty.
PopAny(slots) == [id |-> Last(slots), left |-> Front(slots)]

LiveSlots == {l \in Slots : HasTag(l)}
LocationOf(t) == CHOOSE l \in LiveSlots : location_to_tag[l] = t

Missing == [rows |-> -1]
Files == <<"graph", "data", "tags">>

-----------------------------------------------------------------------------

\* The constructor of an index of capacity max.
EmptyIndex(max) ==
    [max_points |-> max,
     start |-> max,
     empty_slots |-> Ascending(0, max - 1),
     location_to_tag |-> [r \in Rows |-> NoTag],
     neighbours |-> [r \in Rows |-> {}],
     data_store |-> [r \in Rows |-> NoVector]]

\* set_start_points gives the frozen points of an empty index their vectors.
WithStartPoints(max, data) ==
    [r \in Rows |-> IF r \in FrozenAt(max) THEN r - max + 1 ELSE data[r]]

Init ==
    /\ setup \in Setups /\ max_points \in setup.capacities
    /\ nd = 0
    /\ data_compacted = TRUE
    /\ delete_set = {}
    /\ LET new == EmptyIndex(max_points)
       IN  /\ start = new.start
           /\ empty_slots = new.empty_slots
           /\ location_to_tag = new.location_to_tag
           /\ neighbours = new.neighbours
           /\ data_store = WithStartPoints(max_points, new.data_store)
    /\ saves = 0 /\ saving = "idle"
    /\ files = [f \in ToSet(Files) |-> Missing]
    /\ whole = FALSE /\ mixed = FALSE /\ overrun = {}

-----------------------------------------------------------------------------
\* insert_point, lazy_delete and consolidate_deletes between two saves.

\* get_init_ids and what a greedy search can expand from there.
Found ==
    LET reach[i \in 0 .. Cardinality(Rows)] ==
            IF i = 0 THEN {start} \cup FrozenAt(max_points)
            ELSE reach[i - 1] \cup UNION {neighbours[x] : x \in reach[i - 1]}
    IN  reach[Cardinality(Rows)]

\* A compacted index without empty slots would use the next row.
Insert(t) ==
    /\ saving = "idle"
    /\ nd < max_points
    /\ t \notin {location_to_tag[l] : l \in LiveSlots}
    /\ LET fresh == data_compacted /\ empty_slots = <<>>
           l == IF fresh THEN nd ELSE PopAny(empty_slots).id
       IN  /\ empty_slots' = IF fresh THEN empty_slots ELSE PopAny(empty_slots).left
           /\ delete_set' = IF fresh THEN delete_set ELSE delete_set \ {l}
           /\ location_to_tag' = WithTag(l, t)
           /\ data_store' = [data_store EXCEPT ![l] = t]
           /\ \E linked \in SUBSET (Found \ {l}) :
                /\ linked # {} /\ Cardinality(linked) <= Links
                /\ neighbours' = [r \in Rows |->
                     CASE r = l -> linked
                       [] r \in linked -> neighbours[r] \cup {l}
                       [] OTHER -> neighbours[r]]
    /\ nd' = nd + 1
    /\ UNCHANGED <<max_points, start, data_compacted, saves, saving, files, history>>

\* _data_compacted is reset whether or not the tag is there.
LazyDelete(t) ==
    /\ saving = "idle"
    /\ data_compacted' = FALSE
    /\ IF t \in {location_to_tag[l] : l \in LiveSlots}
       THEN /\ delete_set' = delete_set \cup {LocationOf(t)}
            /\ location_to_tag' = WithoutTag(LocationOf(t))
       ELSE UNCHANGED <<delete_set, location_to_tag>>
    /\ UNCHANGED <<max_points, nd, start, empty_slots, neighbours, data_store,
                   saves, saving, files, history>>

\* Of locations with one tag, as only ZeroTag may have several, _tag_to_location
\* names the last.
Named(l) == \A k \in LiveSlots : location_to_tag[k] = location_to_tag[l] => k <= l

\* consolidate_deletes throws when slots are missing or the tag maps differ in size,
\* and refuses when a location is neither tagged nor deleted.
CountsAgree ==
    /\ Len(empty_slots) + nd = max_points
    /\ Cardinality(LiveSlots) + Cardinality(delete_set) = nd
    /\ \A l \in LiveSlots : Named(l)

\* process_delete on every row in use and on the rows from _max_points on; the
\* slots are released in the order of a hash set.
Consolidate ==
    /\ saving = "idle"
    /\ CountsAgree
    /\ delete_set # {} /\ start \notin delete_set
    /\ LET processed == (Slots \ (delete_set \cup ToSet(empty_slots))) \cup FrozenAt(max_points)
       IN  neighbours' = [r \in Rows |->
             IF r \in processed
             THEN (neighbours[r] \ delete_set) \cup
                  UNION {neighbours[d] \ (delete_set \cup {r}) : d \in neighbours[r] \cap delete_set}
             ELSE neighbours[r]]
    /\ \E released \in SetToSeqs(delete_set) : empty_slots' = empty_slots \o released
    /\ nd' = nd - Cardinality(delete_set)
    /\ delete_set' = {}
    /\ UNCHANGED <<max_points, start, data_compacted, location_to_tag, data_store,
                   saves, saving, files, history>>

\* The exception for a deleted start comes after the swap of _delete_set.
ConsolidateStartDeleted ==
    /\ saving = "idle"
    /\ CountsAgree
    /\ start \in delete_set
    /\ delete_set' = {}
    /\ UNCHANGED <<max_points, nd, start, data_compacted, empty_slots, location_to_tag,
                   neighbours, data_store, saves, saving, files, history>>

-----------------------------------------------------------------------------
\* compact_data and reposition_points on the two stores, in the order of their
\* loops.  A pair of stores is a record [graph, data].
Stores == [graph |-> neighbours, data |-> data_store]

SwapRows(g, a, b) == [g EXCEPT ![a] = g[b], ![b] = g[a]]

\* new_location: the place of a slot among the tagged ones; the rest stays.
NewLocation(old) ==
    IF old \in LiveSlots THEN Rank(old, LiveSlots) ELSE old

\* Faulty variant: the list is moved down and the vector is not.
CompactRowListOnly(s, old) ==
    IF old \in LiveSlots \cup FrozenAt(max_points)
    THEN LET kept == s.graph[old] \ (Slots \ LiveSlots)
             g == [s.graph EXCEPT ![old] = {NewLocation(ngh) : ngh \in kept}]
         IN  [s EXCEPT !.graph = SwapRows(g, NewLocation(old), old)]
    ELSE [s EXCEPT !.graph[old] = {}]

\* One round of the loop of compact_data: the list of a row that stays is
\* renumbered without its dangling edges and, with the vector, moved down.
CompactRow(s, old) ==
    IF old \in LiveSlots \cup FrozenAt(max_points)
    THEN LET new == NewLocation(old)
             kept == s.graph[old] \ (Slots \ LiveSlots)
             g == [s.graph EXCEPT ![old] = {NewLocation(ngh) : ngh \in kept}]
         IN  [graph |-> SwapRows(g, new, old),
              data |-> [s.data EXCEPT ![new] = s.data[old]]]
    ELSE [s EXCEPT !.graph[old] = {}]

\* The loop, and the lists after the last point cleared.
Compacted == FoldLeft(CompactRow, Stores, Ascending(0, max_points + NumFrozen - 1))

CompactData ==
    [Compacted EXCEPT !.graph = [r \in Rows |->
        IF r \in nd .. max_points - 1 THEN {} ELSE Compacted.graph[r]]]

\* The tags move with their points.
CompactedTag ==
    [r \in Rows |->
        IF \E l \in LiveSlots : Named(l) /\ NewLocation(l) = r
        THEN location_to_tag[CHOOSE l \in LiveSlots : NewLocation(l) = r] ELSE NoTag]

\* compact_data marks every slot from _nd on as empty.
CompactedSlots == Ascending(nd, max_points - 1)

\* move_vectors: memmove copies the rows as they are, and what they left behind is
\* zeroed, from the end of the new range or up to its beginning if they overlap.
MovedVectors(data, old, new, n) ==
    LET copied == [r \in Rows |-> IF r \in new .. new + n - 1 THEN data[r - new + old] ELSE data[r]]
        cleared == IF new < old THEN Max({old, new + n}) .. old + n - 1
                   ELSE old .. Min({old + n, new}) - 1
    IN  [r \in Rows |-> IF r \in cleared THEN NoVector ELSE copied[r]]

\* Faulty variant: overlapping lists are moved in ascending order both ways.
MovedListsUpward(g, old, new, n) ==
    LET renamed == [r \in Rows |->
            {IF x \in old .. old + n - 1 THEN x - old + new ELSE x : x \in g[r]}]
        swap(lists, i) == SwapRows(lists, new + i, old + i)
    IN  FoldLeft(swap, renamed, Ascending(0, n - 1))

\* Edges to the moved rows follow them; lists are swapped row by row from the
\* side the rows move to.
MovedLists(g, old, new, n) ==
    LET renamed == [r \in Rows |->
            {IF x \in old .. old + n - 1 THEN x - old + new ELSE x : x \in g[r]}]
        swap(lists, i) == SwapRows(lists, new + i, old + i)
        order == IF new < old THEN Ascending(0, n - 1) ELSE Reverse(Ascending(0, n - 1))
    IN  FoldLeft(swap, renamed, order)

RepositionPoints(s, old, new, n) ==
    IF old = new THEN s
    ELSE [graph |-> MovedLists(s.graph, old, new, n),
          data |-> MovedVectors(s.data, old, new, n)]

-----------------------------------------------------------------------------
\* The points in rows that the frozen points are moved to; and, where a save that
\* threw has left these elsewhere, the frozen points, as what is moved from the end
\* is not them.
OverrunBy(tags) ==
    {tags[l] : l \in {x \in Slots \cap FrozenAt(nd) : tags[x] # NoTag}}
    \cup (IF start = max_points THEN {} ELSE 1 .. NumFrozen)

\* save with compaction, up to the first file: compact_data, which throws and changes
\* nothing while points are deleted, and compact_frozen_point.  An index that counts
\* as compacted is left as it is: one that was never full and never deleted from has
\* its points at the last slots, and the frozen points are moved all the same.
SaveBegin ==
    /\ saving = "idle" /\ saves < setup.saves
    /\ data_compacted \/ delete_set = {}
    /\ ~(~data_compacted /\ start \in Slots \ LiveSlots)
    /\ LET compacted == IF ~data_compacted THEN CompactData ELSE Stores
           moves == nd < max_points
           laid_out == IF moves THEN RepositionPoints(compacted, max_points, nd, NumFrozen)
                       ELSE compacted
       IN  /\ neighbours' = laid_out.graph
           /\ data_store' = laid_out.data
           /\ start' = IF moves THEN nd ELSE start
    /\ IF ~data_compacted
       THEN /\ location_to_tag' = CompactedTag
            /\ empty_slots' = CompactedSlots
            /\ data_compacted' = TRUE
       ELSE UNCHANGED <<location_to_tag, empty_slots, data_compacted>>
    /\ overrun' = overrun \cup OverrunBy(location_to_tag')
    /\ saves' = saves + 1 /\ saving' = Head(Files)
    /\ UNCHANGED <<max_points, nd, delete_set, files, whole, mixed>>

\* save_tags: zero without a tag, and then for the rows of the frozen points.
TagRow(l) ==
    IF l >= nd \/ l \in FrozenAt(start) \/ location_to_tag[l] = NoTag
    THEN ZeroTag ELSE location_to_tag[l]

\* What save_graph, save_data and save_tags write: _nd + _num_frozen_pts rows.
LastRow == nd + NumFrozen - 1
GraphFile == [rows |-> LastRow + 1, start |-> start, graph |-> [r \in 0 .. LastRow |-> neighbours[r]]]
DataFile == [rows |-> LastRow + 1, data |-> [r \in 0 .. LastRow |-> data_store[r]]]
TagsFile == [rows |-> LastRow + 1, tags |-> [r \in 0 .. LastRow |-> TagRow(r)]]

Written(f) ==
    CASE f = "graph" -> GraphFile [] f = "data" -> DataFile [] f = "tags" -> TagsFile

\* One file is deleted and written; a .del file is written for deleted points
\* only, and a save with deleted points has thrown before.
SaveFile ==
    /\ saving \in ToSet(Files)
    /\ files' = [files EXCEPT ![saving] = Written(saving)]
    /\ saving' = CASE saving = "graph" -> "data" [] saving = "data" -> "tags" [] OTHER -> "end"
    /\ whole' = (saving = "tags" /\ ~mixed /\ overrun = {} /\ LiveSlots = 0 .. nd - 1)
    /\ UNCHANGED <<index, saves, mixed, overrun>>

\* reposition_frozen_point_to_end; the comparison is with _nd alone.
SaveEnd ==
    /\ saving = "end"
    /\ LET back == IF nd = max_points THEN Stores
                   ELSE RepositionPoints(Stores, nd, max_points, NumFrozen)
       IN  neighbours' = back.graph /\ data_store' = back.data
    /\ start' = IF nd = max_points THEN start ELSE max_points
    /\ saving' = "idle"
    /\ UNCHANGED <<max_points, nd, data_compacted, empty_slots, delete_set, location_to_tag,
                   saves, files, history>>

\* Opening or writing a file fails after the old one has been deleted: save
\* leaves through the exception, past the repositioning.
SaveThrow ==
    /\ "throw" \in setup.faults
    /\ saving \in ToSet(Files)
    /\ files' = [files EXCEPT ![saving] = Missing]
    /\ whole' = FALSE
    /\ saving' = "idle"
    /\ UNCHANGED <<index, saves, mixed, overrun>>

-----------------------------------------------------------------------------
\* load.  The process that had the index before is gone, possibly in the middle
\* of a save.

\* load throws when a file is missing or the files' counts differ.
FilesAgree ==
    /\ \A f \in ToSet(Files) : files[f] # Missing
    /\ \A f \in ToSet(Files) : files[f].rows = files["data"].rows

\* The stores take their rows from the files and keep those of the new index after
\* them: load_impl of the graph store reads lists until the size in the header, that
\* of the data store as many vectors as the file has.
ReadLists(max) ==
    [r \in Rows |-> IF r < files["graph"].rows THEN files["graph"].graph[r]
                    ELSE EmptyIndex(max).neighbours[r]]
ReadVectors(max) ==
    [r \in Rows |-> IF r < files["data"].rows THEN files["data"].data[r]
                    ELSE EmptyIndex(max).data_store[r]]

\* Faulty variant: the frozen points stay behind the last point.
LoadedStoresInPlace(rows, max) == [graph |-> ReadLists(max), data |-> ReadVectors(max)]

\* An index that is not full has its frozen points moved to its end.
LoadedStores(rows, max) ==
    LET read == [graph |-> ReadLists(max), data |-> ReadVectors(max)]
        n == rows - NumFrozen
    IN  IF n = max THEN read ELSE RepositionPoints(read, n, max, NumFrozen)

\* load_data resizes an index constructed for fewer points than the files hold.
Resized(constructed, n) == IF n > constructed THEN n ELSE constructed

Load(constructed) ==
    /\ "crash" \notin setup.faults => saving = "idle"
    /\ FilesAgree
    /\ LET n == files["data"].rows - NumFrozen
           max == Resized(constructed, n)
           stores == LoadedStores(files["data"].rows, max)
       IN  /\ max_points' = max
           /\ nd' = n
           /\ start' = IF n = max THEN files["graph"].start ELSE EmptyIndex(max).start
           /\ empty_slots' = Ascending(n, max - 1)
           /\ location_to_tag' = [r \in Rows |-> IF r < n THEN files["tags"].tags[r] ELSE NoTag]
           /\ neighbours' = stores.graph
           /\ data_store' = stores.data
    /\ data_compacted' = TRUE
    /\ delete_set' = {}
    /\ saving' = "idle"
    /\ mixed' = ~whole /\ overrun' = {}
    /\ UNCHANGED <<saves, files, whole>>

-----------------------------------------------------------------------------
Next ==
    /\ \/ \E t \in Tags : Insert(t) \/ LazyDelete(t)
       \/ Consolidate \/ ConsolidateStartDeleted
       \/ SaveBegin \/ SaveFile \/ SaveEnd \/ SaveThrow
       \/ \E c \in setup.capacities : Load(c)
    /\ UNCHANGED setup

Spec == Init /\ [][Next]_vars

-----------------------------------------------------------------------------

\* What an index holds, whatever the numbering: for each tag its vector and the
\* points its list leads to, and the same for each frozen point in its order.
ContentOf(rows, tags, data, graph, first) ==
    LET led(r) == {data[x] : x \in graph[r]}
    IN  [points |-> {<<tags[l], data[l], led(l)>> : l \in rows},
         frozen |-> [i \in 0 .. NumFrozen - 1 |-> <<data[first + i], led(first + i)>>]]

Content == ContentOf(LiveSlots, location_to_tag, data_store, neighbours, start)

FileContent ==
    ContentOf(0 .. files["data"].rows - NumFrozen - 1, files["tags"].tags,
              files["data"].data, files["graph"].graph, files["graph"].start)

\* The renumbering of compact_data, the move of the frozen points next to the
\* others and their move back each keep every point with its tag, its vector
\* and its edges, whatever slots deletions have left free and whichever saves have
\* failed: unless frozen points that a failed save left behind are lost, or points
\* lie where the frozen points go, as they do in an index that counts as compacted
\* although its points do not come first.
SaveKeepsContent ==
    [][(SaveBegin \/ SaveEnd) /\ ~mixed /\ overrun' = {} => Content' = Content]_vars

\* A load of the files of a completed save that found all points within its rows
\* brings the saved index back, with the frozen points where get_init_ids looks for
\* them, whatever the capacity of the index it is loaded into.
LoadRestores ==
    [][whole /\ (\E c \in setup.capacities : Load(c)) =>
          /\ Content' = FileContent
          /\ start' = max_points']_vars

\* A tag that leads to another vector than the one inserted with it had its row
\* given to a frozen point by a save that found it there: nothing else loses a
\* vector, no compaction, no insertion after a save that failed, and no load, unless
\* of files that several saves or such a save have written.
LiveVectors ==
    ~mixed => \A l \in LiveSlots :
        location_to_tag[l] \in overrun \/ data_store[l] = location_to_tag[l]
=============================================================================
