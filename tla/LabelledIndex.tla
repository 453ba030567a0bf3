--------------------------- MODULE LabelledIndex ---------------------------
(***************************************************************************)
(* The labels of a dynamic filtered diskann::Index (src/src/index.cpp):    *)
(* which labels a location has, which frozen point stands for a label, and *)
(* what insert_point, lazy_delete, consolidate_deletes, save and load do   *)
(* to both while a search reads them.                                      *)
(*                                                                         *)
(* The graph is abstracted: a search may visit any location that holds a   *)
(* point, deleted ones included.  A handler whose changes to these         *)
(* variables fall under _tag_lock and _delete_lock is one action; the      *)
(* steps inside insert_point and consolidate_deletes, and the inverse of   *)
(* _location_to_tag, are the subject of DynamicIndex.                      *)
(***************************************************************************)
EXTENDS Integers, Sequences, FiniteSets, Ranks

CONSTANTS
    Tags,       \* tags of the points
    Labels,     \* labels, as the numbers of the label map
    Universal,  \* _universal_label, a label of its own
    Offers,     \* label lists that callers may give to insert_point
    Configs     \* parameters of an index and its use: see LabelAssumption

\* parse_formatted_label_file sorts every list and refuses an empty one.
ASSUME LabelAssumption ==
    /\ Labels \subseteq Nat /\ Universal \in Nat
    /\ \A o \in Offers :
          /\ o \in Seq(Labels \cup {Universal}) /\ Len(o) > 0
          /\ \A i, j \in 1 .. Len(o) : i < j => o[i] < o[j]
    /\ \A c \in Configs :
          /\ c.max_points \in Nat \ {0} /\ c.num_frozen \in Nat \ {0}
          /\ c.conc \in BOOLEAN       \* _conc_consolidate
          /\ c.universal \in BOOLEAN  \* _use_universal_label
          /\ c.user \in {"callers", "streaming", "stitching", "insert_deletes"}
          /\ c.tags \subseteq Tags      \* the tags its callers use ...
          /\ c.offers \subseteq Offers  \* ... and the label lists
          \* c.call is the command line of the program that uses it, if one does

CONSTANTS
    NoTag,      \* a location without a tag
    HiddenTag,  \* tag 0, which insert_point refuses
    None        \* no search

ASSUME NoTagAssumption == NoTag \notin Tags /\ HiddenTag \notin Tags \cup {NoTag}

VARIABLES
    config,              \* the parameters of this index
    location_to_tag,     \* _location_to_tag
    empty_slots,         \* _empty_slots
    nd,                  \* _nd
    delete_set,          \* _delete_set
    data_compacted,      \* _data_compacted
    location_to_labels,  \* _location_to_labels, a list per row
    label_to_start_id,   \* _label_to_start_id; its domain is also _labels
    frozen_pts_used,     \* _frozen_pts_used
    label_map,           \* whether _label_map has been read
    search,              \* the filtered search that is under way
    given,               \* history: the labels each tag was inserted with
    misplaced            \* history: a save without compaction has moved up frozen points
                         \* that were in their place

slotVars == <<location_to_tag, empty_slots, nd, delete_set, data_compacted>>
labelVars == <<location_to_labels, label_to_start_id, frozen_pts_used, given, misplaced>>
readerVars == <<search, label_map>>
indexVars == <<config, slotVars, labelVars, readerVars>>

MaxPoints == config.max_points
NumFrozen == config.num_frozen
Slots == 0 .. MaxPoints - 1
Frozen == MaxPoints .. MaxPoints + NumFrozen - 1
Rows == Slots \cup Frozen

AllLabels == Labels \cup {Universal}
Has(row, label) == \E i \in 1 .. Len(row) : row[i] = label

Live == {l \in Slots : location_to_tag[l] # NoTag}
Present == {location_to_tag[l] : l \in Live}
IndexInit ==
    /\ config \in Configs
    /\ location_to_tag = [l \in Slots |-> NoTag]
    /\ empty_slots = Slots /\ nd = 0 /\ delete_set = {} /\ data_compacted = TRUE
    /\ location_to_labels = [x \in Rows |-> <<>>]
    /\ label_to_start_id = [x \in {} |-> 0]
    /\ frozen_pts_used = 0
    /\ given = [t \in Tags |-> <<>>]
    /\ misplaced = FALSE
    /\ search = None /\ label_map = FALSE

-----------------------------------------------------------------------------
\* The labels of an offer that no point had before.
NewLabels(offer) == {offer[i] : i \in 1 .. Len(offer)} \ DOMAIN label_to_start_id

\* Each takes the next frozen point, in the order of the offer, which is sorted,
\* and as long as there are any.
Room == NumFrozen - frozen_pts_used
Started(offer) == {x \in NewLabels(offer) : Rank(x, NewLabels(offer)) < Room}
StartOf(x, offer) == MaxPoints + frozen_pts_used + Rank(x, NewLabels(offer))

\* insert_point writes the labels of the reserved location, then those of the
\* frozen points that new labels take.
WriteLabels(l, offer) ==
    LET new == Started(offer)
    IN  /\ location_to_labels' =
               [r \in Rows |->
                  IF r = l THEN offer
                  ELSE IF \E x \in new : StartOf(x, offer) = r
                       THEN <<CHOOSE x \in new : StartOf(x, offer) = r>>
                       ELSE location_to_labels[r]]
        /\ label_to_start_id' =
               [x \in DOMAIN label_to_start_id \cup new |->
                  IF x \in DOMAIN label_to_start_id THEN label_to_start_id[x]
                  ELSE StartOf(x, offer)]
        /\ frozen_pts_used' = frozen_pts_used + Cardinality(new)

\* The universal label is a label only when the index has been told of it.
Offered(offer) == config.universal \/ ~Has(offer, Universal)

\* insert_point of a tag that is not present.  In a full index the labels would be
\* written at location -1 before the index is seen to be full, so the callers in
\* the repository leave room.
InsertPoint(t, offer) ==
    /\ nd < MaxPoints /\ Offered(offer)
    /\ t \notin Present
    /\ Cardinality(NewLabels(offer)) <= Room
    /\ \E l \in empty_slots :
          /\ WriteLabels(l, offer)
          /\ location_to_tag' = [location_to_tag EXCEPT ![l] = t]
          /\ empty_slots' = empty_slots \ {l}
    /\ nd' = nd + 1
    /\ given' = [given EXCEPT ![t] = offer]
    /\ UNCHANGED <<config, delete_set, data_compacted, misplaced, readerVars>>

\* A tag that is present: the location is given back, but its labels stay written
\* and the frozen points it took for new labels stay taken.
InsertDuplicate(t, offer) ==
    /\ nd < MaxPoints /\ Offered(offer)
    /\ t \in Present
    /\ Cardinality(NewLabels(offer)) <= Room
    /\ \E l \in empty_slots : WriteLabels(l, offer)
    /\ UNCHANGED <<config, slotVars, given, misplaced, readerVars>>

\* The frozen points run out: insert_point throws with the location reserved and
\* the labels before the one that failed started.
InsertThrow(t, offer) ==
    /\ nd < MaxPoints /\ Offered(offer)
    /\ Cardinality(NewLabels(offer)) > Room
    /\ \E l \in empty_slots :
          /\ WriteLabels(l, offer)
          /\ empty_slots' = empty_slots \ {l}
    /\ nd' = nd + 1
    /\ UNCHANGED <<config, location_to_tag, delete_set, data_compacted, given, misplaced,
                   readerVars>>

LazyDelete(t) ==
    /\ t \in Present
    /\ \E l \in Live :
          /\ location_to_tag[l] = t
          /\ delete_set' = delete_set \cup {l}
          /\ location_to_tag' = [location_to_tag EXCEPT ![l] = NoTag]
    /\ data_compacted' = FALSE
    /\ UNCHANGED <<config, empty_slots, nd, labelVars, readerVars>>

\* A tag that is not present is answered with -1; the index counts as not compacted
\* all the same.
DeleteAbsent(t) ==
    /\ t \notin Present
    /\ data_compacted' = FALSE
    /\ UNCHANGED <<config, location_to_tag, empty_slots, nd, delete_set, labelVars, readerVars>>

\* consolidate_deletes refuses when a location is neither tagged nor deleted.
CountsAgree == Cardinality(Live) + Cardinality(delete_set) = nd

\* Faulty variant: the consolidation does not wait for the searches.
ConsolidateAtOnce ==
    /\ CountsAgree /\ delete_set # {}
    /\ empty_slots' = empty_slots \cup delete_set
    /\ nd' = nd - Cardinality(delete_set)
    /\ delete_set' = {}
    /\ UNCHANGED <<config, location_to_tag, data_compacted, labelVars, readerVars>>

\* Without concurrent consolidation it takes _update_lock, which searches share.
Consolidate ==
    /\ CountsAgree /\ delete_set # {}
    /\ ~config.conc => search = None
    /\ empty_slots' = empty_slots \cup delete_set
    /\ nd' = nd - Cardinality(delete_set)
    /\ delete_set' = {}
    /\ UNCHANGED <<config, location_to_tag, data_compacted, labelVars, readerVars>>

-----------------------------------------------------------------------------
\* detect_common_filters, as a search invokes it with one label.
Matches(row, label) == Has(row, label) \/ (config.universal /\ Has(row, Universal))

\* get_converted_label: only a save or a load reads the label map; without it a
\* filter is the universal label, or an exception where there is none.
SearchBegin(label) ==
    /\ search = None
    /\ label_map \/ config.universal
    /\ search' = [label |-> IF label_map THEN label ELSE Universal, found |-> {}]
    /\ UNCHANGED <<config, slotVars, labelVars, label_map>>

\* iterate_to_fixed_point takes the points that match; the graph still leads to
\* the deleted ones.
SearchVisit(l) ==
    /\ search # None
    /\ l \in (Live \cup delete_set) \ search.found
    /\ Matches(location_to_labels[l], search.label)
    /\ search' = [search EXCEPT !.found = @ \cup {l}]
    /\ UNCHANGED <<config, slotVars, labelVars, label_map>>

\* search_with_tags: the locations are turned into tags after the traversal.
Answer == {location_to_tag[l] : l \in search.found \cap Live}

SearchEnd ==
    /\ search # None
    /\ search' = None
    /\ UNCHANGED <<config, slotVars, labelVars, label_map>>

-----------------------------------------------------------------------------
Swapped(rows, a, b) == [r \in Rows |-> rows[IF r = a THEN b ELSE IF r = b THEN a ELSE r]]

\* A loop of num swaps, each of a pair of locations: the rows after every round.
Swapping(rows, pairs, num) ==
    LET after[n \in 0 .. num] ==
            IF n = 0 THEN rows ELSE Swapped(after[n - 1], pairs[n][1], pairs[n][2])
    IN  after
AfterSwaps(rows, pairs, num) == Swapping(rows, pairs, num)[num]

\* compact_data: the live location l moves down past the free ones.
NewLocation(l) == Rank(l, Live)

\* Faulty variant: compact_data moves the points without their label lists.
CompactedUnmoved(rows) == [r \in Rows |-> IF r \in nd .. MaxPoints - 1 THEN <<>> ELSE rows[r]]

\* The lists are swapped on the way, in the order of the old locations, and what
\* is left from nd on is cleared.
CompactPairs ==
    [n \in 1 .. MaxPoints |-> <<IF n - 1 \in Live THEN NewLocation(n - 1) ELSE n - 1, n - 1>>]
Compacted(rows) ==
    LET moved == AfterSwaps(rows, CompactPairs, MaxPoints)
    IN  [r \in Rows |-> IF r \in nd .. MaxPoints - 1 THEN <<>> ELSE moved[r]]

\* reposition_points of the frozen points, down to nd and back up.
DownPairs == [n \in 1 .. NumFrozen |-> <<nd + n - 1, MaxPoints + n - 1>>]
MovedDown(rows) == IF nd = MaxPoints THEN rows ELSE AfterSwaps(rows, DownPairs, NumFrozen)

\* Faulty variant: the moves up go in the order of the moves down.
MovedUpAscending(rows) ==
    IF nd = MaxPoints THEN rows ELSE AfterSwaps(rows, DownPairs, NumFrozen)

UpPairs == [n \in 1 .. NumFrozen |-> <<MaxPoints + NumFrozen - n, nd + NumFrozen - n>>]
MovedUp(rows) == IF nd = MaxPoints THEN rows ELSE AfterSwaps(rows, UpPairs, NumFrozen)

\* Faulty variant: the starts are written as they are outside save.
StartsUnmoved == label_to_start_id

\* compact_frozen_point renames the start points of the labels.
StartsInFile ==
    [x \in DOMAIN label_to_start_id |->
        IF nd = MaxPoints THEN label_to_start_id[x] ELSE nd + (label_to_start_id[x] - MaxPoints)]

\* It waits for the searches, and throws when deleted points remain.
SaveAllowed == search = None /\ delete_set = {}

\* The index while its files are written: points from 0 on, frozen points behind.  An
\* index that counts as compacted is left as it is: one that no deletion has touched
\* may have points at any slots, and those from _nd on are not in the files.
SavedRows == MovedDown(IF data_compacted THEN location_to_labels
                       ELSE Compacted(location_to_labels))
SavedTags ==
    IF data_compacted THEN location_to_tag
    ELSE [l \in Slots |-> IF l < Cardinality(Live)
                          THEN location_to_tag[CHOOSE k \in Live : NewLocation(k) = l]
                          ELSE NoTag]

Files == [tags   |-> [l \in 0 .. nd - 1 |-> SavedTags[l]],
          labels |-> [x \in 0 .. nd + NumFrozen - 1 |-> SavedRows[x]],
          labels_to_medoids |-> StartsInFile]

TagsInFile == {Files.tags[l] : l \in DOMAIN Files.tags} \ {NoTag}

\* save(filename, true), under all locks.  The labels of points in rows that the frozen
\* points are moved to come back with these; IndexSave has what becomes of the vectors.
Save ==
    /\ SaveAllowed
    /\ location_to_labels' = MovedUp(SavedRows)
    /\ location_to_tag' = SavedTags
    /\ empty_slots' = IF data_compacted THEN empty_slots ELSE nd .. MaxPoints - 1
    /\ data_compacted' = TRUE
    /\ label_map' = TRUE
    /\ UNCHANGED <<config, nd, delete_set, label_to_start_id, frozen_pts_used, given, misplaced,
                   search>>

\* load, as search_memory_index calls it: the index is made for as many points as
\* the files have, so that nothing has to be moved.  A location without a tag
\* comes back under the tag reserved for hidden points.
LoadedTags == [l \in DOMAIN Files.tags |->
                  IF Files.tags[l] = NoTag THEN HiddenTag ELSE Files.tags[l]]

IndexNext ==
    \/ \E t \in config.tags, offer \in config.offers :
          InsertPoint(t, offer) \/ InsertDuplicate(t, offer) \/ InsertThrow(t, offer)
    \/ \E t \in Tags : LazyDelete(t)
    \/ \E t \in config.tags : DeleteAbsent(t)
    \/ Consolidate
    \/ \E label \in Labels : SearchBegin(label)
    \/ \E l \in Slots : SearchVisit(l)
    \/ SearchEnd \/ Save

\* An index whose callers do as they like.
IndexSpec == IndexInit /\ [][IndexNext]_indexVars

-----------------------------------------------------------------------------

\* A tag's location has the labels the tag was inserted with, whatever labels
\* refused insertions wrote elsewhere, whatever was deleted and reused, and
\* wherever a save with compaction has moved the point: unless a save without
\* compaction has exchanged the rows from _nd on with those of the frozen points.
LabelsFollowTags ==
    ~misplaced => \A l \in Live : location_to_labels[l] = given[location_to_tag[l]]

\* Every label that was ever offered has a frozen point of its own, which has that
\* label and no other: also after an insertion ran out of frozen points half-way
\* through its labels, and after saves with compaction have moved the frozen points
\* and back.  A save without it moves those of an index that is not full up although
\* nothing has moved them down, and from then on this is lost.
EveryLabelHasAStart ==
    ~misplaced =>
        /\ Cardinality(DOMAIN label_to_start_id) = frozen_pts_used
        /\ \A x \in DOMAIN label_to_start_id :
              /\ label_to_start_id[x] \in MaxPoints .. MaxPoints + frozen_pts_used - 1
              /\ location_to_labels[label_to_start_id[x]] = <<x>>

\* Without concurrent consolidation, a tag that was answered has the label that
\* was asked for, although tags are looked up after the traversal and locations
\* may have been deleted in between.
AnswersHaveLabel ==
    search # None /\ ~config.conc =>
        \A t \in Answer : Matches(given[t], search.label)

\* What a save with compaction writes.  A tag in the files is there once and has the
\* labels it was given; every label has a row behind the points that has it; and a
\* point is left out only by an index that counts as compacted, and only from a row
\* from _nd on, which the files do not reach.  So a load finds it, in a build without
\* assertions: with them it stops at index.cpp:597, which has the label file end
\* before the frozen points.
LoadKeepsLabels ==
    SaveAllowed /\ ~misplaced =>
        /\ \A l \in Live : (data_compacted => l < nd) =>
              \E k \in DOMAIN LoadedTags : LoadedTags[k] = location_to_tag[l]
        /\ \A l, k \in DOMAIN LoadedTags :
              LoadedTags[l] # HiddenTag =>
                  /\ Files.labels[l] = given[LoadedTags[l]]
                  /\ LoadedTags[k] = LoadedTags[l] => k = l
        /\ \A x \in DOMAIN label_to_start_id :
              LET start == Files.labels_to_medoids[x]
              IN  start \in nd .. nd + NumFrozen - 1 /\ Files.labels[start] = <<x>>
=============================================================================
