--------------------------- MODULE InsertDeletes ---------------------------
(***************************************************************************)
(* apps/test_insert_deletes_consolidate.cpp: an index is built of the      *)
(* first points of a file or starts empty, takes more points batch by      *)
(* batch, loses the first ones again, and is saved.  With --do_concurrent  *)
(* a task deletes beside the later batches.                                *)
(*                                                                         *)
(* The index is LabelledIndex; config.call is the command line.            *)
(***************************************************************************)
EXTENDS LabelledIndex

CONSTANTS
    DataLabels,  \* the label file, a list per row of the data file
    Threads,     \* num_threads
    Absent       \* no exit code, no file

\* Arguments the program takes as they are: a batch of no points would never end,
\* a beginning larger than the index would be written past its end, and the index
\* needs a frozen point per label (unique_labels_supported).
ASSUME DriverAssumption ==
    /\ Threads \in Nat \ {0}
    /\ DataLabels \in Seq(Offers) /\ 1 .. Len(DataLabels) \subseteq Tags
    /\ \A c \in Configs : c.user = "insert_deletes" =>
          /\ c.call.per \in Nat \ {0} /\ c.call.skip \in Nat /\ c.call.max_points \in Nat
          /\ c.call.beginning \in Nat /\ c.call.delete \in Nat
          /\ c.call.per_snapshot \in Nat /\ c.call.do_concurrent \in BOOLEAN
    /\ None \notin [next : Int, step : {"delete", "over", "failed"}]

VARIABLES
    driver,  \* the main thread: at, start of the batch, pending rows, till_snapshot, exit
    eraser,  \* delete_task: the next row and the step, None before it is launched
    saved    \* the tags in the file that the last save has written

driverVars == <<driver, eraser, saved>>

Call == config.call
LeastOf(a, b) == IF a < b THEN a ELSE b

DriverInit ==
    /\ driver = [at |-> "begin", start |-> 0, pending |-> {}, till_snapshot |-> 0, exit |-> Absent]
    /\ eraser = None /\ saved = Absent

At(place) == driver.at = place
GoTo(place) == driver' = [driver EXCEPT !.at = place]
Exit(code) == driver' = [driver EXCEPT !.at = "end", !.exit = code]

(***************************************************************************)
(* main, and the start of build_incremental_index.  The end of the range    *)
(* and the size of the index come from max_points_to_insert as it was       *)
(* asked, before it is corrected by the size of the file.                   *)
(***************************************************************************)
Accepted == Call.complete /\ (Call.beginning = 0 => Call.start_point_norm)
FileRows == Len(DataLabels)
LastThreshold == Call.skip + Call.max_points
ToInsert == LeastOf(IF Call.max_points = 0 THEN FileRows ELSE Call.max_points, FileRows - Call.skip)
Beginning ==
    LET fits == LeastOf(Call.beginning, ToInsert)
    IN  IF Call.per_snapshot > 0 THEN LeastOf(fits, Call.per) ELSE fits
\* points_to_delete_from_beginning; tags are rows + 1.
DeleteEnd == Call.skip + LeastOf(Call.delete, ToInsert)
TagOfRow(j) == j + 1

RefuseDriver ==
    /\ At("begin") /\ ~Accepted
    /\ Exit(-1)
    /\ UNCHANGED <<indexVars, eraser, saved>>

\* An unknown type is reported, with the exit code of success.
UnknownType ==
    /\ At("begin") /\ Accepted /\ Call.data_type \notin {"float", "int8", "uint8"}
    /\ Exit(0)
    /\ UNCHANGED <<indexVars, eraser, saved>>

\* build puts the first rows in the first slots, which stay in _empty_slots.
BuildBeginning ==
    /\ Beginning <= MaxPoints
    /\ location_to_tag' = [l \in Slots |-> IF l < Beginning THEN TagOfRow(Call.skip + l) ELSE NoTag]
    /\ nd' = Beginning
    /\ UNCHANGED <<config, empty_slots, delete_set, data_compacted, labelVars, readerVars>>

Begin ==
    /\ At("begin") /\ Accepted /\ Call.data_type \in {"float", "int8", "uint8"}
    /\ IF Call.skip > FileRows
       THEN Exit(-1) /\ UNCHANGED indexVars
       ELSE /\ driver' = [driver EXCEPT !.at = "next", !.start = Call.skip + Beginning,
                                        !.till_snapshot = Call.per_snapshot]
            /\ IF Beginning > 0 THEN BuildBeginning ELSE UNCHANGED indexVars
    /\ UNCHANGED <<eraser, saved>>

(***************************************************************************)
(* The batches.  Reading past the end of the file throws: in the task of    *)
(* the concurrent mode, whose future is waited for and never asked.         *)
(***************************************************************************)
BatchEndRow == LeastOf(driver.start + Call.per, LastThreshold)

NextInserts ==
    /\ At("next") /\ driver.start < LastThreshold
    /\ IF BatchEndRow <= FileRows
       THEN driver' = [driver EXCEPT !.at = "insert", !.pending = driver.start .. BatchEndRow - 1]
       ELSE IF Call.do_concurrent THEN GoTo("insert") ELSE Exit(-1)
    /\ UNCHANGED <<indexVars, eraser, saved>>

\* insert_till_next_checkpoint: the labels are looked up by the place in the batch.
Handing(j) ==
    /\ At("insert") /\ j \in driver.pending
    /\ Cardinality({k \in driver.pending : k < j}) < Threads
OfferOf(j) == IF Call.labels THEN DataLabels[j - driver.start + 1] ELSE <<>>

\* iterate_to_fixed_point throws at a start past the last row, which a snapshot may
\* have left a label with.
StartsInRows(offer) ==
    \A i \in 1 .. Len(offer) :
        offer[i] \in DOMAIN label_to_start_id => label_to_start_id[offer[i]] \in Rows

\* The slots that build has filled are the last that pop_any would give.
InsertRow(j) ==
    /\ Handing(j) /\ StartsInRows(OfferOf(j))
    /\ InsertPoint(TagOfRow(j), OfferOf(j))
    /\ \A l \in Live \cup delete_set : location_to_tag'[l] = location_to_tag[l]
    /\ driver' = [driver EXCEPT !.pending = @ \ {j}]
    /\ UNCHANGED <<eraser, saved>>

\* Nothing catches it in the parallel loop, and the program ends.
InsertLost(j) ==
    /\ Handing(j) /\ ~StartsInRows(OfferOf(j))
    /\ Exit(-1)
    /\ UNCHANGED <<indexVars, eraser, saved>>

\* The wrong variant deletes as soon as enough has been inserted, whichever rows.
MayDeleteAnyRows == BatchEndRow >= Call.delete_after
MayDelete == BatchEndRow >= Call.delete_after /\ BatchEndRow >= DeleteEnd

Advance == driver' = [driver EXCEPT !.at = "next", !.start = @ + Call.per]

LaunchDeletes ==
    /\ At("insert") /\ driver.pending = {} /\ Call.do_concurrent
    /\ eraser' = IF eraser = None /\ MayDelete
                 THEN [next |-> Call.skip, step |-> "delete"] ELSE eraser
    /\ Advance
    /\ UNCHANGED <<indexVars, saved>>

\* save(snapshot, false) writes the files as they are, and then moves the frozen
\* points up although nothing has moved them down, unless the index is full.
MoveFrozenUp ==
    /\ location_to_labels' = MovedUp(location_to_labels)
    /\ label_to_start_id' = [x \in DOMAIN label_to_start_id |->
                               IF nd = MaxPoints THEN label_to_start_id[x]
                               ELSE MaxPoints + (label_to_start_id[x] - nd)]
    /\ misplaced' = (misplaced \/ nd # MaxPoints)
    /\ UNCHANGED <<config, slotVars, frozen_pts_used, given, readerVars>>

Snapshot ==
    /\ At("insert") /\ driver.pending = {} /\ ~Call.do_concurrent
    /\ IF driver.till_snapshot = 1
       THEN /\ MoveFrozenUp
            /\ driver' = [driver EXCEPT !.at = "next", !.start = @ + Call.per,
                                        !.till_snapshot = Call.per_snapshot]
       ELSE /\ UNCHANGED indexVars
            /\ driver' = [driver EXCEPT !.at = "next", !.start = @ + Call.per,
                                        !.till_snapshot = IF @ = 0 THEN 0 ELSE @ - 1]
    /\ UNCHANGED <<eraser, saved>>

(***************************************************************************)
(* delete_from_beginning, in its task or after the batches.  It catches     *)
(* system_error alone; the counts of a built index do not add up, which     *)
(* consolidate_deletes throws.  Any status that it returns is taken.        *)
(***************************************************************************)
StartDeletes ==
    /\ At("next") /\ driver.start >= LastThreshold /\ ~Call.do_concurrent
    /\ IF Call.delete > 0 /\ ToInsert > 0
       THEN eraser' = [next |-> Call.skip, step |-> "delete"] /\ GoTo("wait")
       ELSE GoTo("save") /\ UNCHANGED eraser
    /\ UNCHANGED <<indexVars, saved>>

Deleting == eraser # None /\ eraser.step = "delete"
EraseRow ==
    /\ Deleting /\ eraser.next < DeleteEnd
    /\ LazyDelete(TagOfRow(eraser.next)) \/ DeleteAbsent(TagOfRow(eraser.next))
    /\ eraser' = [eraser EXCEPT !.next = @ + 1]
    /\ UNCHANGED <<driver, saved>>

SlotsAddUp == Cardinality(empty_slots) + nd = MaxPoints
EraseConsolidate ==
    /\ Deleting /\ eraser.next >= DeleteEnd
    /\ IF SlotsAddUp /\ CountsAgree /\ delete_set # {} THEN Consolidate ELSE UNCHANGED indexVars
    /\ eraser' = [eraser EXCEPT !.step = IF SlotsAddUp THEN "over" ELSE "failed"]
    /\ UNCHANGED <<driver, saved>>

\* delete_task.wait(): a future without a task throws, one with an exception does not.
JoinDeletes ==
    /\ At("next") /\ driver.start >= LastThreshold /\ Call.do_concurrent
    /\ ~Deleting
    /\ IF eraser = None THEN Exit(-1) ELSE GoTo("save")
    /\ UNCHANGED <<indexVars, eraser, saved>>

AfterDeletes ==
    /\ At("wait") /\ ~Deleting
    /\ IF eraser.step = "failed" THEN Exit(-1) ELSE GoTo("save")
    /\ UNCHANGED <<indexVars, eraser, saved>>

(***************************************************************************)
(* The last save compacts, and throws while deleted points remain.  An      *)
(* index that no deletion has touched is written as it lies.                *)
(***************************************************************************)
SaveLast ==
    /\ At("save")
    /\ IF delete_set # {}
       THEN Exit(-1) /\ UNCHANGED <<indexVars, saved>>
       ELSE Exit(0) /\ Save /\ saved' = TagsInFile
    /\ UNCHANGED eraser

DriverNext ==
    \/ RefuseDriver \/ UnknownType \/ Begin
    \/ NextInserts \/ LaunchDeletes \/ Snapshot \/ StartDeletes \/ JoinDeletes \/ AfterDeletes \/ SaveLast
    \/ \E j \in driver.pending : InsertRow(j) \/ InsertLost(j)
    \/ EraseRow \/ EraseConsolidate

-----------------------------------------------------------------------------
\* A run that ends well has written the rows it is named after (get_save_filename:
\* points skipped, deleted, and the last point), those that were inserted and not
\* deleted, in either mode and whenever the deletions overtake or fall behind the
\* batches.  Of runs whose range goes past the file it says nothing: the concurrent
\* mode ends well without the last batch, and with slots left over, so that without
\* deletions its points are not where the files reach; nor of --max_points 0, which is
\* read as an empty range.
RangeSaved ==
    config.user = "insert_deletes" /\ At("end") /\ driver.exit = 0 /\ Call.data_type = "float"
        /\ Call.max_points > 0 /\ LastThreshold <= FileRows =>
        saved = {TagOfRow(j) : j \in DeleteEnd .. LastThreshold - 1}
=============================================================================
