------------------------- MODULE StreamingScenario -------------------------
(***************************************************************************)
(* apps/test_streaming_scenario.cpp: a window slides over a file of        *)
(* points.  The main thread has a batch inserted by parallel threads, then *)
(* waits for the task that deletes the batch before last and starts the    *)
(* next one, which runs beside the next insertions.                        *)
(*                                                                         *)
(* The index is LabelledIndex, made with active_window + 4 *               *)
(* consolidate_interval slots and without concurrent consolidation;        *)
(* config.call has the other arguments.                                    *)
(***************************************************************************)
EXTENDS LabelledIndex

CONSTANTS
    ActiveWindow,         \* active_window
    ConsolidateInterval,  \* consolidate_interval
    FileLabels,           \* pts_to_labels: the label file, a list per point
    InsertThreads         \* insert_threads

\* parse_formatted_label_file gives every point a list that an index may be offered.  Without a
\* frozen point per label (unique_labels_supported) an insertion throws.
ASSUME StreamAssumption ==
    /\ ActiveWindow \in Nat \ {0} /\ ConsolidateInterval \in Nat \ {0}
    /\ InsertThreads \in Nat \ {0}
    /\ FileLabels \in Seq(Offers) /\ Tags = 1 .. Len(FileLabels)
    /\ \A c \in Configs : c.user = "streaming" => c.call.max_points \in Nat
    /\ None \notin [first : Int, last : Int, step : {"launched", "delete", "over"}]

MaxPointsToInsert ==
    IF config.call.max_points = 0 THEN Len(FileLabels) ELSE config.call.max_points

VARIABLES
    main,     \* where the main thread is
    start,    \* the loop's start
    pending,  \* points of the batch not yet inserted
    task,     \* the last delete task
    lost      \* history: a task read its captured range too late

streamVars == <<main, start, pending, task, lost>>
scenarioVars == <<indexVars, streamVars>>

\* with_max_points
Capacity == ActiveWindow + 4 * ConsolidateInterval

StreamInit ==
    /\ IndexInit
    /\ main = "start" /\ start = 0
    /\ pending = {}
    /\ task = None /\ lost = FALSE

\* main, and build_incremental_index before its first batch: arguments that cannot
\* be, and ranges that the file or the window does not allow, end the program.
KnownArguments ==
    /\ config.call.complete /\ config.call.start_point_norm
    /\ config.call.label_type \in {"ushort", "uint"}
    /\ config.call.data_type \in {"int8", "uint8", "float"}
    /\ config.call.dist_fn \in {"l2", "mips"}
RangeFits ==
    /\ MaxPointsToInsert <= Len(FileLabels)
    /\ MaxPointsToInsert >= ActiveWindow + ConsolidateInterval
    /\ ConsolidateInterval >= MaxPointsToInsert \div 1000

RefuseStream ==
    /\ main = "start" /\ ~(KnownArguments /\ RangeFits)
    /\ main' = "end"
    /\ UNCHANGED <<indexVars, start, pending, task, lost>>

StartStream ==
    /\ main = "start" /\ KnownArguments /\ RangeFits
    /\ main' = "insert"
    /\ pending' = 0 .. ActiveWindow - 1
    /\ UNCHANGED <<indexVars, start, task, lost>>

BatchEnd == IF start = 0 THEN ActiveWindow ELSE start + ConsolidateInterval

\* insert_next_batch: the parallel loop hands the points out in order, and looks
\* their labels up by their place in the batch.
LabelsOf(j) == FileLabels[j - start + 1]
Handed == {j \in pending : Cardinality({k \in pending : k < j}) < InsertThreads}

InsertNext(j) ==
    /\ main = "insert"
    /\ j \in Handed
    /\ InsertPoint(j + 1, LabelsOf(j))
    /\ pending' = pending \ {j}
    /\ UNCHANGED <<main, start, task, lost>>

\* The labels of a point that finds the index full are written at location -1;
\* what the program does from there on cannot be told.
InsertFull(j) ==
    /\ main = "insert"
    /\ j \in Handed
    /\ nd = MaxPoints
    /\ main' = "end"
    /\ UNCHANGED <<indexVars, start, pending, task, lost>>

\* Faulty variant: it waits for a task that was never started.
TaskStartedAndOver == task # None /\ task.step = "over"

TaskOver == task # None => task.step = "over"

\* insert_task.wait() and delete_tasks.back().wait()
AfterBatch ==
    /\ main = "insert" /\ pending = {}
    /\ start = 0 \/ TaskOver
    /\ main' = IF start >= ActiveWindow + ConsolidateInterval THEN "launch" ELSE "next"
    /\ UNCHANGED <<indexVars, start, pending, task, lost>>

\* std::async: the task has references to start_del and end_del, which end with
\* the block.
Launch ==
    /\ main = "launch"
    /\ main' = "in_block"
    /\ task' = [first |-> start - ActiveWindow - ConsolidateInterval,
                last |-> start - ActiveWindow, step |-> "launched"]
    /\ UNCHANGED <<indexVars, start, pending, lost>>

LeaveBlock ==
    /\ main = "in_block"
    /\ main' = "next"
    /\ UNCHANGED <<indexVars, start, pending, task, lost>>

NextBatch ==
    /\ main = "next"
    /\ LET next == BatchEnd
       IN  IF next + ConsolidateInterval <= MaxPointsToInsert
           THEN /\ start' = next
                /\ pending' = next .. next + ConsolidateInterval - 1
                /\ main' = "insert"
           ELSE main' = "last_wait" /\ UNCHANGED <<start, pending>>
    /\ UNCHANGED <<indexVars, task, lost>>

\* The new thread reads the range.  Once the block has been left the two variables
\* are gone, and what the task reads may be the range, no range or all there is.
TaskBegin ==
    /\ task # None /\ task.step = "launched"
    /\ \E range \in {<<task.first, task.last>>, <<0, 0>>, <<0, MaxPointsToInsert>>} :
          /\ main = "in_block" => range = <<task.first, task.last>>
          /\ task' = [first |-> range[1], last |-> range[2], step |-> "delete"]
          /\ lost' = (lost \/ range # <<task.first, task.last>>)
    /\ UNCHANGED <<indexVars, main, start, pending>>

\* delete_and_consolidate
TaskDelete ==
    /\ task # None /\ task.step = "delete" /\ task.first < task.last
    /\ LazyDelete(task.first + 1) \/ DeleteAbsent(task.first + 1)
    /\ task' = [task EXCEPT !.first = @ + 1]
    /\ UNCHANGED <<main, start, pending, lost>>

\* The consolidation is tried again every five seconds until it succeeds.
TaskConsolidate ==
    /\ task # None /\ task.step = "delete" /\ task.first = task.last
    /\ IF delete_set = {} THEN CountsAgree /\ UNCHANGED indexVars ELSE Consolidate
    /\ task' = [task EXCEPT !.step = "over"]
    /\ UNCHANGED <<main, start, pending, lost>>

\* The last delete_tasks.back().wait(), and save.
LastWait ==
    /\ main = "last_wait" /\ TaskOver
    /\ main' = "save"
    /\ UNCHANGED <<indexVars, start, pending, task, lost>>

\* save throws while deleted points remain.
SaveWindow ==
    /\ main = "save"
    /\ IF delete_set = {} THEN Save ELSE UNCHANGED indexVars
    /\ main' = "end"
    /\ UNCHANGED <<start, pending, task, lost>>

StreamNext ==
    \/ RefuseStream \/ StartStream
    \/ \E j \in pending : InsertNext(j) \/ InsertFull(j)
    \/ AfterBatch \/ Launch \/ LeaveBlock \/ NextBatch \/ LastWait \/ SaveWindow
    \/ TaskBegin \/ TaskDelete \/ TaskConsolidate

-----------------------------------------------------------------------------
\* The program ends, although the main thread waits for tasks and tasks for the
\* index.
StreamEnds == config.user = "streaming" => <>(main = "end")

\* A run that ends has kept the window: no insertion met a full index, although the
\* tasks run up to two batches behind, and each took away the batch before the
\* window.  Once the window has moved all of it is in the file, which has what the
\* index has then; before, no deletion has made save compact the index, and points at
\* rows from _nd on are not in the file.  A task that has lost its range may have
\* taken away all of the window, or nothing.
WindowSaved ==
    config.user = "streaming" /\ main = "end" /\ KnownArguments /\ RangeFits /\ ~lost =>
        LET moved == start >= ActiveWindow + ConsolidateInterval
            first == IF moved THEN start - ActiveWindow ELSE 0
        IN  /\ Present = {j + 1 : j \in first .. BatchEnd - 1}
            /\ moved => delete_set = {} /\ TagsInFile = Present
=============================================================================
