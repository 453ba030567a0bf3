--------------------------- MODULE FilteredIndex ---------------------------
(***************************************************************************)
(* The ways a dynamic or filtered index comes about: callers insert,        *)
(* delete, save and search as they like; test_streaming_scenario slides a  *)
(* window over a file; test_insert_deletes_consolidate adds to a beginning *)
(* and takes it away; build_stitched_index stitches the graphs of the      *)
(* labels.  config.user says which of them is at work.                     *)
(***************************************************************************)
EXTENDS StreamingScenario, InsertDeletes, StitchedIndex

filteredVars == <<scenarioVars, driverVars, stitchVars>>

Init ==
    /\ StreamInit /\ DriverInit /\ StitchInit
    /\ config.user = "streaming" => config.max_points = Capacity /\ ~config.conc
    \* A capacity of no points is made one.
    /\ config.user = "insert_deletes" =>
          /\ config.max_points = IF config.call.max_points = 0 THEN 1 ELSE config.call.max_points
          /\ config.conc = config.call.do_concurrent

\* One label file is enough for the uses that do not read it.
OneFile == CHOOSE file \in Labelled : TRUE

FilteredInit ==
    /\ Init
    /\ config.user # "stitching" => file_labels = OneFile /\ raw_is_formatted

FilteredNext ==
    \/ config.user = "callers" /\ IndexNext /\ UNCHANGED <<streamVars, driverVars, stitchVars>>
    \/ config.user = "streaming" /\ StreamNext /\ UNCHANGED <<driverVars, stitchVars>>
    \/ config.user = "insert_deletes" /\ DriverNext /\ UNCHANGED <<streamVars, stitchVars>>
    \/ config.user = "stitching" /\ StitchNext /\ UNCHANGED <<scenarioVars, driverVars>>

\* The threads of the streaming program are scheduled as long as they can go on.
FilteredSpec ==
    FilteredInit /\ [][FilteredNext]_filteredVars
    /\ WF_filteredVars(config.user = "streaming" /\ StreamNext /\ UNCHANGED <<driverVars, stitchVars>>)
-----------------------------------------------------------------------------
\* A run of either program leaves a file of what its name says (get_save_filename,
\* test_streaming_scenario.cpp:78 and test_insert_deletes_consolidate.cpp:81): the
\* window, or the range without its beginning, however tasks and batches are scheduled,
\* where the deletions have made save compact the index or it is full.  What it does
\* not cover is named at WindowSaved and RangeSaved.
SavedIsAsked == WindowSaved /\ RangeSaved
=============================================================================
