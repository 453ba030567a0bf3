--------------------------- MODULE StitchedIndex ---------------------------
(***************************************************************************)
(* apps/build_stitched_index.cpp with src/filter_utils.cpp: a static       *)
(* filtered index is made by building one graph per label over the points  *)
(* that have it and stitching these graphs together.                       *)
(*                                                                         *)
(* A label's own graph is arbitrary (GraphBuild has how build makes one),  *)
(* and so is the choice a pruning makes among a list's neighbours.         *)
(***************************************************************************)
EXTENDS Integers, Sequences, FiniteSets, SequencesExt, Ranks

CONSTANTS
    Labelled,     \* label files: a set of labels per line
    UniversalId,  \* 0, which convert_labels_string_to_int gives the universal label
    MaxOut,       \* bound on the lists of a label's graph
    StitchedR     \* stitched_R

\* A line is not empty, and the universal label is alone on its line
\* (src/workflows/filtered_in_memory.md:31).
ASSUME StitchAssumption ==
    /\ \A file \in Labelled : file \in Seq(UNION {ToSet(f) : f \in Labelled})
    /\ \A file \in Labelled : \A p \in DOMAIN file :
          file[p] # {} /\ (UniversalId \in file[p] => file[p] = {UniversalId})
    /\ MaxOut \in Nat /\ StitchedR \in Nat \ {0}

VARIABLES
    stage,             \* which step of main comes next
    file_labels,       \* the formatted label file
    raw_is_formatted,  \* whether the universal label is given as the number it becomes
    label_points,      \* label_id_to_orig_id_map: a label's points in order
    label_graph,       \* the label's graph, over positions in that order
    stitched_graph,    \* stitched_graph, a list per point
    final_index_size,  \* final_index_size, in words of four bytes
    entry_points,      \* label_entry_points
    overrun,           \* history: labels whose entry point was read past the end
    full_index         \* what save_full_index and prune_and_save wrote

stitchVars == <<stage, file_labels, raw_is_formatted, label_points, label_graph,
                stitched_graph, final_index_size, entry_points, overrun, full_index>>

Points == 0 .. Len(file_labels) - 1
LabelsOfPoint(p) == file_labels[p + 1]
NotYet == <<>>

StitchInit ==
    /\ stage = "parse"
    /\ file_labels \in Labelled
    /\ raw_is_formatted \in BOOLEAN
    /\ label_points = NotYet /\ label_graph = NotYet
    /\ stitched_graph = NotYet /\ entry_points = NotYet
    /\ final_index_size = 0 /\ overrun = {} /\ full_index = NotYet

-----------------------------------------------------------------------------

\* parse_label_file compares the tokens of the formatted file with the universal
\* label as the user gave it.
IsUniversal(token) == raw_is_formatted /\ token = UniversalId

UniversalPoints == {p \in Points : \E token \in LabelsOfPoint(p) : IsUniversal(token)}
AllLabelsOfFile ==
    {token \in UNION {LabelsOfPoint(p) : p \in Points} : ~IsUniversal(token)}

PointIdsToLabels(p) ==
    IF p \in UniversalPoints THEN AllLabelsOfFile ELSE LabelsOfPoint(p)

\* generate_label_specific_vector_files: a label's points in the order of the file.
PointsWith(lbl) == RankOrder({p \in Points : lbl \in PointIdsToLabels(p)})

Parse ==
    /\ stage = "parse"
    /\ label_points' = [lbl \in AllLabelsOfFile |-> PointsWith(lbl)]
    /\ label_graph' = [lbl \in {} |-> <<>>]
    /\ stitched_graph' = [p \in Points |-> <<>>]
    /\ entry_points' = [lbl \in {} |-> 0]
    /\ stage' = "build"
    /\ UNCHANGED <<file_labels, raw_is_formatted, final_index_size, overrun, full_index>>

Positions(lbl) == 0 .. Len(label_points[lbl]) - 1

\* generate_label_indices, for one label.
BuildLabelIndex(lbl) ==
    /\ stage = "build"
    /\ lbl \in DOMAIN label_points \ DOMAIN label_graph
    /\ \E g \in [Positions(lbl) -> {S \in SUBSET Positions(lbl) : Cardinality(S) <= MaxOut}] :
          /\ \A x \in Positions(lbl) : x \notin g[x]
          /\ label_graph' = [y \in DOMAIN label_graph \cup {lbl} |->
                               IF y = lbl THEN [x \in Positions(lbl) |-> RankOrder(g[x])]
                               ELSE label_graph[y]]
    /\ UNCHANGED <<stage, file_labels, raw_is_formatted, label_points, stitched_graph,
                   final_index_size, entry_points, overrun, full_index>>

BuildEnd ==
    /\ stage = "build" /\ DOMAIN label_graph = DOMAIN label_points
    /\ stage' = "stitch"
    /\ UNCHANGED <<file_labels, raw_is_formatted, label_points, label_graph, stitched_graph,
                   final_index_size, entry_points, overrun, full_index>>

-----------------------------------------------------------------------------
\* Faulty variant: the neighbours keep their positions in the label's graph.
RenamedAsIs(lbl, x) == label_graph[lbl][x]

\* A list of the label's graph with the points' own numbers.
Renamed(lbl, x) ==
    [i \in 1 .. Len(label_graph[lbl][x]) |-> label_points[lbl][label_graph[lbl][x][i] + 1]]

\* Only neighbours that are not yet in the list are added.
Added(list, new) ==
    list \o Picked(new, {i \in 1 .. Len(new) : \A j \in 1 .. Len(list) : list[j] # new[i]})

\* stitch_label_indices, for one label.  random(0, n) includes n, so the entry
\* point may be read one past the end of the label's points.
StitchLabel(lbl) ==
    LET list(p) ==
            IF \E x \in Positions(lbl) : label_points[lbl][x + 1] = p
            THEN Added(stitched_graph[p],
                       Renamed(lbl, CHOOSE x \in Positions(lbl) : label_points[lbl][x + 1] = p))
            ELSE stitched_graph[p]
    IN  /\ stage = "stitch"
        /\ lbl \in DOMAIN label_graph \ DOMAIN entry_points
        /\ stitched_graph' = [p \in Points |-> list(p)]
        /\ final_index_size' = final_index_size +
               FoldLeft(LAMBDA sum, p : sum + Len(list(p)) - Len(stitched_graph[p]), 0,
                        RankOrder(Points))
        /\ \E pick \in 0 .. Len(label_points[lbl]) :
              \E entry \in IF pick = Len(label_points[lbl]) THEN Points
                           ELSE {label_points[lbl][pick + 1]} :
                 /\ entry_points' = [y \in DOMAIN entry_points \cup {lbl} |->
                                       IF y = lbl THEN entry ELSE entry_points[y]]
                 /\ overrun' = IF pick = Len(label_points[lbl]) THEN overrun \cup {lbl}
                               ELSE overrun
        /\ UNCHANGED <<stage, file_labels, raw_is_formatted, label_points, label_graph, full_index>>

\* Metadata of six words, and a word per list for its length.
Header == 6

StitchEnd ==
    /\ stage = "stitch" /\ DOMAIN entry_points = DOMAIN label_graph
    /\ final_index_size' = final_index_size + Len(file_labels) + Header
    /\ stage' = "save"
    /\ UNCHANGED <<file_labels, raw_is_formatted, label_points, label_graph, stitched_graph,
                   entry_points, overrun, full_index>>

WordsOf(graph) == Header + FoldLeft(LAMBDA sum, p : sum + 1 + Len(graph[p]), 0, RankOrder(Points))

\* save_full_index throws when the words written are not the size it was told.
SaveFull ==
    /\ stage = "save"
    /\ WordsOf(stitched_graph) = final_index_size
    /\ full_index' = stitched_graph
    /\ stage' = "prune"
    /\ UNCHANGED <<file_labels, raw_is_formatted, label_points, label_graph, stitched_graph,
                   final_index_size, entry_points, overrun>>

\* prune_all_neighbors: a list longer than stitched_R is cut down to some of the
\* neighbours it had.
Cut(list) ==
    IF Len(list) <= StitchedR THEN {list}
    ELSE {SelectSeq(list, LAMBDA q : q \in keep) :
             keep \in {S \in SUBSET ToSet(list) : S # {} /\ Cardinality(S) <= StitchedR}}

\* prune_and_save; clean_up_artifacts then removes the label graphs.
PruneAndSave ==
    /\ stage = "prune"
    /\ stitched_graph' \in {g \in [Points -> UNION {Cut(stitched_graph[p]) : p \in Points}] :
                               \A p \in Points : g[p] \in Cut(stitched_graph[p])}
    /\ stage' = "done"
    /\ UNCHANGED <<file_labels, raw_is_formatted, label_points, label_graph, final_index_size,
                   entry_points, overrun, full_index>>

StitchNext ==
    \/ Parse \/ BuildEnd \/ StitchEnd \/ SaveFull \/ PruneAndSave
    \/ \E lbl \in DOMAIN label_points : BuildLabelIndex(lbl) \/ StitchLabel(lbl)

-----------------------------------------------------------------------------
\* Everything found from S along g, in as many steps as there are points.
From(S, g) ==
    LET reach[n \in 0 .. Cardinality(DOMAIN g)] ==
            IF n = 0 THEN S ELSE reach[n - 1] \cup UNION {g[x] : x \in reach[n - 1]}
    IN  reach[Cardinality(DOMAIN g)]

\* A filtered search of the full index goes from the entry point, and from point 0,
\* through the points with the label or the universal one.
Matching(lbl) == {p \in Points : lbl \in LabelsOfPoint(p) \/ UniversalId \in LabelsOfPoint(p)}
FilteredFrom(lbl) ==
    From({entry_points[lbl], 0} \cap Matching(lbl),
         [p \in Points |-> ToSet(full_index[p]) \cap Matching(lbl)])

NeighborsIn(lbl) == [x \in Positions(lbl) |-> ToSet(label_graph[lbl][x])]

Stitched == stage \in {"prune", "done"}

\* What a search of a label's own graph finds from the label's entry point, a
\* filtered search of the full index finds as well; unless the entry point was
\* read past the end.
LabelReachKept ==
    Stitched => \A lbl \in DOMAIN label_graph \ overrun :
        \A x \in Positions(lbl) :
            label_points[lbl][x + 1] = entry_points[lbl] =>
                {label_points[lbl][y + 1] : y \in From({x}, NeighborsIn(lbl))}
                    \subseteq FilteredFrom(lbl)
=============================================================================
