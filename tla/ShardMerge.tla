----------------------------- MODULE ShardMerge -----------------------------
(* The graph of a disk index: breakup_dense_points, then in one shot or by   *)
(* overlapping shards (partition_with_ram_budget, one index per shard) that  *)
(* merge_shards joins (src/disk_utils.cpp, src/partition.cpp).  Ids count    *)
(* from zero.  What Index::build makes of rows is modelled in GraphBuild and *)
(* is a choice here, as is what k-means makes of them.                       *)
EXTENDS NeighborQueue, Ranks

CONSTANTS
    Setups,             \* what build_disk_index is called with
    Graphs(_),          \* the lists and entry Index::build may give so many rows
    Nearest(_, _),      \* the KBase nearest centres it may be for each row
    OutDegree,          \* max_degree
    KBase,              \* the centres each row goes to
    MaxParts,           \* a bound on num_parts, which the code lets grow
    Universal           \* the universal label, converted

(* Every point has a list of labels, and where rows are bounded none is empty. *)
ASSUME SetupAssumption ==
    \A a \in Setups :
        /\ a.coord \in Seq(Int \X Int)
        /\ a.labels \in Seq(Seq(Nat)) /\ Len(a.labels) = Len(a.coord)
        /\ a.density \in Nat
        /\ a.density > 0 => \A i \in 1 .. Len(a.labels) : a.labels[i] # <<>>

ASSUME ShardAssumption == KBase \in Nat \ {0} /\ OutDegree \in Nat

VARIABLES
    ask,        \* the setup: coord, labels, density, budget, sample, share; and for
                \* DiskSearch the file of warm-up queries, empty when it is missing, and
                \* calls, a bound on the searches made of the index
    stage,      \* how far the build is
    rows,       \* the rows the index is built of, dummies after the points
    parts,      \* num_parts
    idmaps,     \* of each shard the ids of its rows, in file order
    shards,     \* of each shard the data, labels and index files written
    merge,      \* what merge_shards holds
    index,      \* the index file: lists, entry, and the size in its header
    medoids,    \* the medoids file, <<>> when there is none
    starts      \* the labels_to_medoids file

buildVars == <<ask, stage, rows, parts, idmaps, shards, merge, index, medoids, starts>>

Ids(n) == 0 .. n - 1
N == Cardinality(DOMAIN rows)
FromSeq(s) == [i \in Ids(Len(s)) |-> s[i + 1]]
None == [lists |-> <<>>, entry |-> 0, size |-> 0]
NoMerge == [next |-> 1, at |-> <<>>, cur |-> 0, hood |-> <<>>, marked |-> {}, lists |-> <<>>, size |-> 0]

BuildInit ==
    /\ ask \in Setups
    /\ stage = "asked" /\ rows = <<>> /\ parts = 3
    /\ idmaps = <<>> /\ shards = <<>> /\ merge = NoMerge
    /\ index = None /\ medoids = <<>> /\ starts = <<>>

(***************************************************************************)
(* Points with more labels than the density get dummies, after all points.  *)
(* A point without a label makes the writer run off its labels; setups have *)
(* none.                                                                     *)
(***************************************************************************)
Chunks(labels) ==
    [j \in 1 .. (Len(labels) + ask.density - 1) \div ask.density |->
        SubSeq(labels, (j - 1) * ask.density + 1, Min({Len(labels), j * ask.density}))]

Row(p, labels) == [coord |-> ask.coord[p + 1], labels |-> labels, real |-> p]
Points == [p \in Ids(Len(ask.coord)) |-> p]
Broken ==
    LET chunks(p) == Chunks(ask.labels[p + 1])
        hosts == [i \in DOMAIN ask.coord |-> Row(i - 1, chunks(i - 1)[1])]
        extra(p) == [j \in 1 .. Len(chunks(p)) - 1 |-> Row(p, chunks(p)[j + 1])]
    IN  hosts \o FlattenSeq([i \in DOMAIN ask.coord |-> extra(i - 1)])
Whole == [i \in DOMAIN ask.coord |-> Row(i - 1, ask.labels[i])]

BreakUp ==
    /\ stage = "asked"
    /\ rows' = FromSeq(IF ask.density > 0 THEN Broken ELSE Whole)
    /\ stage' = "rows"
    /\ UNCHANGED <<ask, parts, idmaps, shards, merge, index, medoids, starts>>

(***************************************************************************)
(* An index of rows, as build and save leave it: a start for each label is  *)
(* one of the rows that have it or the universal label.                     *)
(***************************************************************************)
HasLabel(labels, label) == Contains(labels, label) \/ Contains(labels, Universal)
LabelsIn(data) == UNION {ToSet(data[r].labels) : r \in DOMAIN data}
(* A wrong variant: the start of a label is any row.                         *)
StartChoicesAny(data) == [LabelsIn(data) -> DOMAIN data]
StartChoices(data) ==
    {f \in [LabelsIn(data) -> DOMAIN data] : \A l \in DOMAIN f : HasLabel(data[f[l]].labels, l)}

(* A header of 24 bytes, and of each row the length of its list and the list. *)
SizeOf(lists) ==
    LET bytes[n \in 0 .. Cardinality(DOMAIN lists)] ==
            IF n = 0 THEN 24 ELSE bytes[n - 1] + 4 * (1 + Len(lists[n - 1]))
    IN  bytes[Cardinality(DOMAIN lists)]

(* What build makes of so many rows: a list of rows for each, and an entry.   *)
GraphsOf(n) ==
    {g \in Graphs(n) : g.entry \in Ids(n) /\ g.lists \in [Ids(n) -> Seq(Ids(n))]}

OneShot ==
    /\ stage = "rows" /\ N <= ask.budget
    /\ \E g \in GraphsOf(N), f \in StartChoices(rows) :
          /\ index' = [lists |-> g.lists, entry |-> g.entry, size |-> SizeOf(g.lists)]
          /\ starts' = [l \in DOMAIN f |-> <<f[l]>>]
    /\ medoids' = <<>>
    /\ stage' = "indexed"
    /\ UNCHANGED <<ask, rows, parts, idmaps, shards, merge>>

(***************************************************************************)
(* The shards.  Sizes are estimated from a sample that stands for a share   *)
(* of the rows, two more parts are tried until each estimate is in budget.  *)
(***************************************************************************)
Estimate(near, c) == (Cardinality({r \in ask.sample : c \in near[r]}) * ask.share[2]) \div ask.share[1]
FitInRam(near) == \A c \in Ids(parts) : Estimate(near, c) <= ask.budget

(* Each row goes to the shards of its KBase nearest centres.                  *)
NearestCentres ==
    {near \in Nearest(rows, parts) : near \in [DOMAIN rows -> kSubset(KBase, Ids(parts))]}
IdsOf(near, c) == RankOrder({r \in DOMAIN near : c \in near[r]})
Partition ==
    /\ stage = "rows" /\ N > ask.budget
    /\ \E near \in NearestCentres :
          \/ /\ FitInRam(near)
             /\ idmaps' = [s \in 1 .. parts |-> IdsOf(near, s - 1)]
             /\ stage' = "shards"
             /\ UNCHANGED parts
          \/ /\ ~FitInRam(near) /\ parts + 2 <= MaxParts
             /\ parts' = parts + 2
             /\ UNCHANGED <<idmaps, stage>>
    /\ UNCHANGED <<ask, rows, shards, merge, index, medoids, starts>>

(* retrieve_shard_data_from_ids and extract_shard_labels: one pass over the  *)
(* rows, the next id of the shard is looked for only further on.             *)
Retrieved(ids) ==
    LET got[n \in 0 .. N] ==
            IF n = 0 THEN <<>>
            ELSE IF Len(got[n - 1]) < Len(ids) /\ ids[Len(got[n - 1]) + 1] = n - 1
                 THEN Append(got[n - 1], rows[n - 1])
                 ELSE got[n - 1]
    IN  got[N]

(* Building the next shard; the build of no rows throws, and the temporary   *)
(* files stay.                                                               *)
BuildShard ==
    /\ stage = "shards" /\ Len(shards) < parts
    /\ LET ids == idmaps[Len(shards) + 1]
           data == FromSeq(Retrieved(ids))
           n == Cardinality(DOMAIN data)
       IN  IF n = 0
           THEN stage' = "threw" /\ UNCHANGED shards
           ELSE /\ \E g \in GraphsOf(n), f \in StartChoices(data) :
                     shards' = Append(shards, [data |-> data, lists |-> g.lists, entry |-> g.entry, starts |-> f])
                /\ UNCHANGED stage
    /\ UNCHANGED <<ask, rows, parts, idmaps, merge, index, medoids, starts>>

(***************************************************************************)
(* merge_shards.  Each shard's file is read forward, one list per row of    *)
(* the shard, as the rows of all shards come in the order of their ids.     *)
(***************************************************************************)
PlaceOf(r, s) == (r * parts) + (s - 1)
NodeShard ==
    LET places == RankOrder(UNION {{PlaceOf(r, s) : r \in ToSet(idmaps[s])} : s \in DOMAIN idmaps})
    IN  [i \in DOMAIN places |-> <<places[i] \div parts, (places[i] % parts) + 1>>]
Renamed(s, local) == idmaps[s][local + 1]

StartMerge ==
    /\ stage = "shards" /\ Len(shards) = parts
    /\ stage' = "merge"
    /\ starts' = [l \in UNION {DOMAIN shards[s].starts : s \in DOMAIN shards} |->
                     LET having == RankOrder({s \in DOMAIN shards : l \in DOMAIN shards[s].starts})
                     IN  [i \in DOMAIN having |-> Renamed(having[i], shards[having[i]].starts[l])]]
    /\ medoids' = [s \in DOMAIN shards |-> Renamed(s, shards[s].entry)]
    /\ index' = [None EXCEPT !.entry = Last(medoids')]
    /\ merge' = [NoMerge EXCEPT !.at = [s \in DOMAIN shards |-> 0], !.size = 24]
    /\ UNCHANGED <<ask, rows, parts, idmaps, shards>>

(* Writing the list gathered for cur, cut to the degree after a shuffle, of  *)
(* which only the choice of what is cut is kept.                             *)
Cuts(hood) ==
    {Picked(hood, kept) : kept \in kSubset(Min({Len(hood), OutDegree}), 1 .. Len(hood))}
Written(m, list) == [m EXCEPT !.lists = Append(@, list), !.size = @ + 4 * (1 + Len(list))]
(* A wrong variant: what was in the written list stays marked.               *)
EmptiedMarked(m) == [m EXCEPT !.hood = <<>>]
Emptied(m) == [m EXCEPT !.hood = <<>>, !.marked = @ \ ToSet(m.hood)]

(* Reading the shard's next list into the hood, each id once.                *)
Marked(m, id) ==
    IF id \in m.marked THEN m ELSE [m EXCEPT !.marked = @ \cup {id}, !.hood = Append(@, id)]
Gathered(m, s) ==
    LET list == shards[s].lists[m.at[s]]
        read[i \in 0 .. Len(list)] ==
            IF i = 0 THEN m ELSE Marked(read[i - 1], Renamed(s, list[i]))
    IN  [read[Len(list)] EXCEPT !.at[s] = @ + 1]

MergeNode ==
    /\ stage = "merge" /\ merge.next <= Len(NodeShard)
    /\ LET node == NodeShard[merge.next][1]
           shard == NodeShard[merge.next][2]
           read(m) == [Gathered(m, shard) EXCEPT !.next = @ + 1, !.cur = node]
       IN  \/ /\ merge.cur < node
              /\ \E list \in Cuts(merge.hood) : merge' = read(Emptied(Written(merge, list)))
           \/ /\ merge.cur >= node
              /\ merge' = read(merge)
    /\ UNCHANGED <<ask, stage, rows, parts, idmaps, shards, index, medoids, starts>>

EndMerge ==
    /\ stage = "merge" /\ merge.next > Len(NodeShard)
    /\ \E list \in Cuts(merge.hood) :
          LET m == Emptied(Written(merge, list))
          IN  /\ merge' = m
              /\ index' = [index EXCEPT !.lists = FromSeq(m.lists), !.size = m.size]
    /\ stage' = "merged"
    /\ UNCHANGED <<ask, rows, parts, idmaps, shards, medoids, starts>>

RemoveTempFiles ==
    /\ stage = "merged"
    /\ stage' = "indexed"
    /\ idmaps' = <<>> /\ shards' = <<>> /\ merge' = NoMerge
    /\ UNCHANGED <<ask, rows, parts, index, medoids, starts>>

BuildNext ==
    \/ BreakUp \/ OneShot \/ Partition \/ BuildShard
    \/ StartMerge \/ MergeNode \/ EndMerge \/ RemoveTempFiles

(***************************************************************************)
(* Properties.                                                              *)
(***************************************************************************)
(* The merged graph has a list for each row, without repetition: all of what *)
(* the row's shards link it to, renamed, or as much of it as the degree lets *)
(* in; the header has the size that was written.                             *)
LinkedInShards(r) ==
    UNION {{Renamed(s, local) : local \in UNION {ToSet(shards[s].lists[i - 1]) : i \in {j \in DOMAIN idmaps[s] : idmaps[s][j] = r}}}
              : s \in DOMAIN shards}
MergedIsUnion ==
    stage = "merged" =>
        /\ DOMAIN index.lists = DOMAIN rows
        /\ index.size = SizeOf(index.lists)
        /\ \A r \in DOMAIN rows :
              LET list == index.lists[r]
              IN  /\ ToSet(list) \subseteq LinkedInShards(r)
                  /\ Len(list) = Cardinality(ToSet(list))
                  /\ Len(list) = Min({OutDegree, Cardinality(LinkedInShards(r))})

(* Where a search may start: a search for a label starts at a row that has   *)
(* it, and every shard's part of the graph has a medoid of its own.          *)
EntriesAreRight ==
    stage \in {"merged", "indexed"} =>
        /\ \A l \in DOMAIN starts : /\ starts[l] # <<>>
                                    /\ \A r \in ToSet(starts[l]) : r \in DOMAIN rows /\ HasLabel(rows[r].labels, l)
        /\ DOMAIN starts = LabelsIn(rows)
        /\ ToSet(medoids) \cup {index.entry} \subseteq DOMAIN rows
        /\ stage = "merged" => \A s \in DOMAIN idmaps : Contains(idmaps[s], medoids[s])
=============================================================================
