---------------------------- MODULE GroundTruth ----------------------------
(* The exact neighbours that searches are measured by: what                  *)
(* compute_groundtruth and compute_groundtruth_for_filters write             *)
(* (src/apps/utils).  The base file is read in parts; each part gives its    *)
(* nearest points, and the parts are ranked together.  With one filter per   *)
(* query the files are first split by label, and the truths of the labels    *)
(* put together in the end.                                                  *)
EXTENDS Integers, FiniteSets, Sequences, SequencesExt

CONSTANTS
    PartSize,   \* PARTSIZE, points of the base file in memory at a time
    Commands,   \* the command lines: points and queries (places on a line), labels
                \* (of points), filters and universal, tags (0: the point is hidden;
                \* <<>>: no file), metric, tool, k; complete: no argument is missing
    Junk        \* what no assignment wrote

VARIABLES
    cmd,        \* the command
    stage,      \* how far it is
    jobs,       \* all_labels still to be worked on
    job,        \* the files of the aux_main that runs
    part,       \* p of its loop over parts
    results,    \* res: per query the pairs found so far
    ranked,     \* closest_points and dist_closest_points, the queries done
    truths,     \* the truth files by label
    truth       \* gt_file

truthVars == <<cmd, stage, jobs, job, part, results, ranked, truths, truth>>

Points == 0 .. Len(cmd.points) - 1
Queries == 1 .. Len(cmd.queries)
Place(p) == cmd.points[p + 1]
LabelsOf(p) == cmd.labels[p + 1]
Hidden(p) == cmd.tags # <<>> /\ cmd.tags[p + 1] = 0
Least(a, b) == IF a < b THEN a ELSE b

(***************************************************************************)
(* What exact_knn computes.  Inner products are negated, to be small when   *)
(* near.                                                                    *)
(***************************************************************************)
SquaredDistance(q, p) == (cmd.queries[q] - Place(p)) * (cmd.queries[q] - Place(p))
InnerProduct(q, p) == cmd.queries[q] * Place(p)
Distance(q, p) == IF cmd.metric = "mips" THEN -InnerProduct(q, p) ELSE SquaredDistance(q, p)

Farthest(heap, d) == {x \in heap : \A y \in heap : d[y] <= d[x]}

(* The points of a part, numbered from 0, go into a heap of k; d are their   *)
(* distances.  Which of several farthest a pop takes is the heap's affair.   *)
Push(heap, x, d) ==
    IF \E y \in Farthest(heap, d) : d[y] > d[x]
    THEN {(heap \cup {x}) \ {y} : y \in Farthest(heap \cup {x}, d)}
    ELSE {heap}
Heaps(d, n, k) ==
    LET after[x \in k .. n] ==
            IF x = k THEN {0 .. k - 1} ELSE UNION {Push(h, x - 1, d) : h \in after[x - 1]}
    IN  IF k = 0 THEN {{}} ELSE after[n]

Ordered(list, d) == \A i, j \in DOMAIN list : i < j => d[list[i]] <= d[list[j]]
Orders(S, d) == {list \in SetToSeqs(S) : Ordered(list, d)}
ExactKnn(d, n, k) == UNION {Orders(h, d) : h \in Heaps(d, n, k)}

(***************************************************************************)
(* The command.  A job is a run of aux_main on a base file and a query file *)
(* whose entries are points and queries of the command.                     *)
(***************************************************************************)
FilterOf(q) == IF Len(cmd.filters) = 1 THEN cmd.filters[1] ELSE cmd.filters[q]
OneJob == cmd.tool = "plain" \/ Len(cmd.filters) = 1
Ids == [i \in 1 .. Len(cmd.points) |-> i - 1]
WholeJob == [base |-> Ids, queries |-> [q \in Queries |-> q],
             filtered |-> cmd.tool = "filters", tags |-> cmd.tags # <<>>, label |-> Junk]

(* generate_label_specific_vector_files_compat, of both files               *)
LabelJob(l) == [base |-> SelectSeq(Ids, LAMBDA p : l \in LabelsOf(p)),
                queries |-> SelectSeq([q \in Queries |-> q], LAMBDA q : cmd.filters[q] = l),
                filtered |-> FALSE, tags |-> FALSE, label |-> l]

TruthInit ==
    /\ cmd \in Commands
    /\ stage = "asked" /\ jobs = {} /\ job = <<>> /\ part = 0
    /\ results = <<>> /\ ranked = <<>> /\ truths = <<>> /\ truth = <<>>

BeginJob(j) ==
    /\ job' = j /\ part' = 0 /\ ranked' = <<>>
    /\ results' = [i \in 1 .. Len(j.queries) |-> {}]
    /\ stage' = "parts"

KnownMetric == cmd.metric \in {"l2", "mips", "cosine"}
Understood == cmd.complete /\ KnownMetric

RefuseCommand ==
    /\ stage = "asked" /\ ~Understood
    /\ stage' = "refused"
    /\ UNCHANGED <<cmd, jobs, job, part, results, ranked, truths, truth>>

StartWhole ==
    /\ stage = "asked" /\ Understood /\ OneJob
    /\ BeginJob(WholeJob)
    /\ UNCHANGED <<cmd, jobs, truths, truth>>
StartPlain == cmd.tool = "plain" /\ StartWhole
StartOneFilter == cmd.tool = "filters" /\ StartWhole

(* Every other number of filters is taken for one filter per query.  The     *)
(* split finds as many labels as queries or throws, with nothing to rethrow, *)
(* and the program is terminated.                                            *)
StartLabels ==
    /\ stage = "asked" /\ Understood /\ ~OneJob
    /\ IF Len(cmd.filters) = Len(cmd.queries)
       THEN stage' = "split" /\ jobs' = {cmd.filters[q] : q \in Queries}
       ELSE stage' = "terminated" /\ UNCHANGED jobs
    /\ UNCHANGED <<cmd, job, part, results, ranked, truths, truth>>

NextLabel ==
    /\ stage = "split"
    /\ \E l \in jobs : jobs' = jobs \ {l} /\ BeginJob(LabelJob(l))
    /\ UNCHANGED <<cmd, truths, truth>>

(***************************************************************************)
(* One part of the base file.  Positions count from the start of the file.  *)
(***************************************************************************)
NumParts == (Len(job.base) + PartSize - 1) \div PartSize
Start == part * PartSize
PartPositions == [x \in 1 .. Least(PartSize, Len(job.base) - Start) |-> Start + x - 1]

(* load_filtered_bin_as_float: rev_map                                       *)
MatchesFilter(p) == {cmd.filters[1], cmd.universal} \cap LabelsOf(p) # {}
RevMap == SelectSeq(PartPositions, LAMBDA x : MatchesFilter(job.base[x + 1]))

(* The tag looked up for entry j of query i: with k where the lists have     *)
(* part_k entries, and with the number inside the part, filtered or not.     *)
TagOutcomes(lists, i, j, partK) ==
    LET x == (i - 1) * cmd.k + (j - 1)
    IN  IF ~job.tags THEN {TRUE}
        ELSE IF x < Len(lists) * partK
             THEN {~Hidden(lists[(x \div partK) + 1][(x % partK) + 1] + Start)}
             ELSE BOOLEAN

Kept(lists, partK) ==
    {keep \in [(DOMAIN lists) \X (1 .. partK) -> BOOLEAN] :
        \A ij \in DOMAIN keep : keep[ij] \in TagOutcomes(lists, ij[1], ij[2], partK)}

ProcessPart(numbers, positions) ==
    LET n == Len(numbers)
        partK == Least(cmd.k, n)
        Dist(i) == [x \in 0 .. n - 1 |-> Distance(job.queries[i], job.base[numbers[x + 1] + 1])]
        Knn(i) == ExactKnn(Dist(i), n, partK)
        Found(i, list, keep) == {[at |-> positions[list[j] + 1], dist |-> Dist(i)[list[j]]] :
                                    j \in {x \in 1 .. partK : keep[<<i, x>>]}}
    IN  \E lists \in [DOMAIN results -> UNION {Knn(i) : i \in DOMAIN results}] :
           /\ \A i \in DOMAIN results : lists[i] \in Knn(i)
           /\ \E keep \in Kept(lists, partK) :
                 results' = [i \in DOMAIN results |-> results[i] \cup Found(i, lists[i], keep)]

(* A wrong variant: the numbers of a part are taken for those of the file.   *)
ProcessPlainPartLocal ==
    cmd.tool = "plain" /\ ProcessPart(PartPositions, [x \in DOMAIN PartPositions |-> x - 1])
ProcessPlainPart == cmd.tool = "plain" /\ ProcessPart(PartPositions, PartPositions)
ProcessLabelPart == ~OneJob /\ ProcessPart(PartPositions, PartPositions)
ProcessFilteredPart == job.filtered /\ ProcessPart(RevMap, RevMap)

NextPart ==
    /\ stage = "parts" /\ part < NumParts
    /\ (ProcessPlainPart \/ ProcessLabelPart \/ ProcessFilteredPart)
    /\ part' = part + 1
    /\ UNCHANGED <<cmd, stage, jobs, job, ranked, truths, truth>>

(***************************************************************************)
(* The pairs of a query in order of distance, equal ones in any; k of them  *)
(* go into the file, and what was never assigned when there are fewer.      *)
(***************************************************************************)
RowOf(order) ==
    [j \in 1 .. cmd.k |->
        IF j > Len(order) THEN [id |-> Junk, dist |-> Junk]
        ELSE [id |-> IF job.tags THEN cmd.tags[order[j].at + 1] ELSE order[j].at,
              dist |-> IF cmd.metric = "mips" THEN -order[j].dist ELSE order[j].dist]]

RankQuery ==
    /\ stage = "parts" /\ part = NumParts /\ Len(ranked) < Len(results)
    /\ \E order \in Orders(results[Len(ranked) + 1], [e \in results[Len(ranked) + 1] |-> e.dist]) :
          ranked' = Append(ranked, RowOf(order))
    /\ UNCHANGED <<cmd, stage, jobs, job, part, results, truths, truth>>

EndJob ==
    /\ stage = "parts" /\ part = NumParts /\ Len(ranked) = Len(results)
    /\ job' = <<>> /\ part' = 0 /\ results' = <<>> /\ ranked' = <<>>
    /\ UNCHANGED <<cmd, jobs>>
SaveGroundTruth == OneJob /\ EndJob /\ truth' = ranked /\ stage' = "written" /\ UNCHANGED truths
SaveLabelTruth ==
    /\ ~OneJob /\ EndJob
    /\ truths' = truths @@ (job.label :> ranked) /\ stage' = "split" /\ UNCHANGED truth

(* The rows of each label go back to the queries they were split from, and   *)
(* their entries to the numbers of the points in the base file.  An entry    *)
(* nothing was assigned to is looked up all the same.                        *)
Restored(l, row) ==
    [j \in 1 .. cmd.k |->
        [row[j] EXCEPT !.id = IF row[j].id = Junk THEN Junk ELSE LabelJob(l).base[row[j].id + 1]]]

LoadTruth(l) == truths[l]

CombineTruths ==
    /\ stage = "split" /\ jobs = {}
    /\ truth' = [q \in Queries |->
                    LET l == cmd.filters[q]
                        i == CHOOSE x \in DOMAIN LoadTruth(l) : LabelJob(l).queries[x] = q
                    IN  Restored(l, LoadTruth(l)[i])]
    /\ stage' = "written" /\ truths' = <<>>
    /\ UNCHANGED <<cmd, jobs, job, part, results, ranked>>

TruthNext ==
    \/ RefuseCommand \/ StartPlain \/ StartOneFilter \/ StartLabels \/ NextLabel \/ NextPart
    \/ RankQuery \/ SaveGroundTruth \/ SaveLabelTruth \/ CombineTruths

(***************************************************************************)
(* What the file promises.                                                  *)
(***************************************************************************)
Eligible(q) ==
    {p \in Points :
        /\ cmd.tool = "filters" => {FilterOf(q), cmd.universal} \cap LabelsOf(p) # {}
        /\ ~Hidden(p)}
NameOf(p) == IF cmd.tags = <<>> THEN p ELSE cmd.tags[p + 1]
FileDistance(q, p) == IF cmd.metric = "mips" THEN -Distance(q, p) ELSE Distance(q, p)

(* The nearest cmd.k of a part are taken before the hidden ones among them   *)
(* are dropped: a point behind so many is crowded out by those.              *)
Crowded(q, p) ==
    LET near == {r \in Points \ {p} : /\ r \div PartSize = p \div PartSize
                                      /\ Distance(q, r) <= Distance(q, p)}
    IN  Cardinality(near) >= cmd.k /\ \E r \in near : Hidden(r)

(* Each entry is an eligible point under its name and with its distance,     *)
(* none twice.  A point is left out only for cmd.k entries that are no       *)
(* farther, or because hidden points crowd it out of its part.               *)
RowIsNearest(q, row) ==
    \E list \in UNION {[1 .. n -> Eligible(q)] : n \in 0 .. cmd.k} :
       /\ \A j \in 1 .. cmd.k :
             row[j] = IF j > Len(list) THEN [id |-> Junk, dist |-> Junk]
                      ELSE [id |-> NameOf(list[j]), dist |-> FileDistance(q, list[j])]
       /\ \A i, j \in DOMAIN list : i < j => list[i] # list[j] /\ Distance(q, list[i]) <= Distance(q, list[j])
       /\ \A p \in Eligible(q) \ {list[j] : j \in DOMAIN list} :
             \/ Len(list) = cmd.k /\ \A j \in DOMAIN list : Distance(q, list[j]) <= Distance(q, p)
             \/ Crowded(q, p)

(* What the programs do not manage: a universal label when every query has   *)
(* its filter, tags in that case or with a filter, and tags when a part has  *)
(* fewer points than k, whose tags are looked up with the wrong stride.      *)
Managed ==
    /\ ~OneJob => cmd.tags = <<>> /\ \A p \in Points : cmd.universal \notin LabelsOf(p)
    /\ cmd.tags # <<>> =>
          /\ cmd.tool = "plain"
          /\ \A p \in 0 .. (Len(cmd.points) - 1) \div PartSize :
                Least(PartSize, Len(cmd.points) - p * PartSize) >= cmd.k

(* The truth is the true one however the file is cut into parts, whatever    *)
(* the order of equal distances, and however queries and points are split    *)
(* by label and put together again (processUnfilteredParts,                  *)
(* processFilteredParts, the second half of main), but for points that       *)
(* hidden ones of their part crowd out: those may be missing, and others     *)
(* that are farther away in their place.                                     *)
TruthIsNearest ==
    stage = "written" /\ Managed => \A q \in Queries : RowIsNearest(q, truth[q])
=============================================================================
