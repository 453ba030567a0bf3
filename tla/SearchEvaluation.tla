-------------------------- MODULE SearchEvaluation --------------------------
(* Searches measured by a ground truth: search_memory_index and              *)
(* search_disk_index run all queries once for every list size, compute the   *)
(* recall of what they find, and save it (src/apps, calculate_recall in      *)
(* src/src/utils.cpp).  What a search finds is left open: any of the         *)
(* eligible points, in order of distance, and not always enough of them.     *)
EXTENDS GroundTruth

CONSTANTS
    Evaluations(_)  \* command lines for such a truth: driver, data_type, dist_fn, recall_at,
                    \* lvec (list sizes), all (print_all_recalls), below (fail_if_recall_below,
                    \* percent), dynamic, filters (their number), gt (the truth file is there),
                    \* complete: no argument is missing

VARIABLES
    eval,       \* the command line
    test,       \* test_id
    tagBuffer,  \* query_result_tags, one for all list sizes
    outputs,    \* query_result_ids
    recalls,    \* what was printed: per list size, hits by the K of the recall
    best,       \* best_recall, whole percents
    saved,      \* the result files by list size
    exitCode    \* of the program

evalVars == <<eval, test, tagBuffer, outputs, recalls, best, saved, exitCode>>
evaluationVars == <<truthVars, evalVars>>

At == eval.recall_at
Zeros == [q \in Queries |-> [j \in 1 .. At |-> 0]]

EvalInit ==
    /\ TruthInit
    /\ eval \in Evaluations(cmd)
    /\ test = 0 /\ tagBuffer = <<>> /\ outputs = <<>> /\ recalls = <<>>
    /\ best = 0 /\ saved = <<>> /\ exitCode = Junk

TruthStep == TruthNext /\ UNCHANGED evalVars

(***************************************************************************)
(* main refuses what the index cannot do, search_..._index a number of      *)
(* filters that fits neither all queries nor each.                          *)
(***************************************************************************)
Types == {"float", "int8", "uint8"}
MemoryAccepts ==
    /\ eval.data_type \in Types
    /\ eval.dist_fn \in {"l2", "cosine"} \/ (eval.dist_fn \in {"mips", "fast_l2"} /\ eval.data_type = "float")
    /\ eval.dynamic => cmd.tags # <<>>
    /\ eval.complete
    /\ eval.below \in 0 .. 99
DiskAccepts ==
    /\ eval.data_type \in Types
    /\ eval.dist_fn \in {"l2", "mips", "cosine"}
    /\ eval.dist_fn = "mips" => eval.data_type = "float"
    /\ eval.complete
FiltersFit == eval.filters \in {0, 1, Len(cmd.queries)}

Unstarted == stage = "written" /\ test = 0 /\ exitCode = Junk
Refuse ==
    /\ Unstarted /\ exitCode' = -1
    /\ UNCHANGED <<truthVars, eval, test, tagBuffer, outputs, recalls, best, saved>>
RefuseMemorySearch == eval.driver = "memory" /\ ~(MemoryAccepts /\ FiltersFit) /\ Refuse
RefuseDiskSearch == eval.driver = "disk" /\ ~(DiskAccepts /\ FiltersFit) /\ Refuse

(* The truth set is loaded, then the index.  A number of queries that        *)
(* differs from the truth's is reported and nothing else.                    *)
StartSearch ==
    /\ Unstarted /\ FiltersFit
    /\ test' = 1
    /\ UNCHANGED <<truthVars, eval, outputs, recalls, best, saved, exitCode>>
StartMemorySearch == eval.driver = "memory" /\ MemoryAccepts /\ StartSearch /\ tagBuffer' = Zeros
StartDiskSearch == eval.driver = "disk" /\ DiskAccepts /\ StartSearch /\ UNCHANGED tagBuffer

(***************************************************************************)
(* calculate_recall for one query: the first K of the truth with everything *)
(* as far as the last of them, against the first K of the answer.  A set    *)
(* drops what is there twice.                                               *)
(***************************************************************************)
(* A wrong variant: the truth ends after K entries, ties or not.             *)
TieBreakerNone(row, k) == k
TieBreaker(row, k) ==
    LET beyond == {n \in k .. Len(row) : \A j \in k .. n : row[j].dist = row[k].dist}
    IN  CHOOSE n \in beyond : \A m \in beyond : m <= n
Hits(row, answer, k) ==
    Cardinality({row[j].id : j \in 1 .. TieBreaker(row, k)} \cap {answer[j] : j \in 1 .. k})
TotalHits(rows, k) == FoldFunction(+, 0, [q \in Queries |-> Hits(truth[q], rows[q], k)])
Percent(hits, k) == (100 * hits) \div (k * Len(cmd.queries))
FirstRecall == IF eval.driver = "memory" /\ eval.all THEN 1 ELSE At

(***************************************************************************)
(* One list size.                                                           *)
(***************************************************************************)
Answers(q) == UNION {Orders(S, [p \in Points |-> Distance(q, p)]) :
                        S \in {T \in SUBSET Eligible(q) : Cardinality(T) <= At}}

(* Where a search found nothing there stands with tags what was found with   *)
(* the list size before, in a memory index else zero; the disk index copies  *)
(* whatever its storage held.                                                *)
ListTooSmall == eval.lvec[test] < At

SkipListSize ==
    /\ test \in DOMAIN eval.lvec /\ ListTooSmall
    /\ outputs' = Append(outputs, <<>>) /\ recalls' = Append(recalls, <<>>)
    /\ test' = test + 1
    /\ UNCHANGED <<truthVars, eval, tagBuffer, best, saved, exitCode>>

SearchAndRecall(rows) ==
    LET hits == IF eval.gt THEN [k \in FirstRecall .. At |-> TotalHits(rows, k)] ELSE <<>>
        percents == {Percent(hits[k], k) : k \in DOMAIN hits} \cup {best}
    IN  /\ outputs' = Append(outputs, rows)
        /\ recalls' = Append(recalls, hits)
        /\ best' = CHOOSE x \in percents : \A y \in percents : y <= x
        /\ test' = test + 1
        /\ UNCHANGED <<truthVars, eval, saved, exitCode>>

SearchMemoryIndex ==
    /\ eval.driver = "memory" /\ test \in DOMAIN eval.lvec /\ ~ListTooSmall
    /\ \E found \in [Queries -> UNION {Answers(q) : q \in Queries}] :
          /\ \A q \in Queries : found[q] \in Answers(q)
          /\ LET rows == [q \in Queries |-> [j \in 1 .. At |->
                            IF j <= Len(found[q]) THEN NameOf(found[q][j])
                            ELSE IF cmd.tags # <<>> THEN tagBuffer[q][j] ELSE 0]]
             IN  /\ tagBuffer' = IF cmd.tags # <<>> THEN rows ELSE tagBuffer
                 /\ SearchAndRecall(rows)

SearchDiskIndex ==
    /\ eval.driver = "disk" /\ test \in DOMAIN eval.lvec /\ ~ListTooSmall
    /\ \E found \in [Queries -> UNION {Answers(q) : q \in Queries}], left \in Points :
          /\ \A q \in Queries : found[q] \in Answers(q)
          /\ SearchAndRecall([q \in Queries |-> [j \in 1 .. At |->
                                IF j <= Len(found[q]) THEN found[q][j] ELSE left]])
    /\ UNCHANGED tagBuffer

(***************************************************************************)
(* The results are written per list size; the index into them advances only *)
(* where one was searched with.                                             *)
(***************************************************************************)
Searched == SelectSeq([i \in DOMAIN eval.lvec |-> i], LAMBDA i : eval.lvec[i] >= At)
FileOf(n) == IF outputs[n] = <<>> THEN Junk ELSE outputs[n]
LastFor(L) == CHOOSE n \in DOMAIN Searched :
                 eval.lvec[Searched[n]] = L /\ \A m \in DOMAIN Searched : eval.lvec[Searched[m]] = L => m <= n

SaveResults ==
    /\ test = Len(eval.lvec) + 1 /\ exitCode = Junk
    /\ saved' = [L \in {eval.lvec[i] : i \in Range(Searched)} |-> FileOf(LastFor(L))]
    /\ exitCode' = IF best >= eval.below THEN 0 ELSE -1
    /\ UNCHANGED <<truthVars, eval, test, tagBuffer, outputs, recalls, best>>

EvalNext ==
    \/ TruthStep \/ RefuseMemorySearch \/ RefuseDiskSearch \/ StartMemorySearch \/ StartDiskSearch \/ SkipListSize
    \/ SearchMemoryIndex \/ SearchDiskIndex \/ SaveResults

(***************************************************************************)
(* Correctness                                                              *)
(***************************************************************************)
Names(q) == {NameOf(p) : p \in Eligible(q)}
PointOf(name) == CHOOSE p \in Points : NameOf(p) = name /\ ~Hidden(p)
(* The distance of the k-th nearest eligible point.                          *)
Radius(q, k) ==
    CHOOSE d \in {Distance(q, p) : p \in Eligible(q)} :
        /\ Cardinality({p \in Eligible(q) : Distance(q, p) < d}) < k
        /\ Cardinality({p \in Eligible(q) : Distance(q, p) <= d}) >= k
Within(q, k) == {p \in Eligible(q) : Distance(q, p) <= Radius(q, k)}

(* Answers without repetition or gap, and a truth deep enough to hold all    *)
(* points as near as the k-th, none of which hidden ones have crowded out.   *)
Complete(rows, q, k) ==
    /\ Cardinality({rows[q][j] : j \in 1 .. k}) = k
    /\ {rows[q][j] : j \in 1 .. k} \subseteq Names(q)
DeepEnough(q, k) ==
    /\ Cardinality(Eligible(q)) >= k /\ Cardinality(Within(q, k)) <= cmd.k
    /\ \A p \in Within(q, k) : ~Crowded(q, p)

(* The recall counts the answers that are as near as the true neighbours,    *)
(* and not those that happen to have their numbers: points at the same       *)
(* distance as the last true neighbour count whichever of them the truth     *)
(* put first (calculate_recall).                                             *)
RecallMeasuresDistance ==
    Managed => \A i \in DOMAIN recalls : \A k \in DOMAIN recalls[i] :
        (\A q \in Queries : Complete(outputs[i], q, k) /\ DeepEnough(q, k)) =>
            recalls[i][k] = FoldFunction(+, 0, [q \in Queries |->
                Cardinality({j \in 1 .. k : PointOf(outputs[i][q][j]) \in Within(q, k)})])
=============================================================================
