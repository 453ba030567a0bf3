--------------------------- MODULE DiskIndexFiles ---------------------------
(* The files of a disk index under one prefix: what build_disk_index writes, *)
(* keeps and removes there, in its three forms (standard, AMCGI and MCGI),   *)
(* build after build and with processes that end between any two steps       *)
(* (src/disk_utils.cpp, src/pq.cpp), and what a load takes from them         *)
(* (src/pq_flash_index.cpp).  Contents are who wrote them and their sizes;   *)
(* ShardMerge, Quantization and DiskSearch have the data.                    *)
EXTENDS Integers, Sequences, FiniteSets, FiniteSetsExt, SequencesExt, Functions

CONSTANTS
    Requests(_),        \* what the n-th build is asked for
    MaxBuilds,
    MaxChunks,          \* MAX_PQ_CHUNKS
    CacheSpace,         \* SPACE_FOR_CACHED_NODES_IN_GB
    CacheThreshold      \* THRESHOLD_FOR_CACHING_IN_GB
(* A request: form, float (the data type), rows and dim of the data, metric, *)
(* B (bytes, here), M (whether the memory for a build is positive), shards   *)
(* (how many it takes, 0 if the whole graph fits), disk_PQ, reorder, QD, opq,*)
(* lid_path, labels, universal, and dummies, the rows --filter_threshold     *)
(* adds, or -1 without it.  --universal_label comes with --label_file.       *)
(* Data has points, and numbers of shards and bytes are unsigned.            *)
ASSUME RequestAssumption ==
    /\ MaxBuilds \in Nat
    /\ \A i \in 1 .. MaxBuilds : \A q \in Requests(i) :
          /\ q.form \in {"standard", "amcgi", "mcgi"}
          /\ q.rows \in Nat \ {0} /\ q.dim \in Nat /\ q.shards \in Nat /\ q.disk_PQ \in Nat
          /\ q.dummies \in Nat \cup {-1} /\ q.labels \in BOOLEAN

VARIABLES
    fs,         \* the files: by (number of the build), rows and width
    job,        \* the build that is running
    asked,      \* history: the requests, in order
    ended       \* history: how each build has ended: done, refused, thrown or killed

vars == <<fs, job, asked, ended>>
Idle == [pc |-> "idle"]
n == Len(asked)
r == job.req

Has(f) == f \in DOMAIN fs
Content(rows, width) == [by |-> n, rows |-> rows, width |-> width]
With(files, names, c) == [f \in names \cup DOMAIN files |-> IF f \in names THEN c ELSE files[f]]
Write(names, c) == With(fs, names, c)
Without(files, names) == Restrict(files, DOMAIN files \ names)
Goto(pc) == job' = [job EXCEPT !.pc = pc]
End(how) == job' = Idle /\ ended' = Append(ended, how)

(***************************************************************************)
(* Options.                                                                 *)
(***************************************************************************)
(* What the program refuses before it opens a file.                          *)
Accepted(q) ==
    /\ q.metric \in {"l2", "mips", "cosine"}
    /\ q.form = "mcgi" => q.lid_path
    /\ q.reorder => q.disk_PQ > 0 /\ q.float

(* get_memory_budget: what is left of B after the cached nodes.              *)
MemoryBudget(b) == IF b - CacheSpace > CacheThreshold THEN b - CacheSpace ELSE b

(* The number of chunks of the codes: what the budget gives each point, at   *)
(* least one, at most the dimension; a QD in range goes before it.           *)
NumChunks(rows, width) ==
    IF r.QD \in 1 .. MaxChunks THEN r.QD
    ELSE Min({Max({MemoryBudget(r.B) \div rows, 1}), width, MaxChunks})

Begin(q) ==
    /\ job = Idle /\ Len(asked) < MaxBuilds /\ Accepted(q)
    /\ asked' = Append(asked, q)
    /\ job' = [pc |-> IF q.form = "standard" THEN "prepare" ELSE "graph", req |-> q, rows |-> q.rows, width |-> q.dim]
    /\ UNCHANGED <<fs, ended>>

Refuse(q) ==
    /\ job = Idle /\ Len(asked) < MaxBuilds /\ ~Accepted(q)
    /\ asked' = Append(asked, q) /\ ended' = Append(ended, "refused")
    /\ UNCHANGED <<fs, job>>

(***************************************************************************)
(* The standard build.                                                      *)
(***************************************************************************)
(* Inner products and cosine only for floats; the base is brought to unit    *)
(* length in a file of its own, for inner products with one more dimension.  *)
(* The budgets are looked at after that.                                     *)
Prepare ==
    /\ job.pc = "prepare" /\ (r.metric = "l2" \/ r.float)
    /\ LET width == IF r.metric = "mips" THEN r.dim + 1 ELSE r.dim
       IN  /\ fs' = Write({f \in {"prepped_base", "max_base_norm"} : CASE f = "prepped_base" -> r.metric # "l2"
                                                                      [] OTHER -> r.metric = "mips"},
                          Content(r.rows, width))
           /\ IF MemoryBudget(r.B) <= 0 \/ ~r.M
              THEN End("refused")
              ELSE /\ job' = [job EXCEPT !.pc = IF r.labels THEN "labels" ELSE "disk_quantize", !.width = width]
                   /\ UNCHANGED ended
    /\ UNCHANGED asked

(* Labels become numbers; with a threshold points of many labels get dummies *)
(* and the build goes on with the longer data and labels.                    *)
Labels ==
    /\ job.pc = "labels"
    /\ LET rows == r.rows + (IF r.dummies >= 0 THEN r.dummies ELSE 0)
       IN  /\ fs' = With(Write({"label_formatted", "labels_map"}, Content(r.rows, job.width)),
                         IF r.dummies < 0 THEN {} ELSE {"augmented_data", "augmented_labels", "dummy_map"},
                         Content(rows, job.width))
           /\ job' = [job EXCEPT !.pc = "disk_quantize", !.rows = rows]
    /\ UNCHANGED <<asked, ended>>

(* generate_pq_pivots keeps a pivot file of the same dimension: its width is *)
(* the dimension, its rows here the chunks.  Codes are refused for pivots of *)
(* another number of chunks, and for more chunks than dimensions.            *)
Pivots(f, chunks) == IF Has(f) /\ fs[f].width = job.width THEN fs[f] ELSE Content(chunks, job.width)
CanEncode(f, chunks) == chunks <= job.width /\ Pivots(f, chunks).rows = chunks
DiskChunks == Min({r.disk_PQ, job.width})
DiskQuantize ==
    /\ job.pc = "disk_quantize"
    /\ IF r.disk_PQ = 0 THEN UNCHANGED fs
       ELSE /\ CanEncode("disk_pq_pivots", DiskChunks)
            /\ fs' = With(Write({"disk_pq_compressed"}, Content(job.rows, DiskChunks)),
                          {"disk_pq_pivots"}, Pivots("disk_pq_pivots", DiskChunks))
    /\ Goto("quantize") /\ UNCHANGED <<asked, ended>>

(* OPQ trains anew; the rotation is a file of its own.  The codes are in the *)
(* making from here on.                                                      *)
Chunks == NumChunks(job.rows, job.width)
Quantize ==
    /\ job.pc = "quantize" /\ Chunks <= job.width
    /\ r.opq \/ CanEncode("pq_pivots", Chunks)
    /\ fs' = With(IF r.opq THEN Write({"pq_pivots", "rotation"}, Content(Chunks, job.width))
                  ELSE Write({"pq_pivots"}, Pivots("pq_pivots", Chunks)),
                  {"pq_compressed"}, Content(0, Chunks))
    /\ Goto("encode") /\ UNCHANGED <<asked, ended>>

Encode ==
    /\ job.pc = "encode"
    /\ fs' = Write({"pq_compressed"}, Content(job.rows, Chunks))
    /\ Goto("graph") /\ UNCHANGED <<asked, ended>>

(***************************************************************************)
(* build_merged_vamana_index: one graph, or shards that are merged.         *)
(***************************************************************************)
Medoids == IF r.form = "amcgi" THEN "prefix_medoids" ELSE "medoids"
Centroids == IF r.form = "amcgi" THEN "prefix_centroids" ELSE "centroids"
(* AMCGI passes no name for the labels' starts.                              *)
LabelsToMedoids == IF r.labels /\ r.form = "standard" THEN {"labels_to_medoids"} ELSE {}
SavedLabels == IF r.labels THEN {"mem_labels"} \cup (IF r.universal THEN {"mem_universal_label"} ELSE {}) ELSE {}

(* A wrong variant: starts of an earlier build in shards are kept.           *)
OneShotKeepsMedoids ==
    /\ job.pc = "graph" /\ r.form # "mcgi" /\ r.shards = 0
    /\ fs' = Write({"mem_index", "mem_index_data"} \cup SavedLabels \cup LabelsToMedoids, Content(job.rows, job.width))
    /\ Goto("layout") /\ UNCHANGED <<asked, ended>>
OneShot ==
    /\ job.pc = "graph" /\ r.form # "mcgi" /\ r.shards = 0
    /\ fs' = Without(Write({"mem_index", "mem_index_data"} \cup SavedLabels \cup LabelsToMedoids,
                          Content(job.rows, job.width)),
                    {Medoids, Centroids})
    /\ Goto("layout") /\ UNCHANGED <<asked, ended>>

(* The centroids of the partition are put into place before there are        *)
(* graphs; the starts when these are merged.                                 *)
Partition ==
    /\ job.pc = "graph" /\ r.form # "mcgi" /\ r.shards > 0
    /\ fs' = With(Write({"tempFiles"} \cup (SavedLabels \ {"mem_labels"}), Content(job.rows, job.width)),
                  {Centroids}, Content(job.rows, r.shards))
    /\ Goto("merge") /\ UNCHANGED <<asked, ended>>

Merge ==
    /\ job.pc = "merge"
    /\ fs' = With(Write({"mem_index"} \cup LabelsToMedoids, Content(job.rows, job.width)),
                  {Medoids}, Content(job.rows, r.shards))
    /\ Goto("delete_temp") /\ UNCHANGED <<asked, ended>>

DeleteTempFiles ==
    /\ job.pc = "delete_temp"
    /\ fs' = Without(fs, {"tempFiles"})
    /\ Goto("layout") /\ UNCHANGED <<asked, ended>>

(* MCGI saves the graph under the prefix itself; with a label file it asks   *)
(* for tags, gives none, and throws.                                         *)
McgiGraph ==
    /\ job.pc = "graph" /\ r.form = "mcgi" /\ ~r.labels
    /\ fs' = Write({"prefix", "prefix_data"}, Content(job.rows, job.width))
    /\ Goto("layout") /\ UNCHANGED <<asked, ended>>

(***************************************************************************)
(* Layout and cleaning up.                                                  *)
(***************************************************************************)
(* What is laid out: the data, or codes: those for the disk, by AMCGI those  *)
(* for memory.  Rows are the base's.                                         *)
Base ==
    IF r.disk_PQ = 0 THEN "data" ELSE IF r.form = "amcgi" THEN "pq_compressed" ELSE "disk_pq_compressed"
CanLayOut == Base = "data" \/ (Has(Base) /\ (r.reorder => fs[Base].rows = job.rows))
Size == IF Base = "data" THEN Content(job.rows, job.width) ELSE Content(fs[Base].rows, fs[Base].width)
DiskFile(size) == [by |-> n, rows |-> size.rows, width |-> size.width, reorder |-> r.reorder]

Layout ==
    /\ job.pc = "layout" /\ CanLayOut
    /\ fs' = Write({"disk_index"}, DiskFile(Content(0, 0)))
    /\ Goto("laid_out") /\ UNCHANGED <<asked, ended>>

(* The header is written last.  AMCGI and MCGI leave it at that.             *)
LaidOut ==
    /\ job.pc = "laid_out"
    /\ fs' = Write({"disk_index"}, DiskFile(Size))
    /\ IF r.form = "standard" THEN Goto("sample") /\ UNCHANGED ended ELSE End("done")
    /\ UNCHANGED asked

Sample ==
    /\ job.pc = "sample"
    /\ fs' = Write({"sample"}, Content(job.rows, job.width))
    /\ Goto(IF r.labels THEN "copy_labels" ELSE "clean_up") /\ UNCHANGED <<asked, ended>>

(* The labels that were used, dummies' included, become the index's.         *)
(* A wrong variant: the labels as they were formatted.                       *)
CopyLabelsFormatted ==
    /\ job.pc = "copy_labels"
    /\ fs' = Without(Write({"labels"} \cup (IF r.universal THEN {"universal_label"} ELSE {}), fs["label_formatted"]),
                    SavedLabels \cup {"augmented_data", "augmented_labels"}
                    \cup (IF r.dummies >= 0 THEN {} ELSE {"label_formatted"}))
    /\ Goto("clean_up") /\ UNCHANGED <<asked, ended>>
CopyLabels ==
    /\ job.pc = "copy_labels"
    /\ LET used == IF r.dummies >= 0 THEN "augmented_labels" ELSE "label_formatted"
       IN  fs' = Without(IF r.universal
                        THEN With(Write({"labels"}, fs[used]), {"universal_label"}, fs["mem_universal_label"])
                        ELSE Write({"labels"}, fs[used]),
                        SavedLabels \cup {"augmented_data", "augmented_labels", used})
    /\ Goto("clean_up") /\ UNCHANGED <<asked, ended>>

Temporaries ==
    {"mem_index", "mem_index_data"} \cup (IF r.metric = "l2" THEN {} ELSE {"prepped_base"})
                                    \cup (IF r.disk_PQ > 0 THEN {"disk_pq_compressed"} ELSE {})
CleanUp ==
    /\ job.pc = "clean_up"
    /\ fs' = Without(fs, Temporaries)
    /\ End("done") /\ UNCHANGED asked

(***************************************************************************)
(* Failures: a step that throws, and a process that ends after any step.    *)
(***************************************************************************)
Throws ==
    \/ job.pc = "prepare" /\ r.metric # "l2" /\ ~r.float
    \/ job.pc = "disk_quantize" /\ r.disk_PQ > 0 /\ ~CanEncode("disk_pq_pivots", DiskChunks)
    \/ job.pc = "quantize" /\ (Chunks > job.width \/ (~r.opq /\ ~CanEncode("pq_pivots", Chunks)))
    \/ job.pc = "graph" /\ r.form = "mcgi" /\ r.labels
    \/ job.pc = "layout" /\ ~CanLayOut
(* Pivots are on disk before the codes are refused.                          *)
Throw ==
    /\ job # Idle /\ Throws
    /\ fs' = IF job.pc = "quantize" /\ Chunks <= job.width THEN Write({"pq_pivots"}, Pivots("pq_pivots", Chunks)) ELSE fs
    /\ End("thrown") /\ UNCHANGED asked
Crash == job # Idle /\ End("killed") /\ UNCHANGED <<fs, asked>>

Init == fs = <<>> /\ job = Idle /\ asked = <<>> /\ ended = <<>>
Next ==
    \/ \E q \in Requests(n + 1) : Begin(q) \/ Refuse(q)
    \/ Prepare \/ Labels \/ DiskQuantize \/ Quantize \/ Encode
    \/ OneShot \/ Partition \/ Merge \/ DeleteTempFiles \/ McgiGraph
    \/ Layout \/ LaidOut \/ Sample \/ CopyLabels \/ CleanUp
    \/ Throw \/ Crash
Spec == Init /\ [][Next]_vars

(***************************************************************************)
(* PQFlashIndex::load of what is there.                                     *)
(***************************************************************************)
(* Codes cut off make it throw, as do pivots for other chunks, data for      *)
(* reordering without pivots for the disk and centroids that are not one for *)
(* each start; other rows than the codes' are refused.                       *)
CodesFit ==
    /\ Has("pq_pivots") /\ Has("pq_compressed") /\ fs["pq_compressed"].rows > 0
    /\ fs["pq_pivots"].rows = fs["pq_compressed"].width
HeaderFits ==
    /\ Has("disk_index") /\ fs["disk_index"].rows = fs["pq_compressed"].rows
    /\ fs["disk_index"].reorder => Has("disk_pq_pivots")
CentroidsFit == Has("medoids") /\ Has("centroids") => fs["centroids"].width = fs["medoids"].width
Loads == CodesFit /\ HeaderFits /\ CentroidsFit

(* Whose presence load takes for an option of the build.                     *)
Optional == {"labels", "universal_label", "dummy_map", "disk_pq_pivots", "rotation"}
AskedFor(q, f) ==
    CASE f = "labels" -> q.labels
      [] f = "universal_label" -> q.labels /\ q.universal
      [] f = "dummy_map" -> q.labels /\ q.dummies >= 0
      [] f = "disk_pq_pivots" -> q.disk_PQ > 0
      [] OTHER -> q.opq

(***************************************************************************)
(* Properties.                                                              *)
(***************************************************************************)
Completed == job = Idle /\ ended # <<>> /\ Last(ended) = "done" /\ Last(asked).form = "standard"
SinceStandard ==
    n - Max({0} \cup {i \in DOMAIN ended : ended[i] = "done" /\ asked[i].form = "standard"})

(* What load starts searches from was made for an index of as many rows,     *)
(* whatever one build since the last that was completed has left undone:     *)
(* starts and centroids of shards (disk_utils.cpp:691, load at               *)
(* pq_flash_index.cpp:1110) and, when all builds had labels, their starts.   *)
StartsFit ==
    Loads /\ SinceStandard <= 1 =>
        /\ Has("medoids") => fs["medoids"].rows = fs["disk_index"].rows
        /\ (\A i \in DOMAIN asked : asked[i].labels) /\ Has("labels_to_medoids") =>
               fs["labels_to_medoids"].rows = fs["disk_index"].rows

(* A completed build can be loaded, and what is loaded is what it was asked  *)
(* for and its own, save that pivots of the right shape may be older, and    *)
(* that an option an earlier build over the prefix had may still be on.      *)
CompletedIsAsked ==
    Completed =>
        LET q == Last(asked)
            own == {"disk_index", "pq_compressed"}
                   \cup (IF q.labels THEN {"labels", "labels_map", "labels_to_medoids"} ELSE {})
                   \cup {f \in {"universal_label", "dummy_map"} : AskedFor(q, f)}
                   \cup (IF q.metric = "mips" THEN {"max_base_norm"} ELSE {})
                   \cup (IF q.shards = 0 THEN {} ELSE {"medoids", "centroids"})
        IN  /\ Loads
            /\ \A f \in own : Has(f) /\ fs[f].by = n
            /\ \A f \in Optional : Has(f) => \E i \in DOMAIN asked : AskedFor(asked[i], f)
            /\ q.labels => fs["labels"].rows = fs["disk_index"].rows
            /\ q.disk_PQ > 0 => fs["disk_pq_pivots"].rows = fs["disk_index"].width

(* What --PQ_disk_bytes 0, no --use_opq, no --label_file and no threshold    *)
(* say (workflows/SSD_index.md, filtered_ssd_index.md).  The code leaves the *)
(* files of the options of an earlier build where load finds them.           *)
LoadsWhatWasAsked ==
    Completed => \A f \in Optional : Has(f) => AskedFor(Last(asked), f)
=============================================================================
