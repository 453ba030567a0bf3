------------------------ MODULE DiskIndexFilesProofs ------------------------
(***************************************************************************)
(* Proofs about DiskIndexFiles, for any requests and any number of builds: *)
(* a completed build can be loaded and is what it was asked for, and what  *)
(* a load starts its searches from fits the index, whatever one build      *)
(* since the last that was completed has left undone.                      *)
(***************************************************************************)
EXTENDS DiskIndexFiles, RankProofs

-----------------------------------------------------------------------------
(* The inductive invariant.                                                *)

Requested == UNION {Requests(i) : i \in 1 .. MaxBuilds}

\* The steps of a standard build up to the one that has some result.
BeforeLabels == {"prepare", "labels"}
BeforePivots == BeforeLabels \cup {"disk_quantize"}
BeforeCodes == BeforePivots \cup {"quantize"}
BeforeEncoded == BeforeCodes \cup {"encode"}
BeforeGraph == BeforeEncoded \cup {"graph"}
BeforeStarts == BeforeGraph \cup {"merge"}
BeforeLayout == BeforeStarts \cup {"delete_temp", "layout"}
BeforeHeader == BeforeLayout \cup {"laid_out"}
BeforeCopied == BeforeHeader \cup {"sample", "copy_labels"}
Steps == BeforeCopied \cup {"clean_up"}

Own(f) == Has(f) /\ fs[f].by = n

\* A build knows its request, and files are those of builds so far.
JobInv ==
    /\ asked \in Seq(Requested) /\ n <= MaxBuilds
    /\ ended \in Seq({"done", "refused", "thrown", "killed"})
    /\ IF job = Idle THEN Len(ended) = n
       ELSE /\ job \in [pc : Steps, req : Requested, rows : Nat \ {0}, width : Nat]
            /\ n > 0 /\ Len(ended) = n - 1 /\ r = asked[n] /\ Accepted(r)
    /\ \A f \in DOMAIN fs : fs[f].by \in 1 .. n

\* Some steps are of some builds only.
StepInv ==
    /\ job.pc \in BeforeEncoded \cup {"sample", "copy_labels", "clean_up"} => r.form = "standard"
    /\ job.pc \in {"labels", "copy_labels"} => r.labels
    /\ job.pc \in {"merge", "delete_temp"} => r.form # "mcgi" /\ r.shards > 0

\* What a standard build has made so far and has not removed.
UsedLabels == IF r.dummies >= 0 THEN "augmented_labels" ELSE "label_formatted"
PreparedMade == job.pc # "prepare" /\ r.metric = "mips" => Own("max_base_norm")
LabelsMade ==
    job.pc \notin BeforeLabels /\ r.labels =>
        /\ Own("labels_map") /\ (r.dummies >= 0 => Own("dummy_map"))
        /\ job.pc # "clean_up" => Own(UsedLabels) /\ fs[UsedLabels].rows = job.rows
DiskCodesMade ==
    job.pc \notin BeforePivots /\ r.disk_PQ > 0 =>
        /\ Has("disk_pq_pivots") /\ fs["disk_pq_pivots"].rows = DiskChunks
        /\ Has("disk_pq_compressed") /\ fs["disk_pq_compressed"].rows = job.rows
        /\ fs["disk_pq_compressed"].width = DiskChunks
CodesMade ==
    /\ job.pc \notin BeforeCodes => Has("pq_pivots") /\ fs["pq_pivots"].rows = Chunks
    /\ job.pc \notin BeforeEncoded =>
          Own("pq_compressed") /\ fs["pq_compressed"].rows = job.rows /\ fs["pq_compressed"].width = Chunks
GraphMade ==
    /\ job.pc \notin BeforeGraph /\ r.labels /\ r.universal /\ job.pc # "clean_up" => Own("mem_universal_label")
    /\ job.pc \notin BeforeGraph /\ r.shards > 0 => Own("centroids") /\ fs["centroids"].width = r.shards
    /\ job.pc \notin BeforeStarts /\ r.shards > 0 => Own("medoids") /\ fs["medoids"].width = r.shards
    /\ job.pc \notin BeforeGraph /\ r.shards = 0 => ~Has("medoids") /\ ~Has("centroids")
    /\ job.pc \notin BeforeStarts /\ r.labels => Own("labels_to_medoids")
LayoutMade ==
    job.pc \notin BeforeHeader =>
        /\ Own("disk_index") /\ fs["disk_index"].rows = job.rows
        /\ fs["disk_index"].reorder = r.reorder
        /\ r.disk_PQ > 0 => fs["disk_index"].width = DiskChunks
LabelsCopied ==
    job.pc = "clean_up" /\ r.labels =>
        Own("labels") /\ fs["labels"].rows = job.rows /\ (r.universal => Own("universal_label"))
MadeInv ==
    job # Idle /\ r.form = "standard" =>
        PreparedMade /\ LabelsMade /\ DiskCodesMade /\ CodesMade /\ GraphMade /\ LayoutMade /\ LabelsCopied

\* The files a load compares, and those it starts searches from.
Sized == {"medoids", "labels_to_medoids", "pq_compressed", "disk_index"}

\* What the running build has written of them: as many rows as it has.
SizedInv ==
    job # Idle => \A f \in Sized :
        Own(f) => IF r.form # "standard" THEN f = "disk_index"
                  ELSE /\ job.pc \notin BeforePivots /\ fs[f].rows \in {0, job.rows}
                       /\ f = "disk_index" => job.pc \notin BeforeLayout

\* Those of one build have the same number of rows, and starts have some.
Starts == {"medoids", "labels_to_medoids"}
SameRows ==
    /\ \A f, g \in Sized :
          Has(f) /\ Has(g) /\ fs[f].by = fs[g].by /\ fs[f].rows # 0 /\ fs[g].rows # 0 => fs[f].rows = fs[g].rows
    /\ \A f \in Starts : Has(f) => fs[f].rows # 0

\* Codes come before starts, and starts, or their removal, before the layout.
OrderInv ==
    /\ Own("medoids") \/ Own("labels_to_medoids") => Own("pq_compressed")
    /\ Own("pq_compressed") /\ Own("disk_index") =>
          /\ Has("medoids") => Own("medoids")
          /\ asked[n].labels /\ Has("labels_to_medoids") => Own("labels_to_medoids")

\* Until the second build after the last that was completed, all of these
\* files are of the last two.
StandardDone(i) == i \in DOMAIN ended /\ ended[i] = "done" /\ asked[i].form = "standard"
Recent == n <= 1 \/ StandardDone(n - 1) \/ StandardDone(n)
LabelsAlways == \A i \in DOMAIN asked : asked[i].labels
RecentInv ==
    Recent =>
        /\ \A f \in Sized \ {"labels_to_medoids"} : Has(f) => fs[f].by \in {n - 1, n}
        /\ LabelsAlways /\ Has("labels_to_medoids") => fs["labels_to_medoids"].by \in {n - 1, n}

\* An option leaves its files for the builds to come.
OptionsInv == \A f \in Optional : Has(f) => \E i \in DOMAIN asked : AskedFor(asked[i], f)

\* A completed build has no starts but its own.
CompletedInv == Completed /\ Has("medoids") => Own("medoids")

FilesInv ==
    /\ JobInv /\ StepInv /\ MadeInv
    /\ SizedInv /\ SameRows /\ OrderInv /\ RecentInv
    /\ OptionsInv /\ CompletedInv /\ CompletedIsAsked

-----------------------------------------------------------------------------
(* Files that are written and removed.                                     *)

\* What a step leaves alone.
Untouched(names) ==
    \A f : f \notin names => (f \in DOMAIN fs' <=> f \in DOMAIN fs) /\ (f \in DOMAIN fs => fs'[f] = fs[f])
Gone(names) == \A f \in names : f \notin DOMAIN fs'
Become(names, c) == \A f \in names : f \in DOMAIN fs' /\ fs'[f] = c

LEMMA Wrote ==
    ASSUME NEW names, NEW STATE c, fs' = Write(names, c)
    PROVE  Untouched(names) /\ Become(names, c)
BY DEF Write, With, Untouched, Become

LEMMA WroteTwice ==
    ASSUME NEW first, NEW STATE b, NEW second, NEW STATE c, fs' = With(Write(first, b), second, c)
    PROVE  Untouched(first \cup second) /\ Become(first \ second, b) /\ Become(second, c)
BY DEF Write, With, Untouched, Become

LEMMA Removed ==
    ASSUME NEW names, fs' = Without(fs, names)
    PROVE  Untouched(names) /\ Gone(names)
BY DEF Without, Restrict, Untouched, Gone

LEMMA WroteAndRemoved ==
    ASSUME NEW names, NEW STATE c, NEW gone, fs' = Without(Write(names, c), gone)
    PROVE  Untouched(names \cup gone) /\ Become(names \ gone, c) /\ Gone(gone)
BY DEF Write, With, Without, Restrict, Untouched, Become, Gone

LEMMA WroteTwiceAndRemoved ==
    ASSUME NEW first, NEW STATE b, NEW second, NEW STATE c, NEW gone,
           fs' = Without(With(Write(first, b), second, c), gone)
    PROVE  /\ Untouched(first \cup second \cup gone) /\ Gone(gone)
           /\ Become((first \ second) \ gone, b) /\ Become(second \ gone, c)
BY DEF Write, With, Without, Restrict, Untouched, Become, Gone

LEMMA ContentAt ==
    ASSUME NEW rows, NEW width
    PROVE  /\ Content(rows, width).by = n
           /\ Content(rows, width).rows = rows
           /\ Content(rows, width).width = width
BY DEF Content

LEMMA DiskFileAt ==
    ASSUME NEW size
    PROVE  /\ DiskFile(size).by = n
           /\ DiskFile(size).rows = size.rows
           /\ DiskFile(size).width = size.width
           /\ DiskFile(size).reorder = r.reorder
BY DEF DiskFile

\* What is known of a request.
LEMMA RequestedType ==
    ASSUME NEW q \in Requested
    PROVE  /\ q.form \in {"standard", "amcgi", "mcgi"}
           /\ q.rows \in Nat \ {0} /\ q.dim \in Nat /\ q.shards \in Nat /\ q.disk_PQ \in Nat
           /\ q.dummies \in Nat \cup {-1} /\ q.labels \in BOOLEAN
BY RequestAssumption DEF Requested

LEMMA AtWork ==
    ASSUME FilesInv, job # Idle
    PROVE  /\ job \in [pc : Steps, req : Requested, rows : Nat \ {0}, width : Nat]
           /\ n \in Nat /\ n > 0 /\ n <= MaxBuilds /\ Len(ended) = n - 1 /\ r = asked[n] /\ Accepted(r)
           /\ job.pc \in Steps /\ r \in Requested /\ job.rows \in Nat \ {0} /\ job.width \in Nat
BY DEF FilesInv, JobInv, n, r

\* A step to another of the same build.
LEMMA NextStep ==
    ASSUME FilesInv, job # Idle, NEW pc \in Steps, job' = [job EXCEPT !.pc = pc],
           UNCHANGED <<asked, ended>>
    PROVE  /\ job' \in [pc : Steps, req : Requested, rows : Nat \ {0}, width : Nat]
           /\ job'.pc = pc /\ job' # Idle' /\ r' = r /\ n' = n
           /\ job'.rows = job.rows /\ job'.width = job.width
           /\ Chunks' = Chunks /\ DiskChunks' = DiskChunks /\ UsedLabels' = UsedLabels
<1>1. job \in [pc : Steps, req : Requested, rows : Nat \ {0}, width : Nat]
  BY AtWork
<1>2. /\ job' = [pc |-> pc, req |-> job.req, rows |-> job.rows, width |-> job.width]
      /\ job'.pc = pc /\ job'.req = job.req /\ job'.rows = job.rows /\ job'.width = job.width
      /\ job' \in [pc : Steps, req : Requested, rows : Nat \ {0}, width : Nat]
  BY <1>1
<1>3. pc # "idle"
  BY DEF Steps, BeforeCopied, BeforeHeader, BeforeLayout, BeforeStarts, BeforeGraph, BeforeEncoded,
         BeforeCodes, BeforePivots, BeforeLabels
<1>4. job' # Idle'
  BY <1>2, <1>3 DEF Idle
<1> QED
  BY <1>2, <1>4 DEF r, n, Chunks, NumChunks, DiskChunks, UsedLabels

\* What a step of a build keeps as long as what it writes is the build's own.
LEMMA NextStepKeeps ==
    ASSUME FilesInv, job # Idle, UNCHANGED <<asked, ended>>,
           job' \in [pc : Steps, req : Requested, rows : Nat \ {0}, width : Nat], r' = r,
           \A f \in DOMAIN fs' : fs'[f].by \in 1 .. n,
           \A f \in Sized : f \in DOMAIN fs' => (f \in DOMAIN fs /\ fs'[f] = fs[f]) \/ fs'[f].by = n
    PROVE  JobInv' /\ RecentInv' /\ CompletedInv' /\ CompletedIsAsked'
<1>1. /\ n \in Nat /\ n > 0 /\ n <= MaxBuilds /\ Len(ended) = n - 1 /\ r = asked[n] /\ Accepted(r)
  BY AtWork
<1>2. job' # Idle' /\ n' = n
  <2>1. job'.pc # "idle"
    BY DEF Steps, BeforeCopied, BeforeHeader, BeforeLayout, BeforeStarts, BeforeGraph, BeforeEncoded,
           BeforeCodes, BeforePivots, BeforeLabels
  <2> QED
    BY <2>1 DEF Idle, n
<1>3. Accepted(r)'
  BY <1>1, <1>2 DEF Accepted
<1>4. JobInv'
  BY <1>1, <1>2, <1>3 DEF FilesInv, JobInv
<1>5. RecentInv'
  BY <1>2 DEF FilesInv, RecentInv, Recent, StandardDone, LabelsAlways, Has, Sized
<1>6. ~Completed'
  BY <1>2 DEF Completed
<1> QED
  BY <1>4, <1>5, <1>6 DEF CompletedInv, CompletedIsAsked

\* A step that leaves the files of Sized alone.
LEMMA OrderKept ==
    ASSUME FilesInv, UNCHANGED asked,
           \A f \in Sized : (f \in DOMAIN fs' <=> f \in DOMAIN fs) /\ (f \in DOMAIN fs => fs'[f] = fs[f])
    PROVE  /\ SameRows' /\ OrderInv'
           /\ n' = n /\ \A f \in Sized : Own(f)' <=> Own(f)
<1>1. n' = n /\ \A f \in Sized : Own(f)' <=> Own(f)
  BY DEF n, Own, Has
<1>2. SameRows'
  BY DEF FilesInv, SameRows, Has, Starts, Sized
<1>3. OrderInv'
  <2> USE DEF Sized
  <2>1. /\ Own("medoids")' <=> Own("medoids")
        /\ Own("labels_to_medoids")' <=> Own("labels_to_medoids")
        /\ Own("pq_compressed")' <=> Own("pq_compressed")
        /\ Own("disk_index")' <=> Own("disk_index")
        /\ Has("medoids")' <=> Has("medoids")
        /\ Has("labels_to_medoids")' <=> Has("labels_to_medoids")
    BY <1>1 DEF Has
  <2> QED
    BY <1>1, <2>1 DEF FilesInv, OrderInv
<1> QED
  BY <1>1, <1>2, <1>3

LEMMA SizedKept ==
    ASSUME FilesInv, job # Idle, UNCHANGED asked, job' # Idle', r' = r,
           \A f \in Sized : (f \in DOMAIN fs' <=> f \in DOMAIN fs) /\ (f \in DOMAIN fs => fs'[f] = fs[f]),
           job.pc \notin BeforePivots => job'.pc \notin BeforePivots /\ job'.rows = job.rows,
           job.pc \notin BeforeLayout => job'.pc \notin BeforeLayout
    PROVE  SizedInv' /\ SameRows' /\ OrderInv'
<1>1. SameRows' /\ OrderInv' /\ n' = n /\ \A f \in Sized : Own(f)' <=> Own(f)
  BY OrderKept
<1>2. SizedInv'
  BY <1>1 DEF FilesInv, SizedInv, Own, Has
<1> QED
  BY <1>1, <1>2

\* A build that ends, and is not a standard one that is done.
LEMMA EndKeeps ==
    ASSUME FilesInv, job # Idle, UNCHANGED asked,
           NEW how \in {"done", "refused", "thrown", "killed"}, End(how), how # "done" \/ r.form # "standard",
           \A f \in DOMAIN fs' : fs'[f].by \in 1 .. n,
           \A f \in Sized : f \in DOMAIN fs' => (f \in DOMAIN fs /\ fs'[f] = fs[f]) \/ fs'[f].by = n
    PROVE  JobInv' /\ StepInv' /\ MadeInv' /\ SizedInv' /\ RecentInv' /\ CompletedInv' /\ CompletedIsAsked'
<1>1. /\ n \in Nat /\ n > 0 /\ n <= MaxBuilds /\ Len(ended) = n - 1 /\ r = asked[n]
      /\ ended \in Seq({"done", "refused", "thrown", "killed"})
  BY AtWork DEF FilesInv, JobInv
<1>2. job' = Idle' /\ job'.pc = "idle" /\ n' = n /\ ended' = Append(ended, how)
  BY DEF End, Idle, n
<1>3. /\ ended' \in Seq({"done", "refused", "thrown", "killed"}) /\ Len(ended') = n
      /\ ended'[n] = how /\ \A i \in 1 .. n - 1 : ended'[i] = ended[i]
  BY <1>1, <1>2
<1>4. JobInv'
  BY <1>1, <1>2, <1>3 DEF FilesInv, JobInv
<1>5. StepInv' /\ MadeInv' /\ SizedInv'
  BY <1>2 DEF StepInv, MadeInv, SizedInv, BeforeEncoded, BeforeCodes, BeforePivots, BeforeLabels
<1>6. ~Completed'
  BY <1>1, <1>2, <1>3 DEF Completed, Last, n
<1>7. Recent' => Recent
  <2>1. DOMAIN ended = 1 .. n - 1 /\ DOMAIN ended' = 1 .. n
    BY <1>1, <1>3
  <2> QED
    BY <1>1, <1>2, <1>3, <2>1 DEF Recent, StandardDone
<1>8. RecentInv'
  BY <1>2, <1>7 DEF FilesInv, RecentInv, LabelsAlways, Has, Sized
<1> QED
  BY <1>4, <1>5, <1>6, <1>8 DEF CompletedInv, CompletedIsAsked

\* A step that writes files of an option only when it is on.
LEMMA OptionsKept ==
    ASSUME FilesInv, job # Idle, UNCHANGED asked,
           \A f \in Optional : f \in DOMAIN fs' => f \in DOMAIN fs \/ AskedFor(r, f)
    PROVE  OptionsInv'
<1>1. r = asked[n] /\ n \in DOMAIN asked
  BY AtWork DEF FilesInv, JobInv, n
<1> QED
  BY <1>1 DEF FilesInv, OptionsInv, AskedFor, Has

-----------------------------------------------------------------------------
(* Every step keeps the invariant.                                         *)

LEMMA EncodeKeeps == ASSUME FilesInv, Encode PROVE FilesInv'
<1> DEFINE c == Content(job.rows, Chunks)
<1>1. /\ job.pc = "encode" /\ job # Idle /\ job' = [job EXCEPT !.pc = "graph"]
      /\ UNCHANGED <<asked, ended>> /\ "graph" \in Steps
  BY DEF Encode, Goto, Idle, Steps, BeforeCopied, BeforeHeader, BeforeLayout, BeforeStarts, BeforeGraph
<1>2. r.form = "standard"
  BY <1>1 DEF FilesInv, StepInv, BeforeEncoded
<1>3. /\ job' \in [pc : Steps, req : Requested, rows : Nat \ {0}, width : Nat]
      /\ job'.pc = "graph" /\ job' # Idle' /\ r' = r /\ n' = n
      /\ job'.rows = job.rows /\ job'.width = job.width
      /\ Chunks' = Chunks /\ DiskChunks' = DiskChunks /\ UsedLabels' = UsedLabels
  BY <1>1, NextStep
<1>4. c.by = n /\ c.rows = job.rows /\ c.width = Chunks
  BY ContentAt
<1>5. /\ Untouched({"pq_compressed"})
      /\ "pq_compressed" \in DOMAIN fs' /\ fs'["pq_compressed"] = c
  <2>1. fs' = Write({"pq_compressed"}, c)
    BY DEF Encode
  <2> HIDE DEF c
  <2> QED
    BY <2>1, Wrote DEF Become
<1> HIDE DEF c
<1>6. JobInv' /\ RecentInv' /\ CompletedInv' /\ CompletedIsAsked'
  <2>1. \A f \in DOMAIN fs' : fs'[f].by \in 1 .. n
    BY <1>1, <1>4, <1>5, AtWork DEF Untouched, FilesInv, JobInv
  <2>2. \A f \in Sized : f \in DOMAIN fs' => (f \in DOMAIN fs /\ fs'[f] = fs[f]) \/ fs'[f].by = n
    BY <1>4, <1>5 DEF Untouched
  <2> QED
    BY <1>1, <1>3, <2>1, <2>2, NextStepKeeps
<1>7. StepInv'
  BY <1>3 DEF StepInv, BeforeEncoded, BeforeCodes, BeforePivots, BeforeLabels
<1>8. OptionsInv'
  BY <1>1, <1>5, OptionsKept DEF Untouched, Optional
<1>9. MadeInv'
  BY <1>1, <1>2, <1>3, <1>4, <1>5 DEF FilesInv, MadeInv, PreparedMade, LabelsMade, DiskCodesMade, CodesMade,
     GraphMade, LayoutMade, LabelsCopied, Own, Has, UsedLabels, Untouched, BeforeHeader, BeforeLayout, BeforeStarts,
     BeforeGraph, BeforeEncoded, BeforeCodes, BeforePivots, BeforeLabels
<1>10. SizedInv' /\ SameRows' /\ OrderInv'
  <2>1. SizedInv'
    BY <1>1, <1>2, <1>3, <1>4, <1>5 DEF FilesInv, SizedInv, Own, Has, Untouched,
       BeforeLayout, BeforeStarts, BeforeGraph, BeforeEncoded, BeforeCodes, BeforePivots, BeforeLabels
  <2>2. SameRows'
    BY <1>1, <1>2, <1>3, <1>4, <1>5 DEF FilesInv, SizedInv, SameRows, Own, Has, Untouched
  <2>3. OrderInv'
    BY <1>1, <1>2, <1>3, <1>4, <1>5 DEF FilesInv, SizedInv, OrderInv, Own, Has, Untouched, Sized,
       BeforeLayout, BeforeStarts, BeforeGraph, BeforeEncoded, BeforeCodes, BeforePivots, BeforeLabels
  <2> QED
    BY <2>1, <2>2, <2>3
<1> QED
  BY <1>6, <1>7, <1>8, <1>9, <1>10 DEF FilesInv

\* What holds when there is one request more.
LEMMA NewRequest ==
    ASSUME FilesInv, job = Idle, UNCHANGED fs, NEW q \in Requests(n + 1), n < MaxBuilds,
           asked' = Append(asked, q)
    PROVE  /\ asked' \in Seq(Requested) /\ n' = n + 1 /\ n \in Nat /\ n' <= MaxBuilds /\ Len(ended) = n
           /\ q \in Requested /\ asked'[n'] = q /\ (n > 0 => asked'[n] = asked[n])
           /\ \A f : ~Own(f)'
           /\ \A f \in DOMAIN fs' : fs'[f].by \in 1 .. n'
           /\ SameRows' /\ OrderInv' /\ OptionsInv'
           /\ n' <= 1 \/ StandardDone(n) =>
                 /\ \A f \in Sized \ {"labels_to_medoids"} : Has(f)' => fs'[f].by \in {n' - 1, n'}
                 /\ LabelsAlways' /\ Has("labels_to_medoids")' => fs'["labels_to_medoids"].by \in {n' - 1, n'}
<1>1. /\ asked \in Seq(Requested) /\ n \in Nat /\ n + 1 \in 1 .. MaxBuilds /\ q \in Requested /\ Len(ended) = n
      /\ ended \in Seq({"done", "refused", "thrown", "killed"})
      /\ \A f \in DOMAIN fs : fs[f].by \in 1 .. n
  BY RequestAssumption DEF FilesInv, JobInv, n, Requested
<1>2. /\ n' = n + 1 /\ asked' \in Seq(Requested) /\ asked'[n + 1] = q
      /\ \A i \in 1 .. n : asked'[i] = asked[i]
      /\ DOMAIN asked = 1 .. n /\ DOMAIN asked' = 1 .. n + 1
  BY <1>1 DEF n
<1>3. \A f : ~Own(f)'
  BY <1>1, <1>2 DEF Own, Has
<1>4. \A f \in DOMAIN fs' : fs'[f].by \in 1 .. n'
  BY <1>1, <1>2
<1>5. SameRows' /\ OrderInv'
  BY <1>3 DEF FilesInv, SameRows, OrderInv, Has
<1>6. OptionsInv'
  <2> SUFFICES ASSUME NEW f \in Optional, Has(f)
               PROVE  \E i \in DOMAIN asked' : AskedFor(asked'[i], f)
    BY DEF OptionsInv, Has, AskedFor
  <2>1. PICK i \in DOMAIN asked : AskedFor(asked[i], f)
    BY DEF FilesInv, OptionsInv
  <2>2. i \in DOMAIN asked' /\ asked'[i] = asked[i]
    BY <1>1, <1>2
  <2> QED
    BY <2>1, <2>2, Zenon
<1>7. ASSUME n' <= 1 \/ StandardDone(n)
      PROVE  /\ \A f \in Sized \ {"labels_to_medoids"} : Has(f)' => fs'[f].by \in {n' - 1, n'}
             /\ LabelsAlways' /\ Has("labels_to_medoids")' => fs'["labels_to_medoids"].by \in {n' - 1, n'}
  <2>1. CASE n' <= 1
    BY <1>1, <1>2, <2>1 DEF Has
  <2>2. CASE StandardDone(n)
    <3>1. n > 0 /\ ended[n] = "done" /\ asked[n].form = "standard" /\ ended # <<>>
      BY <1>1, <2>2 DEF StandardDone
    <3>2. Completed /\ Last(asked) = asked[n]
      BY <1>1, <3>1 DEF Completed, Last, n
    <3>3. Has("medoids") => fs["medoids"].by = n
      BY <3>2 DEF FilesInv, CompletedInv, Own
    <3>4. /\ fs["disk_index"].by = n /\ fs["pq_compressed"].by = n
          /\ asked[n].labels => fs["labels_to_medoids"].by = n
      BY <3>2 DEF FilesInv, CompletedIsAsked
    <3>5. LabelsAlways' => asked[n].labels
      BY <1>1, <1>2, <3>1 DEF LabelsAlways
    <3> QED
      BY <1>1, <1>2, <3>3, <3>4, <3>5 DEF Has, Sized
  <2> QED
    BY <1>7, <2>1, <2>2
<1>8. asked'[n'] = q /\ n' <= MaxBuilds
  BY <1>1, <1>2, RequestAssumption
<1>9. n > 0 => asked'[n] = asked[n]
  BY <1>1, <1>2
<1> QED
  BY <1>1, <1>2, <1>3, <1>4, <1>5, <1>6, <1>7, <1>8, <1>9

LEMMA CrashKeeps == ASSUME FilesInv, Crash PROVE FilesInv'
<1>1. job # Idle /\ End("killed") /\ UNCHANGED <<fs, asked>>
  BY DEF Crash
<1>2. \A f \in DOMAIN fs' : fs'[f].by \in 1 .. n
  BY <1>1 DEF FilesInv, JobInv
<1>3. JobInv' /\ StepInv' /\ MadeInv' /\ SizedInv' /\ RecentInv' /\ CompletedInv' /\ CompletedIsAsked'
  BY <1>1, <1>2, EndKeeps, Zenon
<1>4. SameRows' /\ OrderInv' /\ OptionsInv'
  BY <1>1, OrderKept, OptionsKept
<1> QED
  BY <1>3, <1>4 DEF FilesInv

LEMMA ThrowKeeps == ASSUME FilesInv, Throw PROVE FilesInv'
<1>1. job # Idle /\ End("thrown") /\ UNCHANGED asked
  BY DEF Throw
<1>2. /\ \A f \in DOMAIN fs' : fs'[f].by \in 1 .. n
      /\ Untouched({"pq_pivots"})
  <2>1. CASE fs' = fs
    BY <2>1 DEF FilesInv, JobInv, Untouched
  <2>2. CASE fs' # fs
    <3> DEFINE c == Pivots("pq_pivots", Chunks)
    <3>1. fs' = Write({"pq_pivots"}, c)
      BY <2>2 DEF Throw
    <3>2. c.by \in 1 .. n
      BY <1>1, ContentAt, AtWork DEF Pivots, Has, FilesInv, JobInv
    <3> HIDE DEF c
    <3>3. Untouched({"pq_pivots"}) /\ Become({"pq_pivots"}, c)
      BY <3>1, Wrote
    <3> QED
      BY <3>2, <3>3 DEF Untouched, Become, FilesInv, JobInv
  <2> QED
    BY <2>1, <2>2
<1>3. \A f \in Sized : (f \in DOMAIN fs' <=> f \in DOMAIN fs) /\ (f \in DOMAIN fs => fs'[f] = fs[f])
  BY <1>2 DEF Untouched, Sized
<1>4. JobInv' /\ StepInv' /\ MadeInv' /\ SizedInv' /\ RecentInv' /\ CompletedInv' /\ CompletedIsAsked'
  BY <1>1, <1>2, <1>3, EndKeeps
<1>5. SameRows' /\ OrderInv'
  BY <1>1, <1>3, OrderKept
<1>6. OptionsInv'
  BY <1>1, <1>2, OptionsKept DEF Untouched, Optional
<1> QED
  BY <1>4, <1>5, <1>6 DEF FilesInv

LEMMA RefuseKeeps == ASSUME FilesInv, NEW q \in Requests(n + 1), Refuse(q) PROVE FilesInv'
<1>1. /\ job = Idle /\ job' = Idle' /\ fs' = fs /\ n < MaxBuilds
      /\ asked' = Append(asked, q) /\ ended' = Append(ended, "refused")
  BY DEF Refuse, n, Idle
<1>2. /\ asked' \in Seq(Requested) /\ n' = n + 1 /\ n \in Nat /\ n' <= MaxBuilds /\ Len(ended) = n
      /\ \A f \in DOMAIN fs' : fs'[f].by \in 1 .. n'
      /\ SameRows' /\ OrderInv' /\ OptionsInv'
  BY <1>1, NewRequest
<1>3. n' <= 1 \/ StandardDone(n) =>
          /\ \A f \in Sized \ {"labels_to_medoids"} : Has(f)' => fs'[f].by \in {n' - 1, n'}
          /\ LabelsAlways' /\ Has("labels_to_medoids")' => fs'["labels_to_medoids"].by \in {n' - 1, n'}
  BY <1>1, NewRequest
<1>4. /\ ended' \in Seq({"done", "refused", "thrown", "killed"}) /\ Len(ended') = n'
      /\ ended'[n'] = "refused" /\ (n > 0 => ended'[n] = ended[n] /\ asked'[n] = asked[n])
      /\ DOMAIN ended = 1 .. n /\ DOMAIN ended' = 1 .. n + 1
  BY <1>1, <1>2 DEF FilesInv, JobInv, n
<1>5. JobInv'
  BY <1>1, <1>2, <1>4 DEF JobInv
<1>6. StepInv' /\ MadeInv' /\ SizedInv'
  BY <1>1 DEF StepInv, MadeInv, SizedInv, Idle, BeforeEncoded, BeforeCodes, BeforePivots, BeforeLabels
<1>7. ~Completed'
  BY <1>2, <1>4 DEF Completed, Last, n
<1>8. RecentInv'
  <2>1. Recent' => n' <= 1 \/ StandardDone(n)
    BY <1>2, <1>4 DEF Recent, StandardDone
  <2> QED
    BY <1>3, <2>1 DEF RecentInv
<1> QED
  BY <1>2, <1>5, <1>6, <1>7, <1>8 DEF FilesInv, CompletedInv, CompletedIsAsked

LEMMA BeginKeeps == ASSUME FilesInv, NEW q \in Requests(n + 1), Begin(q) PROVE FilesInv'
<1>1. /\ job = Idle /\ fs' = fs /\ n < MaxBuilds /\ asked' = Append(asked, q) /\ ended' = ended /\ Accepted(q)
      /\ job' = [pc |-> IF q.form = "standard" THEN "prepare" ELSE "graph", req |-> q, rows |-> q.rows, width |-> q.dim]
  BY DEF Begin, n
<1>2. /\ asked' \in Seq(Requested) /\ n' = n + 1 /\ n \in Nat /\ n' <= MaxBuilds /\ Len(ended) = n
      /\ q \in Requested /\ asked'[n'] = q /\ (n > 0 => asked'[n] = asked[n])
      /\ \A f : ~Own(f)'
      /\ \A f \in DOMAIN fs' : fs'[f].by \in 1 .. n'
      /\ SameRows' /\ OrderInv' /\ OptionsInv'
  BY <1>1, NewRequest
<1>3. n' <= 1 \/ StandardDone(n) =>
          /\ \A f \in Sized \ {"labels_to_medoids"} : Has(f)' => fs'[f].by \in {n' - 1, n'}
          /\ LabelsAlways' /\ Has("labels_to_medoids")' => fs'["labels_to_medoids"].by \in {n' - 1, n'}
  BY <1>1, NewRequest
<1>4. q.form \in {"standard", "amcgi", "mcgi"} /\ q.rows \in Nat \ {0} /\ q.dim \in Nat
  BY <1>2, RequestedType
<1>5. /\ r' = q /\ job' # Idle' /\ job'.pc = IF q.form = "standard" THEN "prepare" ELSE "graph"
      /\ job' \in [pc : Steps, req : Requested, rows : Nat \ {0}, width : Nat]
  BY <1>1, <1>2, <1>4 DEF r, Idle, Steps, BeforeCopied, BeforeHeader, BeforeLayout, BeforeStarts, BeforeGraph,
     BeforeEncoded, BeforeCodes, BeforePivots, BeforeLabels
<1>6. JobInv'
  <2>1. Accepted(r)'
    BY <1>1, <1>5 DEF Accepted
  <2>2. ended \in Seq({"done", "refused", "thrown", "killed"})
    BY DEF FilesInv, JobInv
  <2>3. /\ job' \in [pc : Steps, req : Requested, rows : Nat \ {0}, width : Nat]
        /\ n' > 0 /\ Len(ended') = n' - 1 /\ r' = asked'[n'] /\ Accepted(r)'
    BY <1>1, <1>2, <1>5, <2>1
  <2>4. asked' \in Seq(Requested) /\ n' <= MaxBuilds /\ ended' \in Seq({"done", "refused", "thrown", "killed"})
    BY <1>1, <1>2, <2>2
  <2>5. job' # Idle' /\ \A f \in DOMAIN fs' : fs'[f].by \in 1 .. n'
    BY <1>2, <1>5
  <2> QED
    BY <2>3, <2>4, <2>5 DEF JobInv
<1>7. StepInv' /\ MadeInv' /\ SizedInv'
  BY <1>2, <1>5 DEF StepInv, MadeInv, PreparedMade, LabelsMade, DiskCodesMade, CodesMade, GraphMade, LayoutMade,
     LabelsCopied, SizedInv, BeforeHeader, BeforeLayout, BeforeStarts, BeforeGraph, BeforeEncoded, BeforeCodes,
     BeforePivots, BeforeLabels
<1>8. ~Completed'
  BY <1>5 DEF Completed
<1>9. RecentInv'
  <2>1. DOMAIN ended = 1 .. n
    BY <1>2 DEF FilesInv, JobInv
  <2>2. ended' = ended
    BY <1>1
  <2>3. n' - 1 = n /\ n' \notin DOMAIN ended /\ (n \in DOMAIN ended => asked'[n] = asked[n])
    BY <1>2, <2>1
  <2>4. Recent' => n' <= 1 \/ StandardDone(n)
    BY <2>2, <2>3 DEF Recent, StandardDone
  <2> QED
    BY <1>3, <2>4 DEF RecentInv
<1> QED
  BY <1>2, <1>6, <1>7, <1>8, <1>9 DEF FilesInv, CompletedInv, CompletedIsAsked

LEMMA PrepareKeeps == ASSUME FilesInv, Prepare PROVE FilesInv'
<1> DEFINE width == IF r.metric = "mips" THEN r.dim + 1 ELSE r.dim
           names == {f \in {"prepped_base", "max_base_norm"} : CASE f = "prepped_base" -> r.metric # "l2"
                                                                [] OTHER -> r.metric = "mips"}
           c == Content(r.rows, width)
           pc == IF r.labels THEN "labels" ELSE "disk_quantize"
<1>1. /\ job.pc = "prepare" /\ job # Idle /\ UNCHANGED asked /\ fs' = Write(names, c)
      /\ \/ End("refused")
         \/ job' = [job EXCEPT !.pc = pc, !.width = width] /\ ended' = ended
  BY DEF Prepare, Idle
<1>2. /\ "max_base_norm" \in names <=> r.metric = "mips"
      /\ names \subseteq {"prepped_base", "max_base_norm"}
  OBVIOUS
<1>3. c.by = n
  BY ContentAt
<1>4. /\ r.form = "standard" /\ r.dim \in Nat /\ width \in Nat /\ n \in 1 .. n
      /\ job \in [pc : Steps, req : Requested, rows : Nat \ {0}, width : Nat]
  BY <1>1, RequestedType, AtWork DEF FilesInv, StepInv, BeforeEncoded, BeforeCodes, BeforePivots, BeforeLabels
<1> HIDE DEF width, names, c
<1>5. Untouched(names) /\ Become(names, c)
  BY <1>1, Wrote
<1>6. /\ \A f \in DOMAIN fs' : fs'[f].by \in 1 .. n
      /\ \A f \in Sized : (f \in DOMAIN fs' <=> f \in DOMAIN fs) /\ (f \in DOMAIN fs => fs'[f] = fs[f])
  BY <1>2, <1>3, <1>4, <1>5 DEF Untouched, Become, Sized, FilesInv, JobInv
<1>7. OptionsInv'
  BY <1>1, <1>2, <1>5, OptionsKept DEF Untouched, Optional
<1>8. CASE End("refused")
  <2>1. SameRows' /\ OrderInv'
    BY <1>1, <1>6, OrderKept
  <2>2. JobInv' /\ StepInv' /\ MadeInv' /\ SizedInv' /\ RecentInv' /\ CompletedInv' /\ CompletedIsAsked'
    BY <1>1, <1>6, <1>8, EndKeeps
  <2> QED
    BY <1>7, <2>1, <2>2 DEF FilesInv
<1>9. CASE job' = [job EXCEPT !.pc = pc, !.width = width] /\ ended' = ended
  <2>1. /\ job' \in [pc : Steps, req : Requested, rows : Nat \ {0}, width : Nat]
        /\ job'.pc = pc /\ pc \in {"labels", "disk_quantize"} /\ r' = r /\ n' = n /\ job' # Idle'
    <3>1. "labels" \in Steps /\ "disk_quantize" \in Steps
      BY DEF Steps, BeforeCopied, BeforeHeader, BeforeLayout, BeforeStarts, BeforeGraph, BeforeEncoded,
         BeforeCodes, BeforePivots, BeforeLabels
    <3>2. pc \in Steps
      BY <3>1
    <3> QED
      BY <1>1, <1>4, <1>9, <3>2 DEF r, n, Idle
  <2>2. JobInv' /\ RecentInv' /\ CompletedInv' /\ CompletedIsAsked'
    BY <1>1, <1>6, <1>9, <2>1, NextStepKeeps
  <2>3. SizedInv' /\ SameRows' /\ OrderInv'
    BY <1>1, <1>6, <2>1, SizedKept DEF BeforeLayout, BeforeStarts, BeforeGraph, BeforeEncoded, BeforeCodes,
       BeforePivots, BeforeLabels
  <2>4. StepInv'
    BY <1>4, <2>1 DEF StepInv, BeforeEncoded, BeforeCodes, BeforePivots, BeforeLabels
  <2>5. MadeInv'
    <3>1. r.metric = "mips" => Own("max_base_norm")'
      BY <1>2, <1>3, <1>5, <2>1 DEF Become, Own, Has
    <3>2. PreparedMade'
      BY <2>1, <3>1 DEF PreparedMade
    <3>3. /\ job'.pc \in BeforePivots /\ (job'.pc \in BeforeLabels \/ ~r'.labels)
          /\ job'.pc \in BeforeGraph /\ job'.pc \in BeforeHeader /\ job'.pc # "clean_up"
          /\ job'.pc \in BeforeCodes /\ job'.pc \in BeforeEncoded /\ job'.pc \in BeforeStarts
      BY <2>1 DEF BeforeHeader, BeforeLayout, BeforeStarts, BeforeGraph, BeforeEncoded, BeforeCodes,
         BeforePivots, BeforeLabels
    <3> QED
      BY <3>2, <3>3 DEF MadeInv, LabelsMade, DiskCodesMade, CodesMade, GraphMade, LayoutMade, LabelsCopied
  <2> QED
    BY <1>7, <2>2, <2>3, <2>4, <2>5 DEF FilesInv
<1> QED
  BY <1>1, <1>8, <1>9

LEMMA LabelsKeeps == ASSUME FilesInv, Labels PROVE FilesInv'
<1> DEFINE rows == r.rows + (IF r.dummies >= 0 THEN r.dummies ELSE 0)
           first == {"label_formatted", "labels_map"}
           b == Content(r.rows, job.width)
           second == IF r.dummies < 0 THEN {} ELSE {"augmented_data", "augmented_labels", "dummy_map"}
           c == Content(rows, job.width)
<1>1. /\ job.pc = "labels" /\ job # Idle /\ UNCHANGED <<asked, ended>> /\ fs' = With(Write(first, b), second, c)
      /\ job' = [job EXCEPT !.pc = "disk_quantize", !.rows = rows]
  BY DEF Labels, Idle
<1>2. b.by = n /\ c.by = n /\ b.rows = r.rows /\ c.rows = rows
  BY ContentAt
<1>3. /\ r.form = "standard" /\ r.labels /\ rows \in Nat \ {0} /\ n \in 1 .. n
      /\ r.dummies \in Nat \cup {-1} /\ r.rows \in Nat
      /\ job \in [pc : Steps, req : Requested, rows : Nat \ {0}, width : Nat]
  BY <1>1, RequestedType, AtWork DEF FilesInv, StepInv, BeforeEncoded, BeforeCodes, BeforePivots, BeforeLabels
<1>4. Untouched(first \cup second) /\ Become(first \ second, b) /\ Become(second, c)
  <2> HIDE DEF first, second, b, c
  <2> QED
    BY <1>1, WroteTwice
<1>5. /\ Untouched({"label_formatted", "labels_map", "augmented_data", "augmented_labels", "dummy_map"})
      /\ r.dummies < 0 => Untouched({"label_formatted", "labels_map"})
      /\ Become({"label_formatted", "labels_map"}, b)
      /\ r.dummies >= 0 => Become({"augmented_data", "augmented_labels", "dummy_map"}, c)
  <2> HIDE DEF b, c
  <2> QED
    BY <1>3, <1>4 DEF Untouched, Become
<1>6. rows = IF r.dummies >= 0 THEN c.rows ELSE b.rows
  BY <1>2, <1>3
<1> HIDE DEF rows, first, second, b, c
<1>7. /\ \A f \in DOMAIN fs' : fs'[f].by \in 1 .. n
      /\ \A f \in Sized : (f \in DOMAIN fs' <=> f \in DOMAIN fs) /\ (f \in DOMAIN fs => fs'[f] = fs[f])
  <2>1. \A f \in DOMAIN fs : fs[f].by \in 1 .. n
    BY DEF FilesInv, JobInv
  <2>2. CASE r.dummies < 0
    BY <1>2, <1>3, <1>5, <2>1, <2>2 DEF Untouched, Become, Sized
  <2>3. CASE r.dummies >= 0
    BY <1>2, <1>3, <1>5, <2>1, <2>3 DEF Untouched, Become, Sized
  <2> QED
    BY <1>3, <2>2, <2>3
<1>8. OptionsInv'
  BY <1>1, <1>3, <1>5, OptionsKept DEF Untouched, Optional, AskedFor
<1>9. /\ job' \in [pc : Steps, req : Requested, rows : Nat \ {0}, width : Nat]
      /\ job'.pc = "disk_quantize" /\ r' = r /\ n' = n /\ job' # Idle' /\ job'.rows = rows
  <2>1. "disk_quantize" \in Steps
    BY DEF Steps, BeforeCopied, BeforeHeader, BeforeLayout, BeforeStarts, BeforeGraph, BeforeEncoded,
       BeforeCodes, BeforePivots
  <2> QED
    BY <1>1, <1>3, <2>1 DEF r, n, Idle
<1>10. JobInv' /\ RecentInv' /\ CompletedInv' /\ CompletedIsAsked'
  BY <1>1, <1>7, <1>9, NextStepKeeps
<1>11. SizedInv' /\ SameRows' /\ OrderInv'
  BY <1>1, <1>7, <1>9, SizedKept DEF BeforeLayout, BeforeStarts, BeforeGraph, BeforeEncoded, BeforeCodes,
     BeforePivots, BeforeLabels
<1>12. StepInv'
  BY <1>3, <1>9 DEF StepInv, BeforeEncoded, BeforeCodes, BeforePivots, BeforeLabels
<1>13. MadeInv'
  <2>1. PreparedMade'
    BY <1>1, <1>3, <1>5, <1>9 DEF FilesInv, MadeInv, PreparedMade, Own, Has, Untouched
  <2>2. LabelsMade'
    <3>1. UsedLabels' = UsedLabels
      BY <1>9 DEF UsedLabels
    <3>2. Own("labels_map")' /\ (r.dummies >= 0 => Own("dummy_map")')
      BY <1>2, <1>3, <1>5, <1>9 DEF Own, Has, Become
    <3>3. UsedLabels \in DOMAIN fs' /\ fs'[UsedLabels].by = n /\ fs'[UsedLabels].rows = rows
      BY <1>2, <1>3, <1>5, <1>6 DEF UsedLabels, Become
    <3> QED
      BY <1>9, <3>1, <3>2, <3>3 DEF LabelsMade, Own, Has
  <2>3. /\ job'.pc \in BeforePivots /\ job'.pc \in BeforeGraph /\ job'.pc \in BeforeHeader
        /\ job'.pc # "clean_up" /\ job'.pc \in BeforeCodes /\ job'.pc \in BeforeEncoded /\ job'.pc \in BeforeStarts
    BY <1>9 DEF BeforeHeader, BeforeLayout, BeforeStarts, BeforeGraph, BeforeEncoded, BeforeCodes, BeforePivots
  <2> QED
    BY <2>1, <2>2, <2>3 DEF MadeInv, DiskCodesMade, CodesMade, GraphMade, LayoutMade, LabelsCopied
<1> QED
  BY <1>8, <1>10, <1>11, <1>12, <1>13 DEF FilesInv

LEMMA DiskQuantizeKeeps == ASSUME FilesInv, DiskQuantize PROVE FilesInv'
<1>1. /\ job.pc = "disk_quantize" /\ job # Idle /\ job' = [job EXCEPT !.pc = "quantize"]
      /\ UNCHANGED <<asked, ended>> /\ "quantize" \in Steps
  BY DEF DiskQuantize, Goto, Idle, Steps, BeforeCopied, BeforeHeader, BeforeLayout, BeforeStarts, BeforeGraph, BeforeEncoded,
     BeforeCodes
<1>2. /\ job' \in [pc : Steps, req : Requested, rows : Nat \ {0}, width : Nat]
      /\ job'.pc = "quantize" /\ job' # Idle' /\ r' = r /\ n' = n
      /\ job'.rows = job.rows /\ job'.width = job.width
      /\ Chunks' = Chunks /\ DiskChunks' = DiskChunks /\ UsedLabels' = UsedLabels
  BY <1>1, NextStep
<1>3. /\ r.form = "standard" /\ r.disk_PQ \in Nat /\ n \in 1 .. n
  BY <1>1, RequestedType, AtWork DEF FilesInv, StepInv, BeforeEncoded, BeforeCodes, BeforePivots
<1>4. /\ Untouched({"disk_pq_pivots", "disk_pq_compressed"})
      /\ r.disk_PQ = 0 => fs' = fs
      /\ r.disk_PQ > 0 =>
            /\ "disk_pq_pivots" \in DOMAIN fs' /\ fs'["disk_pq_pivots"].rows = DiskChunks
            /\ fs'["disk_pq_pivots"].by \in 1 .. n
            /\ "disk_pq_compressed" \in DOMAIN fs' /\ fs'["disk_pq_compressed"].rows = job.rows
            /\ fs'["disk_pq_compressed"].width = DiskChunks /\ fs'["disk_pq_compressed"].by = n
  <2>1. CASE r.disk_PQ = 0
    BY <1>3, <2>1 DEF DiskQuantize, Untouched
  <2>2. CASE r.disk_PQ # 0
    <3> DEFINE b == Content(job.rows, DiskChunks)
               c == Pivots("disk_pq_pivots", DiskChunks)
    <3>1. fs' = With(Write({"disk_pq_compressed"}, b), {"disk_pq_pivots"}, c) /\ c.rows = DiskChunks
      BY <2>2 DEF DiskQuantize, CanEncode
    <3>2. b.by = n /\ b.rows = job.rows /\ b.width = DiskChunks
      BY ContentAt
    <3>3. c.by \in 1 .. n
      BY <1>3, ContentAt DEF Pivots, Has, FilesInv, JobInv
    <3> HIDE DEF b, c
    <3>4. /\ Untouched({"disk_pq_compressed"} \cup {"disk_pq_pivots"})
          /\ Become({"disk_pq_compressed"} \ {"disk_pq_pivots"}, b) /\ Become({"disk_pq_pivots"}, c)
      BY <3>1, WroteTwice
    <3>5. Untouched({"disk_pq_pivots", "disk_pq_compressed"})
      BY <3>4 DEF Untouched
    <3> QED
      BY <2>2, <3>1, <3>2, <3>3, <3>4, <3>5 DEF Become
  <2> QED
    BY <2>1, <2>2
<1>5. /\ \A f \in DOMAIN fs' : fs'[f].by \in 1 .. n
      /\ \A f \in Sized : (f \in DOMAIN fs' <=> f \in DOMAIN fs) /\ (f \in DOMAIN fs => fs'[f] = fs[f])
  <2>1. CASE r.disk_PQ = 0
    BY <1>4, <2>1 DEF FilesInv, JobInv
  <2>2. CASE r.disk_PQ > 0
    BY <1>3, <1>4, <2>2 DEF Untouched, Sized, FilesInv, JobInv
  <2> QED
    BY <1>3, <2>1, <2>2
<1>6. OptionsInv'
  <2>1. \A f \in Optional : f \in DOMAIN fs' => f \in DOMAIN fs \/ AskedFor(r, f)
    BY <1>3, <1>4 DEF Untouched, Optional, AskedFor
  <2> QED
    BY <1>1, <2>1, OptionsKept
<1>7. JobInv' /\ RecentInv' /\ CompletedInv' /\ CompletedIsAsked'
  BY <1>1, <1>2, <1>5, NextStepKeeps
<1>8. SizedInv' /\ SameRows' /\ OrderInv'
  BY <1>1, <1>2, <1>5, SizedKept DEF BeforeLayout, BeforeStarts, BeforeGraph, BeforeEncoded, BeforeCodes,
     BeforePivots, BeforeLabels
<1>9. StepInv'
  BY <1>2, <1>3 DEF StepInv
<1>10. MadeInv'
  BY <1>1, <1>2, <1>3, <1>4 DEF FilesInv, MadeInv, PreparedMade, LabelsMade, DiskCodesMade, CodesMade,
     GraphMade, LayoutMade, LabelsCopied, Own, Has, UsedLabels, Untouched, Become, Gone, BeforeHeader, BeforeLayout,
     BeforeStarts, BeforeGraph, BeforeEncoded, BeforeCodes, BeforePivots, BeforeLabels
<1> QED
  BY <1>6, <1>7, <1>8, <1>9, <1>10 DEF FilesInv

LEMMA QuantizeKeeps == ASSUME FilesInv, Quantize PROVE FilesInv'
<1> DEFINE first == IF r.opq THEN {"pq_pivots", "rotation"} ELSE {"pq_pivots"}
           b == IF r.opq THEN Content(Chunks, job.width) ELSE Pivots("pq_pivots", Chunks)
           c == Content(0, Chunks)
<1>1. /\ job.pc = "quantize" /\ job # Idle /\ job' = [job EXCEPT !.pc = "encode"]
      /\ UNCHANGED <<asked, ended>> /\ "encode" \in Steps
  BY DEF Quantize, Goto, Idle, Steps, BeforeCopied, BeforeHeader, BeforeLayout, BeforeStarts, BeforeGraph, BeforeEncoded,
     BeforeCodes
<1>2. /\ job' \in [pc : Steps, req : Requested, rows : Nat \ {0}, width : Nat]
      /\ job'.pc = "encode" /\ job' # Idle' /\ r' = r /\ n' = n
      /\ job'.rows = job.rows /\ job'.width = job.width
      /\ Chunks' = Chunks /\ DiskChunks' = DiskChunks /\ UsedLabels' = UsedLabels
  BY <1>1, NextStep
<1>3. r.form = "standard" /\ n \in 1 .. n /\ n \in Nat
  BY <1>1, AtWork DEF FilesInv, StepInv, BeforeEncoded, BeforeCodes
<1>4. fs' = With(Write(first, b), {"pq_compressed"}, c)
  BY DEF Quantize
<1>5. b.by \in 1 .. n /\ b.rows = Chunks
  <2>1. CASE r.opq
    BY <1>3, <2>1, ContentAt
  <2>2. CASE ~r.opq
    <3>1. Pivots("pq_pivots", Chunks).rows = Chunks
      BY <2>2 DEF Quantize, CanEncode
    <3>2. Pivots("pq_pivots", Chunks).by \in 1 .. n
      BY <1>3, ContentAt DEF Pivots, Has, FilesInv, JobInv
    <3> QED
      BY <2>2, <3>1, <3>2
  <2> QED
    BY <2>1, <2>2
<1>6. c.by = n /\ c.rows = 0 /\ c.width = Chunks
  BY ContentAt
<1>7. /\ first \subseteq {"pq_pivots", "rotation"} /\ "pq_pivots" \in first
      /\ "rotation" \in first => r.opq
      /\ "pq_compressed" \notin first
  OBVIOUS
<1> HIDE DEF first, b, c
<1>8. /\ Untouched(first \cup {"pq_compressed"}) /\ Become(first \ {"pq_compressed"}, b)
      /\ Become({"pq_compressed"}, c)
  BY <1>4, WroteTwice
<1>9. /\ Untouched({"pq_pivots", "rotation", "pq_compressed"})
      /\ "pq_pivots" \in DOMAIN fs' /\ fs'["pq_pivots"] = b
      /\ "pq_compressed" \in DOMAIN fs' /\ fs'["pq_compressed"] = c
      /\ "rotation" \in DOMAIN fs' => "rotation" \in DOMAIN fs \/ r.opq
      /\ \A f \in DOMAIN fs' : fs'[f] = b \/ fs'[f] = c \/ (f \in DOMAIN fs /\ fs'[f] = fs[f])
  BY <1>7, <1>8 DEF Untouched, Become
<1>10. JobInv' /\ RecentInv' /\ CompletedInv' /\ CompletedIsAsked'
  <2>1. \A f \in DOMAIN fs' : fs'[f].by \in 1 .. n
    BY <1>3, <1>5, <1>6, <1>9 DEF FilesInv, JobInv
  <2>2. \A f \in Sized : f \in DOMAIN fs' => (f \in DOMAIN fs /\ fs'[f] = fs[f]) \/ fs'[f].by = n
    BY <1>6, <1>9 DEF Untouched, Sized
  <2> QED
    BY <1>1, <1>2, <2>1, <2>2, NextStepKeeps
<1>11. StepInv'
  BY <1>2, <1>3 DEF StepInv
<1>12. OptionsInv'
  <2>1. \A f \in Optional : f \in DOMAIN fs' => f \in DOMAIN fs \/ AskedFor(r, f)
    BY <1>9 DEF Untouched, Optional, AskedFor
  <2> QED
    BY <1>1, <2>1, OptionsKept
<1>13. MadeInv'
  BY <1>1, <1>2, <1>3, <1>5, <1>9 DEF FilesInv, MadeInv, PreparedMade, LabelsMade, DiskCodesMade, CodesMade,
     GraphMade, LayoutMade, LabelsCopied, Own, Has, UsedLabels, Untouched, Become, Gone, BeforeHeader, BeforeLayout,
     BeforeStarts, BeforeGraph, BeforeEncoded, BeforeCodes, BeforePivots, BeforeLabels
<1>14. SizedInv'
  BY <1>1, <1>2, <1>3, <1>6, <1>9 DEF FilesInv, SizedInv, Own, Has, Untouched, Sized, BeforeLayout, BeforeStarts, BeforeGraph, BeforeEncoded,
       BeforeCodes, BeforePivots, BeforeLabels
<1>15. SameRows'
  BY <1>1, <1>2, <1>3, <1>6, <1>9 DEF FilesInv, SameRows, Has, Untouched, Sized, Starts
<1>16. OrderInv'
  BY <1>1, <1>2, <1>3, <1>6, <1>9 DEF FilesInv, SizedInv, OrderInv, Own, Has, Untouched, Sized, BeforeLayout, BeforeStarts, BeforeGraph, BeforeEncoded,
       BeforeCodes, BeforePivots, BeforeLabels
<1> QED
  BY <1>10, <1>11, <1>12, <1>13, <1>14, <1>15, <1>16 DEF FilesInv

LEMMA DeleteTempFilesKeeps == ASSUME FilesInv, DeleteTempFiles PROVE FilesInv'
<1>1. /\ job.pc = "delete_temp" /\ job # Idle /\ job' = [job EXCEPT !.pc = "layout"]
      /\ UNCHANGED <<asked, ended>> /\ "layout" \in Steps
  BY DEF DeleteTempFiles, Goto, Idle, Steps, BeforeCopied, BeforeHeader, BeforeLayout, BeforeStarts, BeforeGraph, BeforeEncoded,
     BeforeCodes
<1>2. /\ job' \in [pc : Steps, req : Requested, rows : Nat \ {0}, width : Nat]
      /\ job'.pc = "layout" /\ job' # Idle' /\ r' = r /\ n' = n
      /\ job'.rows = job.rows /\ job'.width = job.width
      /\ Chunks' = Chunks /\ DiskChunks' = DiskChunks /\ UsedLabels' = UsedLabels
  BY <1>1, NextStep
<1>3. Untouched({"tempFiles"}) /\ Gone({"tempFiles"})
  BY Removed DEF DeleteTempFiles
<1>4. /\ \A f \in DOMAIN fs' : fs'[f].by \in 1 .. n
      /\ \A f \in Sized : (f \in DOMAIN fs' <=> f \in DOMAIN fs) /\ (f \in DOMAIN fs => fs'[f] = fs[f])
  BY <1>3 DEF Untouched, Gone, Sized, FilesInv, JobInv
<1>5. JobInv' /\ RecentInv' /\ CompletedInv' /\ CompletedIsAsked'
  BY <1>1, <1>2, <1>4, NextStepKeeps
<1>6. SizedInv' /\ SameRows' /\ OrderInv'
  BY <1>1, <1>2, <1>4, SizedKept DEF BeforeLayout, BeforeStarts, BeforeGraph, BeforeEncoded, BeforeCodes,
     BeforePivots, BeforeLabels
<1>7. StepInv'
  BY <1>2 DEF StepInv, BeforeEncoded, BeforeCodes, BeforePivots, BeforeLabels
<1>8. OptionsInv'
  BY <1>1, <1>3, OptionsKept DEF Untouched, Optional
<1>9. MadeInv'
  BY <1>1, <1>2, <1>3 DEF StepInv, FilesInv, MadeInv, PreparedMade, LabelsMade, DiskCodesMade, CodesMade,
     GraphMade, LayoutMade, LabelsCopied, Own, Has, UsedLabels, Untouched, Become, Gone, BeforeHeader, BeforeLayout,
     BeforeStarts, BeforeGraph, BeforeEncoded, BeforeCodes, BeforePivots, BeforeLabels
<1> QED
  BY <1>5, <1>6, <1>7, <1>8, <1>9 DEF FilesInv

LEMMA McgiGraphKeeps == ASSUME FilesInv, McgiGraph PROVE FilesInv'
<1> DEFINE c == Content(job.rows, job.width)
<1>1. /\ job.pc = "graph" /\ job # Idle /\ job' = [job EXCEPT !.pc = "layout"]
      /\ UNCHANGED <<asked, ended>> /\ "layout" \in Steps /\ r.form = "mcgi"
  BY DEF McgiGraph, Goto, Idle, Steps, BeforeCopied, BeforeHeader, BeforeLayout, BeforeStarts, BeforeGraph, BeforeEncoded,
     BeforeCodes
<1>2. /\ job' \in [pc : Steps, req : Requested, rows : Nat \ {0}, width : Nat]
      /\ job'.pc = "layout" /\ job' # Idle' /\ r' = r /\ n' = n
      /\ job'.rows = job.rows /\ job'.width = job.width
      /\ Chunks' = Chunks /\ DiskChunks' = DiskChunks /\ UsedLabels' = UsedLabels
  BY <1>1, NextStep
<1>3. Untouched({"prefix", "prefix_data"}) /\ Become({"prefix", "prefix_data"}, c)
  <2>1. fs' = Write({"prefix", "prefix_data"}, c)
    BY DEF McgiGraph
  <2> HIDE DEF c
  <2> QED
    BY <2>1, Wrote
<1>4. c.by = n /\ n \in 1 .. n
  BY <1>1, ContentAt, AtWork
<1> HIDE DEF c
<1>5. /\ \A f \in DOMAIN fs' : fs'[f].by \in 1 .. n
      /\ \A f \in Sized : (f \in DOMAIN fs' <=> f \in DOMAIN fs) /\ (f \in DOMAIN fs => fs'[f] = fs[f])
  BY <1>3, <1>4 DEF Untouched, Become, Sized, FilesInv, JobInv
<1>6. JobInv' /\ RecentInv' /\ CompletedInv' /\ CompletedIsAsked'
  BY <1>1, <1>2, <1>5, NextStepKeeps
<1>7. SizedInv' /\ SameRows' /\ OrderInv'
  BY <1>1, <1>2, <1>5, SizedKept DEF BeforeLayout, BeforeStarts, BeforeGraph, BeforeEncoded, BeforeCodes,
     BeforePivots, BeforeLabels
<1>8. StepInv'
  BY <1>2 DEF StepInv, BeforeEncoded, BeforeCodes, BeforePivots, BeforeLabels
<1>9. OptionsInv'
  BY <1>1, <1>3, OptionsKept DEF Untouched, Optional
<1>10. MadeInv'
  BY <1>1, <1>2 DEF MadeInv
<1> QED
  BY <1>6, <1>7, <1>8, <1>9, <1>10 DEF FilesInv

LEMMA OneShotKeeps == ASSUME FilesInv, OneShot PROVE FilesInv'
<1> DEFINE names == {"mem_index", "mem_index_data"} \cup SavedLabels \cup LabelsToMedoids
           c == Content(job.rows, job.width)
<1>1. /\ job.pc = "graph" /\ job # Idle /\ job' = [job EXCEPT !.pc = "layout"]
      /\ UNCHANGED <<asked, ended>> /\ "layout" \in Steps /\ r.form # "mcgi" /\ r.shards = 0
  BY DEF OneShot, Goto, Idle, Steps, BeforeCopied, BeforeHeader, BeforeLayout, BeforeStarts, BeforeGraph, BeforeEncoded,
     BeforeCodes
<1>2. /\ job' \in [pc : Steps, req : Requested, rows : Nat \ {0}, width : Nat]
      /\ job'.pc = "layout" /\ job' # Idle' /\ r' = r /\ n' = n
      /\ job'.rows = job.rows /\ job'.width = job.width
      /\ Chunks' = Chunks /\ DiskChunks' = DiskChunks /\ UsedLabels' = UsedLabels
  BY <1>1, NextStep
<1>3. /\ n \in 1 .. n /\ r.form \in {"standard", "amcgi"} /\ r.labels \in BOOLEAN
  BY <1>1, RequestedType, AtWork
<1>4. /\ names \subseteq {"mem_index", "mem_index_data", "mem_labels", "mem_universal_label", "labels_to_medoids"}
      /\ "mem_universal_label" \in names <=> r.labels /\ r.universal
      /\ "labels_to_medoids" \in names <=> r.labels /\ r.form = "standard"
  BY DEF SavedLabels, LabelsToMedoids
<1>5. /\ r.form = "standard" => Medoids = "medoids" /\ Centroids = "centroids"
      /\ r.form # "standard" => Medoids = "prefix_medoids" /\ Centroids = "prefix_centroids"
  BY <1>3 DEF Medoids, Centroids
<1>6. c.by = n /\ c.rows = job.rows
  BY ContentAt
<1>7. fs' = Without(Write(names, c), {Medoids, Centroids})
  BY DEF OneShot
<1> HIDE DEF names, c
<1>8. /\ Untouched(names \cup {Medoids, Centroids}) /\ Become(names \ {Medoids, Centroids}, c)
      /\ Gone({Medoids, Centroids})
  BY <1>7, WroteAndRemoved
<1>9. /\ \A f \in names : f \in DOMAIN fs' /\ fs'[f] = c
      /\ \A f : f \notin names \cup {Medoids, Centroids} =>
            (f \in DOMAIN fs' <=> f \in DOMAIN fs) /\ (f \in DOMAIN fs => fs'[f] = fs[f])
      /\ \A f \in DOMAIN fs' : fs'[f] = c \/ (f \in DOMAIN fs /\ fs'[f] = fs[f])
      /\ Medoids \notin DOMAIN fs' /\ Centroids \notin DOMAIN fs'
  BY <1>3, <1>4, <1>5, <1>8 DEF Untouched, Become, Gone
<1>10. JobInv' /\ RecentInv' /\ CompletedInv' /\ CompletedIsAsked'
  <2>1. \A f \in DOMAIN fs' : fs'[f].by \in 1 .. n
    BY <1>3, <1>6, <1>9 DEF FilesInv, JobInv
  <2>2. \A f \in Sized : f \in DOMAIN fs' => (f \in DOMAIN fs /\ fs'[f] = fs[f]) \/ fs'[f].by = n
    BY <1>6, <1>9
  <2> QED
    BY <1>1, <1>2, <2>1, <2>2, NextStepKeeps
<1>11. StepInv'
  BY <1>2 DEF StepInv, BeforeEncoded, BeforeCodes, BeforePivots, BeforeLabels
<1>12. OptionsInv'
  <2>1. \A f \in Optional : f \in DOMAIN fs' => f \in DOMAIN fs
    BY <1>3, <1>4, <1>5, <1>9 DEF Optional
  <2> QED
    BY <1>1, <2>1, OptionsKept
<1>13. CASE r.form = "standard"
  <2>1. /\ Untouched({"mem_index", "mem_index_data", "mem_labels", "mem_universal_label", "labels_to_medoids",
                      "medoids", "centroids"})
        /\ "medoids" \notin DOMAIN fs' /\ "centroids" \notin DOMAIN fs'
        /\ r.labels => "labels_to_medoids" \in DOMAIN fs' /\ fs'["labels_to_medoids"] = c
        /\ ~r.labels => ("labels_to_medoids" \in DOMAIN fs' <=> "labels_to_medoids" \in DOMAIN fs)
        /\ "labels_to_medoids" \in DOMAIN fs /\ ~r.labels => fs'["labels_to_medoids"] = fs["labels_to_medoids"]
        /\ r.labels /\ r.universal => "mem_universal_label" \in DOMAIN fs' /\ fs'["mem_universal_label"] = c
    BY <1>4, <1>5, <1>9, <1>13 DEF Untouched
  <2>2. MadeInv'
    BY <1>1, <1>2, <1>6, <1>13, <2>1 DEF FilesInv, MadeInv, PreparedMade, LabelsMade, DiskCodesMade, CodesMade,
     GraphMade, LayoutMade, LabelsCopied, Own, Has, UsedLabels, Untouched, Become, Gone, BeforeHeader, BeforeLayout,
     BeforeStarts, BeforeGraph, BeforeEncoded, BeforeCodes, BeforePivots, BeforeLabels
  <2>3. SizedInv'
    BY <1>1, <1>2, <1>6, <1>13, <2>1 DEF FilesInv, SizedInv, Own, Has, Untouched, Sized, BeforeLayout, BeforeStarts, BeforeGraph, BeforeEncoded,
     BeforeCodes, BeforePivots, BeforeLabels
  <2>4. SameRows'
    <3>1. /\ \A f \in Sized : f \in DOMAIN fs' => (f \in DOMAIN fs /\ fs'[f] = fs[f]) \/ fs'[f] = c
          /\ \A f \in Sized : f \in DOMAIN fs /\ fs[f].by = n => fs[f].rows \in {0, job.rows}
      BY <1>1, <1>9, <1>13 DEF FilesInv, SizedInv, Own, Has
    <3> QED
      BY <1>2, <1>6, <1>13, <3>1 DEF FilesInv, SameRows, Has, Starts, Sized
  <2>5. OrderInv'
    <3>1. Own("pq_compressed") /\ ~Own("disk_index")
      BY <1>1, <1>13 DEF FilesInv, SizedInv, MadeInv, CodesMade, Sized, BeforeLayout, BeforeStarts, BeforeGraph, BeforeEncoded,
     BeforeCodes, BeforePivots, BeforeLabels
    <3>2. Own("pq_compressed")' /\ ~Own("disk_index")'
      BY <1>2, <2>1, <3>1 DEF Own, Has, Untouched
    <3> QED
      BY <3>2 DEF OrderInv
  <2> QED
    BY <1>10, <1>11, <1>12, <2>2, <2>3, <2>4, <2>5 DEF FilesInv
<1>14. CASE r.form # "standard"
  <2>1. \A f \in Sized : (f \in DOMAIN fs' <=> f \in DOMAIN fs) /\ (f \in DOMAIN fs => fs'[f] = fs[f])
    BY <1>4, <1>5, <1>9, <1>14 DEF Sized
  <2>2. SizedInv' /\ SameRows' /\ OrderInv'
    BY <1>1, <1>2, <2>1, SizedKept DEF BeforeLayout, BeforeStarts, BeforeGraph, BeforeEncoded, BeforeCodes,
       BeforePivots, BeforeLabels
  <2>3. MadeInv'
    BY <1>2, <1>14 DEF MadeInv
  <2> QED
    BY <1>10, <1>11, <1>12, <2>2, <2>3 DEF FilesInv
<1> QED
  BY <1>13, <1>14

LEMMA PartitionKeeps == ASSUME FilesInv, Partition PROVE FilesInv'
<1> DEFINE names == {"tempFiles"} \cup (SavedLabels \ {"mem_labels"})
           b == Content(job.rows, job.width)
           c == Content(job.rows, r.shards)
<1>1. /\ job.pc = "graph" /\ job # Idle /\ job' = [job EXCEPT !.pc = "merge"]
      /\ UNCHANGED <<asked, ended>> /\ "merge" \in Steps /\ r.form # "mcgi" /\ r.shards > 0
  BY DEF Partition, Goto, Idle, Steps, BeforeCopied, BeforeHeader, BeforeLayout, BeforeStarts, BeforeGraph, BeforeEncoded,
     BeforeCodes
<1>2. /\ job' \in [pc : Steps, req : Requested, rows : Nat \ {0}, width : Nat]
      /\ job'.pc = "merge" /\ job' # Idle' /\ r' = r /\ n' = n
      /\ job'.rows = job.rows /\ job'.width = job.width
      /\ Chunks' = Chunks /\ DiskChunks' = DiskChunks /\ UsedLabels' = UsedLabels
  BY <1>1, NextStep
<1>3. /\ n \in 1 .. n /\ r.form \in {"standard", "amcgi"} /\ r.labels \in BOOLEAN /\ r.shards \in Nat
  BY <1>1, RequestedType, AtWork
<1>4. /\ names \subseteq {"tempFiles", "mem_universal_label"}
      /\ "mem_universal_label" \in names <=> r.labels /\ r.universal
  BY DEF SavedLabels
<1>5. /\ Centroids \in {"centroids", "prefix_centroids"}
      /\ r.form = "standard" => Centroids = "centroids"
  BY <1>3 DEF Centroids
<1>6. b.by = n /\ c.by = n /\ c.width = r.shards
  BY ContentAt
<1>7. fs' = With(Write(names, b), {Centroids}, c)
  BY DEF Partition
<1> HIDE DEF names, b, c
<1>8. Untouched(names \cup {Centroids}) /\ Become(names \ {Centroids}, b) /\ Become({Centroids}, c)
  BY <1>7, WroteTwice
<1>9. /\ \A f \in names : f \in DOMAIN fs' /\ fs'[f] = b
      /\ Untouched({"tempFiles", "mem_universal_label", "centroids", "prefix_centroids"})
      /\ Centroids \in DOMAIN fs' /\ fs'[Centroids] = c
      /\ \A f \in DOMAIN fs' : fs'[f] = b \/ fs'[f] = c \/ (f \in DOMAIN fs /\ fs'[f] = fs[f])
  BY <1>4, <1>5, <1>8 DEF Untouched, Become
<1>10. /\ \A f \in DOMAIN fs' : fs'[f].by \in 1 .. n
       /\ \A f \in Sized : (f \in DOMAIN fs' <=> f \in DOMAIN fs) /\ (f \in DOMAIN fs => fs'[f] = fs[f])
  BY <1>3, <1>6, <1>9 DEF Untouched, Sized, FilesInv, JobInv
<1>11. JobInv' /\ RecentInv' /\ CompletedInv' /\ CompletedIsAsked'
  BY <1>1, <1>2, <1>10, NextStepKeeps
<1>12. SizedInv' /\ SameRows' /\ OrderInv'
  BY <1>1, <1>2, <1>10, SizedKept DEF BeforeLayout, BeforeStarts, BeforeGraph, BeforeEncoded, BeforeCodes,
     BeforePivots, BeforeLabels
<1>13. StepInv'
  BY <1>1, <1>2 DEF StepInv, BeforeEncoded, BeforeCodes, BeforePivots, BeforeLabels
<1>14. OptionsInv'
  BY <1>1, <1>9, OptionsKept DEF Untouched, Optional
<1>15. MadeInv'
  <2>1. r.form = "standard" => /\ "centroids" \in DOMAIN fs' /\ fs'["centroids"] = c
                               /\ r.labels /\ r.universal =>
                                     "mem_universal_label" \in DOMAIN fs' /\ fs'["mem_universal_label"] = b
    BY <1>4, <1>5, <1>9
  <2> QED
    BY <1>1, <1>2, <1>3, <1>6, <1>9, <2>1 DEF FilesInv, MadeInv, PreparedMade, LabelsMade, DiskCodesMade, CodesMade,
     GraphMade, LayoutMade, LabelsCopied, Own, Has, UsedLabels, Untouched, Become, Gone, BeforeHeader, BeforeLayout,
     BeforeStarts, BeforeGraph, BeforeEncoded, BeforeCodes, BeforePivots, BeforeLabels
<1> QED
  BY <1>11, <1>12, <1>13, <1>14, <1>15 DEF FilesInv

LEMMA MergeKeeps == ASSUME FilesInv, Merge PROVE FilesInv'
<1> DEFINE names == {"mem_index"} \cup LabelsToMedoids
           b == Content(job.rows, job.width)
           c == Content(job.rows, r.shards)
<1>1. /\ job.pc = "merge" /\ job # Idle /\ job' = [job EXCEPT !.pc = "delete_temp"]
      /\ UNCHANGED <<asked, ended>> /\ "delete_temp" \in Steps
  BY DEF Merge, Goto, Idle, Steps, BeforeCopied, BeforeHeader, BeforeLayout, BeforeStarts, BeforeGraph, BeforeEncoded,
     BeforeCodes
<1>2. /\ job' \in [pc : Steps, req : Requested, rows : Nat \ {0}, width : Nat]
      /\ job'.pc = "delete_temp" /\ job' # Idle' /\ r' = r /\ n' = n
      /\ job'.rows = job.rows /\ job'.width = job.width
      /\ Chunks' = Chunks /\ DiskChunks' = DiskChunks /\ UsedLabels' = UsedLabels
  BY <1>1, NextStep
<1>3. /\ n \in 1 .. n /\ r.form \in {"standard", "amcgi"} /\ r.labels \in BOOLEAN
      /\ r.shards \in Nat /\ r.shards > 0
  BY <1>1, RequestedType, AtWork DEF FilesInv, StepInv
<1>4. /\ names \subseteq {"mem_index", "labels_to_medoids"}
      /\ "labels_to_medoids" \in names <=> r.labels /\ r.form = "standard"
  BY DEF LabelsToMedoids
<1>5. /\ r.form = "standard" => Medoids = "medoids"
      /\ r.form # "standard" => Medoids = "prefix_medoids"
  BY <1>3 DEF Medoids
<1>6. b.by = n /\ b.rows = job.rows /\ c.by = n /\ c.rows = job.rows /\ c.width = r.shards
  BY ContentAt
<1>7. fs' = With(Write(names, b), {Medoids}, c)
  BY DEF Merge
<1> HIDE DEF names, b, c
<1>8. Untouched(names \cup {Medoids}) /\ Become(names \ {Medoids}, b) /\ Become({Medoids}, c)
  BY <1>7, WroteTwice
<1>9. /\ \A f \in names : f \in DOMAIN fs' /\ fs'[f] = b
      /\ \A f : f \notin names \cup {Medoids} =>
            (f \in DOMAIN fs' <=> f \in DOMAIN fs) /\ (f \in DOMAIN fs => fs'[f] = fs[f])
      /\ Medoids \in DOMAIN fs' /\ fs'[Medoids] = c
      /\ \A f \in DOMAIN fs' : fs'[f] = b \/ fs'[f] = c \/ (f \in DOMAIN fs /\ fs'[f] = fs[f])
  BY <1>3, <1>4, <1>5, <1>8 DEF Untouched, Become
<1>10. JobInv' /\ RecentInv' /\ CompletedInv' /\ CompletedIsAsked'
  <2>1. \A f \in DOMAIN fs' : fs'[f].by \in 1 .. n
    BY <1>3, <1>6, <1>9 DEF FilesInv, JobInv
  <2>2. \A f \in Sized : f \in DOMAIN fs' => (f \in DOMAIN fs /\ fs'[f] = fs[f]) \/ fs'[f].by = n
    BY <1>6, <1>9
  <2> QED
    BY <1>1, <1>2, <2>1, <2>2, NextStepKeeps
<1>11. StepInv'
  BY <1>1, <1>2 DEF FilesInv, StepInv, BeforeEncoded, BeforeCodes, BeforePivots, BeforeLabels
<1>12. OptionsInv'
  <2>1. \A f \in Optional : f \in DOMAIN fs' => f \in DOMAIN fs
    BY <1>3, <1>4, <1>5, <1>9 DEF Optional
  <2> QED
    BY <1>1, <2>1, OptionsKept
<1>13. CASE r.form = "standard"
  <2>1. /\ Untouched({"mem_index", "labels_to_medoids", "medoids"})
        /\ "medoids" \in DOMAIN fs' /\ fs'["medoids"] = c
        /\ r.labels => "labels_to_medoids" \in DOMAIN fs' /\ fs'["labels_to_medoids"] = b
        /\ ~r.labels => ("labels_to_medoids" \in DOMAIN fs' <=> "labels_to_medoids" \in DOMAIN fs)
        /\ "labels_to_medoids" \in DOMAIN fs /\ ~r.labels => fs'["labels_to_medoids"] = fs["labels_to_medoids"]
    BY <1>4, <1>5, <1>9, <1>13 DEF Untouched
  <2>2. MadeInv'
    BY <1>1, <1>2, <1>3, <1>6, <1>13, <2>1 DEF FilesInv, MadeInv, PreparedMade, LabelsMade, DiskCodesMade, CodesMade,
     GraphMade, LayoutMade, LabelsCopied, Own, Has, UsedLabels, Untouched, Become, Gone, BeforeHeader, BeforeLayout,
     BeforeStarts, BeforeGraph, BeforeEncoded, BeforeCodes, BeforePivots, BeforeLabels
  <2>3. SizedInv'
    BY <1>1, <1>2, <1>6, <1>13, <2>1 DEF FilesInv, SizedInv, Own, Has, Untouched, Sized, BeforeLayout, BeforeStarts, BeforeGraph, BeforeEncoded,
     BeforeCodes, BeforePivots, BeforeLabels
  <2>4. SameRows'
    <3>1. /\ \A f \in Sized : f \in DOMAIN fs' => (f \in DOMAIN fs /\ fs'[f] = fs[f]) \/ fs'[f] \in {b, c}
          /\ \A f \in Sized : f \in DOMAIN fs /\ fs[f].by = n => fs[f].rows \in {0, job.rows}
      BY <1>1, <1>9, <1>13 DEF FilesInv, SizedInv, Own, Has
    <3> QED
      BY <1>2, <1>6, <1>13, <3>1 DEF FilesInv, SameRows, Has, Starts, Sized
  <2>5. OrderInv'
    <3>1. Own("pq_compressed") /\ ~Own("disk_index")
      BY <1>1, <1>13 DEF FilesInv, SizedInv, MadeInv, CodesMade, Sized, BeforeLayout, BeforeStarts, BeforeGraph, BeforeEncoded,
     BeforeCodes, BeforePivots, BeforeLabels
    <3>2. Own("pq_compressed")' /\ ~Own("disk_index")'
      BY <1>2, <2>1, <3>1 DEF Own, Has, Untouched
    <3> QED
      BY <3>2 DEF OrderInv
  <2> QED
    BY <1>10, <1>11, <1>12, <2>2, <2>3, <2>4, <2>5 DEF FilesInv
<1>14. CASE r.form # "standard"
  <2>1. \A f \in Sized : (f \in DOMAIN fs' <=> f \in DOMAIN fs) /\ (f \in DOMAIN fs => fs'[f] = fs[f])
    BY <1>4, <1>5, <1>9, <1>14 DEF Sized
  <2>2. SizedInv' /\ SameRows' /\ OrderInv'
    BY <1>1, <1>2, <2>1, SizedKept DEF BeforeLayout, BeforeStarts, BeforeGraph, BeforeEncoded, BeforeCodes,
       BeforePivots, BeforeLabels
  <2>3. MadeInv'
    BY <1>2, <1>14 DEF MadeInv
  <2> QED
    BY <1>10, <1>11, <1>12, <2>2, <2>3 DEF FilesInv
<1> QED
  BY <1>13, <1>14

\* The layout comes after the starts, or after their removal.
LEMMA LayoutInOrder ==
    ASSUME FilesInv, job # Idle, job.pc \in {"layout", "laid_out"}, UNCHANGED asked, Untouched({"disk_index"})
    PROVE  OrderInv'
<1>1. /\ n' = n
      /\ Own("medoids")' <=> Own("medoids")
      /\ Own("labels_to_medoids")' <=> Own("labels_to_medoids")
      /\ Own("pq_compressed")' <=> Own("pq_compressed")
      /\ Has("medoids")' <=> Has("medoids")
      /\ Has("labels_to_medoids")' <=> Has("labels_to_medoids")
  BY DEF n, Own, Has, Untouched
<1>2. r = asked[n] /\ r.shards \in Nat
  BY AtWork, RequestedType
<1>3. Own("pq_compressed") => r.form = "standard"
  BY DEF FilesInv, SizedInv, Sized
<1>4. CASE r.form = "standard"
  <2>1. /\ Has("medoids") => Own("medoids")
        /\ r.labels => Own("labels_to_medoids")
    BY <1>2, <1>4 DEF FilesInv, MadeInv, GraphMade, BeforeLayout, BeforeStarts, BeforeGraph, BeforeEncoded,
     BeforeCodes, BeforePivots, BeforeLabels
  <2> QED
    BY <1>1, <1>2, <2>1 DEF FilesInv, OrderInv
<1>5. CASE r.form # "standard"
  BY <1>1, <1>3, <1>5 DEF FilesInv, OrderInv
<1> QED
  BY <1>4, <1>5

LEMMA LayoutKeeps == ASSUME FilesInv, Layout PROVE FilesInv'
<1> DEFINE c == DiskFile(Content(0, 0))
<1>1. /\ job.pc = "layout" /\ job # Idle /\ job' = [job EXCEPT !.pc = "laid_out"]
      /\ UNCHANGED <<asked, ended>> /\ "laid_out" \in Steps
  BY DEF Layout, Goto, Idle, Steps, BeforeCopied, BeforeHeader, BeforeLayout, BeforeStarts, BeforeGraph, BeforeEncoded,
     BeforeCodes
<1>2. /\ job' \in [pc : Steps, req : Requested, rows : Nat \ {0}, width : Nat]
      /\ job'.pc = "laid_out" /\ job' # Idle' /\ r' = r /\ n' = n
      /\ job'.rows = job.rows /\ job'.width = job.width
      /\ Chunks' = Chunks /\ DiskChunks' = DiskChunks /\ UsedLabels' = UsedLabels
  BY <1>1, NextStep
<1>3. n \in 1 .. n
  BY <1>1, AtWork
<1>4. c.by = n /\ c.rows = 0
  BY DiskFileAt, ContentAt
<1>5. fs' = Write({"disk_index"}, c)
  BY DEF Layout
<1> HIDE DEF c
<1>6. Untouched({"disk_index"}) /\ "disk_index" \in DOMAIN fs' /\ fs'["disk_index"] = c
  BY <1>5, Wrote DEF Become
<1>7. /\ \A f \in DOMAIN fs' : fs'[f].by \in 1 .. n
      /\ \A f \in Sized : f \in DOMAIN fs' => (f \in DOMAIN fs /\ fs'[f] = fs[f]) \/ fs'[f].by = n
  BY <1>3, <1>4, <1>6 DEF Untouched, FilesInv, JobInv
<1>8. JobInv' /\ RecentInv' /\ CompletedInv' /\ CompletedIsAsked'
  BY <1>1, <1>2, <1>7, NextStepKeeps
<1>9. OrderInv'
  BY <1>1, <1>6, LayoutInOrder
<1>10. StepInv'
  BY <1>1, <1>2 DEF StepInv, BeforeEncoded, BeforeCodes, BeforePivots, BeforeLabels
<1>11. OptionsInv'
  BY <1>1, <1>6, OptionsKept DEF Untouched, Optional
<1>12. MadeInv'
  BY <1>1, <1>2, <1>4, <1>6 DEF FilesInv, MadeInv, PreparedMade, LabelsMade, DiskCodesMade, CodesMade,
     GraphMade, LayoutMade, LabelsCopied, Own, Has, UsedLabels, Untouched, Become, Gone, BeforeHeader, BeforeLayout,
     BeforeStarts, BeforeGraph, BeforeEncoded, BeforeCodes, BeforePivots, BeforeLabels
<1>13. SizedInv'
  BY <1>1, <1>2, <1>4, <1>6 DEF FilesInv, SizedInv, Own, Has, Untouched, BeforeLayout, BeforeStarts, BeforeGraph, BeforeEncoded,
     BeforeCodes, BeforePivots, BeforeLabels
<1>14. SameRows'
  BY <1>4, <1>6 DEF FilesInv, SameRows, Has, Untouched, Starts, Sized
<1> QED
  BY <1>8, <1>9, <1>10, <1>11, <1>12, <1>13, <1>14 DEF FilesInv

LEMMA LaidOutKeeps == ASSUME FilesInv, LaidOut PROVE FilesInv'
<1> DEFINE c == DiskFile(Size)
<1>1. job.pc = "laid_out" /\ job # Idle /\ UNCHANGED asked
  BY DEF LaidOut, Idle
<1>2. n \in 1 .. n /\ r.disk_PQ \in Nat /\ r.form \in {"standard", "amcgi", "mcgi"}
  BY <1>1, AtWork, RequestedType
<1>3. c.by = n /\ c.rows = Size.rows /\ c.width = Size.width /\ c.reorder = r.reorder
  BY DiskFileAt
<1>4. fs' = Write({"disk_index"}, c)
  BY DEF LaidOut
<1> HIDE DEF c
<1>5. Untouched({"disk_index"}) /\ "disk_index" \in DOMAIN fs' /\ fs'["disk_index"] = c
  BY <1>4, Wrote DEF Become
<1>6. /\ \A f \in DOMAIN fs' : fs'[f].by \in 1 .. n
      /\ \A f \in Sized : f \in DOMAIN fs' => (f \in DOMAIN fs /\ fs'[f] = fs[f]) \/ fs'[f].by = n
  BY <1>2, <1>3, <1>5 DEF Untouched, FilesInv, JobInv
<1>7. OrderInv'
  BY <1>1, <1>5, LayoutInOrder
<1>8. OptionsInv'
  BY <1>1, <1>5, OptionsKept DEF Untouched, Optional
<1>9. CASE r.form = "standard"
  <2>1. job' = [job EXCEPT !.pc = "sample"] /\ UNCHANGED <<asked, ended>> /\ "sample" \in Steps
    BY <1>9 DEF LaidOut, Goto, Steps, BeforeCopied
  <2>2. /\ job' \in [pc : Steps, req : Requested, rows : Nat \ {0}, width : Nat]
        /\ job'.pc = "sample" /\ job' # Idle' /\ r' = r /\ n' = n
        /\ job'.rows = job.rows /\ job'.width = job.width
        /\ Chunks' = Chunks /\ DiskChunks' = DiskChunks /\ UsedLabels' = UsedLabels
    BY <1>1, <2>1, NextStep
  <2>3. JobInv' /\ RecentInv' /\ CompletedInv' /\ CompletedIsAsked'
    BY <1>1, <1>6, <2>1, <2>2, NextStepKeeps
  <2>4. Size.rows = job.rows /\ (r.disk_PQ > 0 => Size.width = DiskChunks)
    <3>1. CASE r.disk_PQ = 0
      <4>1. Base = "data" /\ ~(r.disk_PQ > 0)
        BY <1>9, <3>1 DEF Base
      <4> QED
        BY <4>1, ContentAt DEF Size
    <3>2. CASE r.disk_PQ > 0
      <4>1. /\ fs["disk_pq_compressed"].rows = job.rows
            /\ fs["disk_pq_compressed"].width = DiskChunks
        BY <1>1, <1>9, <3>2 DEF FilesInv, MadeInv, DiskCodesMade, BeforePivots, BeforeLabels
      <4>2. Base = "disk_pq_compressed"
        BY <1>9, <3>2 DEF Base
      <4> QED
        BY <4>1, <4>2, ContentAt DEF Size
    <3> QED
      BY <1>2, <3>1, <3>2
  <2>5. StepInv'
    BY <1>9, <2>2 DEF StepInv
  <2>6. MadeInv'
    BY <1>1, <1>2, <1>3, <1>5, <2>2, <2>4 DEF FilesInv, MadeInv, PreparedMade, LabelsMade, DiskCodesMade, CodesMade,
     GraphMade, LayoutMade, LabelsCopied, Own, Has, UsedLabels, Untouched, Become, Gone, BeforeHeader, BeforeLayout,
     BeforeStarts, BeforeGraph, BeforeEncoded, BeforeCodes, BeforePivots, BeforeLabels
  <2>7. SizedInv'
    BY <1>1, <1>3, <1>5, <1>9, <2>2, <2>4 DEF FilesInv, SizedInv, Own, Has, Untouched, BeforeLayout, BeforeStarts, BeforeGraph, BeforeEncoded,
     BeforeCodes, BeforePivots, BeforeLabels
  <2>8. SameRows'
    <3>1. \A f \in Sized : f \in DOMAIN fs /\ fs[f].by = n => fs[f].rows \in {0, job.rows}
      BY <1>1, <1>9 DEF FilesInv, SizedInv, Own, Has
    <3> QED
      BY <1>3, <1>5, <2>2, <2>4, <3>1 DEF FilesInv, SameRows, Has, Untouched, Starts, Sized
  <2> QED
    BY <1>7, <1>8, <2>3, <2>5, <2>6, <2>7, <2>8 DEF FilesInv
<1>10. CASE r.form # "standard"
  <2>1. End("done")
    BY <1>10 DEF LaidOut
  <2>2. JobInv' /\ StepInv' /\ MadeInv' /\ SizedInv' /\ RecentInv' /\ CompletedInv' /\ CompletedIsAsked'
    BY <1>1, <1>6, <1>10, <2>1, EndKeeps
  <2>3. SameRows'
    <3>1. \A f \in Sized \ {"disk_index"} : f \in DOMAIN fs => fs[f].by # n
      BY <1>1, <1>10 DEF FilesInv, SizedInv, Own, Has
    <3> QED
      BY <1>3, <1>5, <3>1 DEF FilesInv, SameRows, Has, Untouched, Starts, Sized
  <2> QED
    BY <1>7, <1>8, <2>2, <2>3 DEF FilesInv
<1> QED
  BY <1>9, <1>10

LEMMA SampleKeeps == ASSUME FilesInv, Sample PROVE FilesInv'
<1> DEFINE c == Content(job.rows, job.width)
           to == IF r.labels THEN "copy_labels" ELSE "clean_up"
<1>1. /\ job.pc = "sample" /\ job # Idle /\ job' = [job EXCEPT !.pc = to]
      /\ UNCHANGED <<asked, ended>> /\ to \in Steps /\ to \in {"copy_labels", "clean_up"}
      /\ to = "copy_labels" <=> r.labels
  BY DEF Sample, Goto, Idle, Steps, BeforeCopied
<1>2. r.form = "standard"
  BY <1>1 DEF FilesInv, StepInv
<1>3. c.by = n
  BY ContentAt
<1>4. fs' = Write({"sample"}, c)
  BY DEF Sample
<1> HIDE DEF c, to
<1>5. /\ job' \in [pc : Steps, req : Requested, rows : Nat \ {0}, width : Nat]
      /\ job'.pc = to /\ job' # Idle' /\ r' = r /\ n' = n
      /\ job'.rows = job.rows /\ job'.width = job.width
      /\ Chunks' = Chunks /\ DiskChunks' = DiskChunks /\ UsedLabels' = UsedLabels
  BY <1>1, NextStep
<1>6. Untouched({"sample"}) /\ "sample" \in DOMAIN fs' /\ fs'["sample"] = c
  BY <1>4, Wrote DEF Become
<1>7. n \in 1 .. n
  BY <1>1, AtWork
<1>8. /\ \A f \in DOMAIN fs' : fs'[f].by \in 1 .. n
      /\ \A f \in Sized : (f \in DOMAIN fs' <=> f \in DOMAIN fs) /\ (f \in DOMAIN fs => fs'[f] = fs[f])
  BY <1>3, <1>6, <1>7 DEF Untouched, FilesInv, JobInv, Sized
<1>9. JobInv' /\ RecentInv' /\ CompletedInv' /\ CompletedIsAsked'
  BY <1>1, <1>5, <1>8, NextStepKeeps
<1>10. SizedInv' /\ SameRows' /\ OrderInv'
  BY <1>1, <1>5, <1>8, SizedKept DEF BeforeLayout, BeforeStarts, BeforeGraph, BeforeEncoded, BeforeCodes,
     BeforePivots, BeforeLabels
<1>11. StepInv'
  BY <1>1, <1>2, <1>5 DEF StepInv, BeforeEncoded, BeforeCodes, BeforePivots, BeforeLabels
<1>12. OptionsInv'
  BY <1>1, <1>6, OptionsKept DEF Untouched, Optional
<1>13. MadeInv'
  BY <1>1, <1>2, <1>5, <1>6 DEF FilesInv, MadeInv, PreparedMade, LabelsMade, DiskCodesMade, CodesMade,
     GraphMade, LayoutMade, LabelsCopied, Own, Has, UsedLabels, Untouched, Become, Gone, BeforeHeader, BeforeLayout,
     BeforeStarts, BeforeGraph, BeforeEncoded, BeforeCodes, BeforePivots, BeforeLabels
<1> QED
  BY <1>9, <1>10, <1>11, <1>12, <1>13 DEF FilesInv

LEMMA CopyLabelsKeeps == ASSUME FilesInv, CopyLabels PROVE FilesInv'
<1> DEFINE gone == SavedLabels \cup {"augmented_data", "augmented_labels", UsedLabels}
           b == fs[UsedLabels]
           c == fs["mem_universal_label"]
           files == {"labels", "universal_label", "mem_labels", "mem_universal_label", "augmented_data",
                     "augmented_labels", "label_formatted"}
<1>1. /\ job.pc = "copy_labels" /\ job # Idle /\ job' = [job EXCEPT !.pc = "clean_up"]
      /\ UNCHANGED <<asked, ended>> /\ "clean_up" \in Steps
  BY DEF CopyLabels, Goto, Idle, Steps, BeforeCopied, BeforeHeader, BeforeLayout, BeforeStarts, BeforeGraph, BeforeEncoded,
     BeforeCodes
<1>2. /\ job' \in [pc : Steps, req : Requested, rows : Nat \ {0}, width : Nat]
      /\ job'.pc = "clean_up" /\ job' # Idle' /\ r' = r /\ n' = n
      /\ job'.rows = job.rows /\ job'.width = job.width
      /\ Chunks' = Chunks /\ DiskChunks' = DiskChunks /\ UsedLabels' = UsedLabels
  BY <1>1, NextStep
<1>3. /\ n \in 1 .. n /\ r.form = "standard" /\ r.labels
  BY <1>1, AtWork DEF FilesInv, StepInv
<1>4. /\ b.by = n /\ b.rows = job.rows
      /\ r.universal => c.by = n
  BY <1>1, <1>3 DEF FilesInv, MadeInv, LabelsMade, GraphMade, Own, BeforeLayout, BeforeStarts, BeforeGraph, BeforeEncoded,
     BeforeCodes, BeforePivots, BeforeLabels
<1>5. /\ gone \subseteq files /\ "labels" \notin gone /\ "universal_label" \notin gone
  BY DEF SavedLabels, UsedLabels
<1>6. /\ r.universal => fs' = Without(With(Write({"labels"}, b), {"universal_label"}, c), gone)
      /\ ~r.universal => fs' = Without(Write({"labels"}, b), gone)
  BY DEF CopyLabels, UsedLabels
<1> HIDE DEF b, c, gone, files
<1>7. /\ \A f : f \notin files => (f \in DOMAIN fs' <=> f \in DOMAIN fs) /\ (f \in DOMAIN fs => fs'[f] = fs[f])
      /\ "labels" \in DOMAIN fs' /\ fs'["labels"] = b
      /\ r.universal => "universal_label" \in DOMAIN fs' /\ fs'["universal_label"] = c
      /\ ~r.universal /\ "universal_label" \in DOMAIN fs' => "universal_label" \in DOMAIN fs
      /\ \A f \in DOMAIN fs' : fs'[f] = b \/ (r.universal /\ fs'[f] = c) \/ (f \in DOMAIN fs /\ fs'[f] = fs[f])
  <2>1. CASE r.universal
    <3>1. /\ Untouched({"labels"} \cup {"universal_label"} \cup gone) /\ Gone(gone)
          /\ Become(({"labels"} \ {"universal_label"}) \ gone, b) /\ Become({"universal_label"} \ gone, c)
      BY <1>6, <2>1, WroteTwiceAndRemoved
    <3> QED
      BY <1>5, <2>1, <3>1 DEF Untouched, Become, Gone, files
  <2>2. CASE ~r.universal
    <3>1. Untouched({"labels"} \cup gone) /\ Become({"labels"} \ gone, b) /\ Gone(gone)
      BY <1>6, <2>2, WroteAndRemoved
    <3> QED
      BY <1>5, <2>2, <3>1 DEF Untouched, Become, Gone, files
  <2> QED
    BY <2>1, <2>2
<1>8. /\ \A f \in DOMAIN fs' : fs'[f].by \in 1 .. n
      /\ \A f \in Sized : (f \in DOMAIN fs' <=> f \in DOMAIN fs) /\ (f \in DOMAIN fs => fs'[f] = fs[f])
  BY <1>3, <1>4, <1>7 DEF FilesInv, JobInv, Sized, files
<1>9. JobInv' /\ RecentInv' /\ CompletedInv' /\ CompletedIsAsked'
  BY <1>1, <1>2, <1>8, NextStepKeeps
<1>10. SizedInv' /\ SameRows' /\ OrderInv'
  BY <1>1, <1>2, <1>8, SizedKept DEF BeforeLayout, BeforeStarts, BeforeGraph, BeforeEncoded,
     BeforeCodes, BeforePivots, BeforeLabels
<1>11. StepInv'
  BY <1>2, <1>3 DEF StepInv
<1>12. OptionsInv'
  BY <1>1, <1>3, <1>7, OptionsKept DEF Optional, AskedFor, files
<1>13. MadeInv'
  <2>1. Untouched(files)
    BY <1>7 DEF Untouched
  <2> QED
    BY <1>1, <1>2, <1>3, <1>4, <1>7, <2>1 DEF files, FilesInv, MadeInv, PreparedMade, LabelsMade, DiskCodesMade, CodesMade,
     GraphMade, LayoutMade, LabelsCopied, Own, Has, UsedLabels, Untouched, Become, Gone, BeforeHeader, BeforeLayout,
     BeforeStarts, BeforeGraph, BeforeEncoded, BeforeCodes, BeforePivots, BeforeLabels
<1> QED
  BY <1>9, <1>10, <1>11, <1>12, <1>13 DEF FilesInv

LEMMA CleanUpKeeps == ASSUME FilesInv, CleanUp PROVE FilesInv'
<1> DEFINE files == {"mem_index", "mem_index_data", "prepped_base", "disk_pq_compressed"}
<1>1. /\ job.pc = "clean_up" /\ job # Idle /\ UNCHANGED asked
      /\ job' = Idle' /\ job'.pc = "idle" /\ n' = n /\ ended' = Append(ended, "done")
  BY DEF CleanUp, End, Idle, n
<1>2. /\ n \in Nat /\ n > 0 /\ n <= MaxBuilds /\ Len(ended) = n - 1 /\ r = asked[n] /\ Accepted(r)
      /\ ended \in Seq({"done", "refused", "thrown", "killed"}) /\ asked \in Seq(Requested)
      /\ r.form = "standard" /\ job.rows \in Nat \ {0} /\ r.shards \in Nat /\ r.disk_PQ \in Nat
  BY <1>1, AtWork, RequestedType DEF FilesInv, JobInv, StepInv
<1>3. /\ ended' \in Seq({"done", "refused", "thrown", "killed"}) /\ Len(ended') = n
      /\ ended'[n] = "done" /\ DOMAIN ended' = 1 .. n
  BY <1>1, <1>2
<1>4. Untouched(files)
  <2>1. fs' = Without(fs, Temporaries)
    BY DEF CleanUp
  <2>2. Temporaries \subseteq files
    BY DEF Temporaries
  <2> QED
    BY <2>1, <2>2, Removed DEF Untouched
<1>5. \A f \in DOMAIN fs' : f \in DOMAIN fs /\ fs'[f] = fs[f]
  BY Removed DEF CleanUp, Untouched, Gone
<1>6. \A f \in Sized : (f \in DOMAIN fs' <=> f \in DOMAIN fs) /\ (f \in DOMAIN fs => fs'[f] = fs[f])
  BY <1>4 DEF Untouched, Sized
<1>7. SameRows' /\ OrderInv' /\ \A f \in Sized : Own(f)' <=> Own(f)
  BY <1>1, <1>6, OrderKept
<1>8. JobInv'
  BY <1>1, <1>2, <1>3, <1>5 DEF FilesInv, JobInv
<1>9. StepInv' /\ MadeInv' /\ SizedInv'
  BY <1>1 DEF StepInv, MadeInv, SizedInv, BeforeEncoded, BeforeCodes, BeforePivots, BeforeLabels
<1>10. OptionsInv'
  BY <1>1, <1>5, OptionsKept
<1>11. /\ PreparedMade /\ LabelsMade /\ DiskCodesMade /\ CodesMade /\ GraphMade /\ LayoutMade /\ LabelsCopied
  BY <1>1, <1>2 DEF FilesInv, MadeInv
<1> DEFINE SameOwn(f) == f \in DOMAIN fs' /\ fs'[f] = fs[f] /\ fs'[f].by = n
<1>12. /\ SameOwn("pq_compressed") /\ SameOwn("disk_index")
       /\ "pq_pivots" \in DOMAIN fs' /\ fs'["pq_pivots"] = fs["pq_pivots"]
       /\ r.disk_PQ > 0 => "disk_pq_pivots" \in DOMAIN fs' /\ fs'["disk_pq_pivots"] = fs["disk_pq_pivots"]
       /\ r.metric = "mips" => SameOwn("max_base_norm")
       /\ r.shards > 0 => SameOwn("medoids") /\ SameOwn("centroids")
       /\ r.shards = 0 => "medoids" \notin DOMAIN fs' /\ "centroids" \notin DOMAIN fs'
       /\ r.labels => SameOwn("labels") /\ SameOwn("labels_map") /\ SameOwn("labels_to_medoids")
       /\ r.labels /\ r.universal => SameOwn("universal_label")
       /\ r.labels /\ r.dummies >= 0 => SameOwn("dummy_map")
  BY <1>1, <1>4, <1>11 DEF Untouched, Own, Has, PreparedMade, LabelsMade, DiskCodesMade, CodesMade, GraphMade,
     LayoutMade, LabelsCopied, BeforeHeader, BeforeLayout, BeforeStarts, BeforeGraph, BeforeEncoded,
     BeforeCodes, BeforePivots, BeforeLabels
<1>13. /\ fs'["pq_compressed"].rows = job.rows /\ fs'["pq_pivots"].rows = fs'["pq_compressed"].width
       /\ fs'["disk_index"].rows = job.rows /\ fs'["disk_index"].reorder = r.reorder
       /\ r.disk_PQ > 0 => fs'["disk_pq_pivots"].rows = fs'["disk_index"].width
       /\ r.shards > 0 => fs'["centroids"].width = fs'["medoids"].width
       /\ r.labels => fs'["labels"].rows = job.rows
  BY <1>1, <1>11, <1>12 DEF DiskCodesMade, CodesMade, GraphMade, LayoutMade, LabelsCopied, BeforeHeader, BeforeLayout, BeforeStarts, BeforeGraph, BeforeEncoded,
     BeforeCodes, BeforePivots, BeforeLabels
<1> HIDE DEF SameOwn
<1>14. CompletedInv'
  BY <1>1, <1>2, <1>12 DEF CompletedInv, Own, Has, SameOwn
<1>15. RecentInv'
  <2>1. \A f \in Sized \ {"labels_to_medoids"} : f \in DOMAIN fs' => fs'[f].by = n
    BY <1>2, <1>12 DEF Sized, SameOwn
  <2>2. LabelsAlways' /\ "labels_to_medoids" \in DOMAIN fs' => fs'["labels_to_medoids"].by = n
    <3>1. n \in DOMAIN asked
      BY <1>2 DEF n
    <3> QED
      BY <1>1, <1>2, <1>12, <3>1 DEF LabelsAlways, SameOwn
  <2> QED
    BY <1>1, <2>1, <2>2 DEF RecentInv, Has, Sized
<1>16. CompletedIsAsked'
  <2>1. Last(asked') = r
    BY <1>1, <1>2 DEF Last, n
  <2>2. Loads'
    <3>1. CodesFit'
      BY <1>2, <1>12, <1>13 DEF CodesFit, Has, SameOwn
    <3>2. HeaderFits'
      BY <1>2, <1>12, <1>13 DEF HeaderFits, Has, SameOwn, Accepted
    <3>3. CentroidsFit'
      BY <1>2, <1>12, <1>13 DEF CentroidsFit, Has
    <3> QED
      BY <3>1, <3>2, <3>3 DEF Loads
  <2>3. /\ AskedFor(r, "universal_label") => r.labels /\ r.universal
        /\ AskedFor(r, "dummy_map") => r.labels /\ r.dummies >= 0
    BY DEF AskedFor
  <2>4. \A f \in Optional : Has(f)' => \E i \in DOMAIN asked' : AskedFor(asked'[i], f)
    BY <1>10 DEF OptionsInv
  <2>5. ASSUME NEW f, f \in {"disk_index", "pq_compressed"}
                 \cup (IF r.labels THEN {"labels", "labels_map", "labels_to_medoids"} ELSE {})
                 \cup {g \in {"universal_label", "dummy_map"} : AskedFor(r, g)}
                 \cup (IF r.metric = "mips" THEN {"max_base_norm"} ELSE {})
                 \cup (IF r.shards = 0 THEN {} ELSE {"medoids", "centroids"})
        PROVE  Has(f)' /\ fs'[f].by = n'
    <3>1. SameOwn(f)
      BY <1>2, <1>12, <2>3, <2>5
    <3> QED
      BY <1>1, <3>1 DEF SameOwn, Has
  <2>6. r.labels => fs'["labels"].rows = fs'["disk_index"].rows
    BY <1>13
  <2>7. r.disk_PQ > 0 => fs'["disk_pq_pivots"].rows = fs'["disk_index"].width
    BY <1>13
  <2> QED
    BY <2>1, <2>2, <2>4, <2>5, <2>6, <2>7 DEF CompletedIsAsked
<1> QED
  BY <1>7, <1>8, <1>9, <1>10, <1>14, <1>15, <1>16 DEF FilesInv

LEMMA FilesInit == ASSUME Init PROVE FilesInv
<1>1. /\ n = 0 /\ Len(ended) = 0 /\ DOMAIN fs = {} /\ DOMAIN ended = {} /\ job = Idle /\ job.pc = "idle"
      /\ asked \in Seq(Requested) /\ ended \in Seq({"done", "refused", "thrown", "killed"})
  BY DEF Init, n, Idle
<1>2. JobInv
  BY <1>1, RequestAssumption DEF JobInv
<1>3. StepInv /\ MadeInv /\ SizedInv
  BY <1>1 DEF StepInv, MadeInv, SizedInv, BeforeEncoded, BeforeCodes, BeforePivots, BeforeLabels
<1>4. SameRows /\ OrderInv /\ RecentInv /\ OptionsInv /\ CompletedInv
  BY <1>1 DEF SameRows, OrderInv, RecentInv, OptionsInv, CompletedInv, Own, Has
<1>5. ~Completed
  BY DEF Init, Completed
<1> QED
  BY <1>2, <1>3, <1>4, <1>5 DEF FilesInv, CompletedIsAsked

LEMMA FilesNext == ASSUME FilesInv, [Next]_vars PROVE FilesInv'
<1>1. CASE UNCHANGED vars
  <2>1. UNCHANGED <<fs, job, asked, ended>>
    BY <1>1 DEF vars
  <2>2. UNCHANGED <<n, r, UsedLabels, Chunks, DiskChunks>>
    BY <2>1 DEF n, r, UsedLabels, Chunks, NumChunks, DiskChunks
  <2>3. \A f : (Own(f)' <=> Own(f)) /\ (Has(f)' <=> Has(f))
    BY <2>1, <2>2 DEF Own, Has
  <2>4. JobInv' /\ StepInv'
    BY <2>1, <2>2 DEF FilesInv, JobInv, StepInv, Idle
  <2>5. MadeInv'
    <3>1. UNCHANGED <<PreparedMade, LabelsMade, DiskCodesMade, CodesMade>>
      BY <2>1, <2>2 DEF PreparedMade, LabelsMade, DiskCodesMade, CodesMade, Own, Has
    <3>2. UNCHANGED <<GraphMade, LayoutMade, LabelsCopied>>
      BY <2>1, <2>2 DEF GraphMade, LayoutMade, LabelsCopied, Own, Has
    <3> QED
      BY <2>1, <2>2, <3>1, <3>2 DEF FilesInv, MadeInv, Idle
  <2>6. SizedInv' /\ SameRows' /\ OrderInv'
    BY <2>1, <2>2 DEF FilesInv, SizedInv, SameRows, OrderInv, Own, Has, Idle
  <2>7. RecentInv'
    BY <2>1, <2>2 DEF FilesInv, RecentInv, Recent, StandardDone, LabelsAlways, Has
  <2>8. UNCHANGED Completed
    BY <2>1, <2>2 DEF Completed
  <2>9. OptionsInv' /\ CompletedInv'
    BY <2>1, <2>2, <2>8 DEF FilesInv, OptionsInv, CompletedInv, Own, Has
  <2>10. CompletedIsAsked'
    BY <2>1, <2>2, <2>8 DEF FilesInv, CompletedIsAsked, Own, Has, Loads, CodesFit, HeaderFits, CentroidsFit
  <2> QED
    BY <2>4, <2>5, <2>6, <2>7, <2>9, <2>10 DEF FilesInv
<1>2. ASSUME NEW q \in Requests(n + 1), Begin(q) \/ Refuse(q) PROVE FilesInv'
  BY <1>2, BeginKeeps, RefuseKeeps
<1>3. CASE Prepare \/ Labels \/ DiskQuantize \/ Quantize \/ Encode
  BY <1>3, PrepareKeeps, LabelsKeeps, DiskQuantizeKeeps, QuantizeKeeps, EncodeKeeps
<1>4. CASE OneShot \/ Partition \/ Merge \/ DeleteTempFiles \/ McgiGraph
  BY <1>4, OneShotKeeps, PartitionKeeps, MergeKeeps, DeleteTempFilesKeeps, McgiGraphKeeps
<1>5. CASE Layout \/ LaidOut \/ Sample \/ CopyLabels \/ CleanUp
  BY <1>5, LayoutKeeps, LaidOutKeeps, SampleKeeps, CopyLabelsKeeps, CleanUpKeeps
<1>6. CASE Throw \/ Crash
  BY <1>6, ThrowKeeps, CrashKeeps
<1> QED
  BY <1>1, <1>2, <1>3, <1>4, <1>5, <1>6 DEF Next

\* At most one build since the last that was completed.
LEMMA SinceStandardRecent == ASSUME FilesInv, SinceStandard <= 1 PROVE Recent
<1> DEFINE done == {0} \cup {i \in DOMAIN ended : StandardDone(i)}
           left == {n - i : i \in done}
<1>1. n \in Nat /\ done \subseteq 0 .. n
  <2>1. Len(ended) \in Nat /\ DOMAIN ended = 1 .. Len(ended) /\ n \in Nat /\ Len(ended) <= n
    BY DEF FilesInv, JobInv, n
  <2> QED
    BY <2>1
<1>2. \E m \in done : \A i \in done : m >= i
  <2>1. left \subseteq Nat /\ left # {}
    BY <1>1
  <2>2. PICK k \in left : \A j \in left : k <= j
    BY <2>1, LeastNumber
  <2>3. PICK m \in done : k = n - m
    BY <2>2
  <2>4. ASSUME NEW i \in done PROVE m >= i
    <3>1. n - m <= n - i
      BY <2>2, <2>3
    <3>2. m \in Nat /\ i \in Nat
      BY <1>1
    <3> QED
      BY <1>1, <3>1, <3>2
  <2> QED
    BY <2>4
<1>3. Max(done) \in done
  BY <1>2 DEF Max
<1>4. n - Max(done) <= 1
  BY DEF SinceStandard, StandardDone
<1> DEFINE m == Max(done)
<1>5. m \in 0 .. n /\ n - m <= 1
  BY <1>1, <1>3, <1>4
<1>6. m = 0 \/ StandardDone(m)
  BY <1>3
<1> HIDE DEF m
<1>7. (m = n \/ m = n - 1) /\ (m = 0 => n <= 1)
  BY <1>1, <1>5
<1> QED
  BY <1>6, <1>7 DEF Recent

\* Starts of the builds whose codes and layout load compares, or of no other.
LEMMA StartsOfIndex ==
    ASSUME FilesInv, Loads, NEW f \in Starts, Has(f), fs["pq_compressed"].by \in {n - 1, n},
           fs["disk_index"].by \in {n - 1, n}, fs[f].by \in {n - 1, n}, f = "labels_to_medoids" => asked[n].labels
    PROVE  fs[f].rows = fs["disk_index"].rows
<1>1. n \in Nat
  BY DEF n, FilesInv, JobInv
<1>2. /\ Has("pq_compressed") /\ Has("disk_index") /\ fs["pq_compressed"].rows > 0
      /\ fs["disk_index"].rows = fs["pq_compressed"].rows
  BY DEF Loads, CodesFit, HeaderFits
<1>3. fs[f].rows # 0 /\ fs["disk_index"].rows # 0
  BY <1>2 DEF FilesInv, SameRows
<1>4. CASE fs[f].by = fs["disk_index"].by \/ fs[f].by = fs["pq_compressed"].by
  BY <1>2, <1>3, <1>4 DEF FilesInv, SameRows, Sized, Starts
<1>5. CASE fs[f].by = n /\ fs["pq_compressed"].by = n - 1
  BY <1>1, <1>2, <1>5 DEF FilesInv, OrderInv, Own, Starts
<1>6. CASE fs[f].by = n - 1 /\ fs["pq_compressed"].by = n /\ fs["disk_index"].by = n
  BY <1>1, <1>2, <1>6 DEF FilesInv, OrderInv, Own, Starts
<1> QED
  BY <1>1, <1>4, <1>5, <1>6

LEMMA FilesStartsFit == ASSUME FilesInv PROVE StartsFit
<1> SUFFICES ASSUME Loads, SinceStandard <= 1
             PROVE  /\ Has("medoids") => fs["medoids"].rows = fs["disk_index"].rows
                    /\ LabelsAlways /\ Has("labels_to_medoids") =>
                          fs["labels_to_medoids"].rows = fs["disk_index"].rows
  BY DEF StartsFit, LabelsAlways
<1>1. Recent
  BY SinceStandardRecent
<1>2. Has("pq_compressed") /\ Has("disk_index")
  BY DEF Loads, CodesFit, HeaderFits
<1>3. fs["pq_compressed"].by \in {n - 1, n} /\ fs["disk_index"].by \in {n - 1, n}
  BY <1>1, <1>2 DEF FilesInv, RecentInv, Sized
<1>4. LabelsAlways => asked[n].labels
  <2>1. n \in DOMAIN asked
    BY <1>2 DEF FilesInv, JobInv, n, Has
  <2> QED
    BY <2>1 DEF LabelsAlways
<1>5. Has("medoids") => fs["medoids"].rows = fs["disk_index"].rows
  BY <1>1, <1>3, StartsOfIndex DEF FilesInv, RecentInv, Sized, Starts
<1>6. LabelsAlways /\ Has("labels_to_medoids") => fs["labels_to_medoids"].rows = fs["disk_index"].rows
  BY <1>1, <1>3, <1>4, StartsOfIndex DEF FilesInv, RecentInv, Starts
<1> QED
  BY <1>5, <1>6

-----------------------------------------------------------------------------
(* The theorems.                                                           *)

\* Build after build over one prefix, whichever end before their time: the
\* files that a standard build has made and not yet removed are there, those of
\* one build that load compares have the same rows, and codes, starts and
\* layout are written in this order (build_disk_index, disk_utils.cpp).
THEOREM FilesInvHolds == Spec => []FilesInv
<1>1. Init => FilesInv
  BY FilesInit
<1>2. FilesInv /\ [Next]_vars => FilesInv'
  BY FilesNext
<1> QED
  BY <1>1, <1>2, PTL DEF Spec

\* A standard build that returns leaves an index that load takes, with every
\* file it was asked for and nothing of an option no build had (the end of
\* build_disk_index and PQFlashIndex::load).
THEOREM CompletedIsAskedHolds == Spec => []CompletedIsAsked
<1>1. FilesInv => CompletedIsAsked
  BY DEF FilesInv
<1> QED
  BY <1>1, FilesInvHolds, PTL

\* Whatever one build has left undone since the last that was completed, an
\* index that load takes has starts for as many rows as it has itself (the
\* medoids load reads at pq_flash_index.cpp:1110).
THEOREM StartsFitHolds == Spec => []StartsFit
<1>1. FilesInv => StartsFit
  BY FilesStartsFit
<1> QED
  BY <1>1, FilesInvHolds, PTL
=============================================================================
