---------------------------- MODULE Quantization ----------------------------
(* Product quantization: k-means over the chunks of the vectors, plain or    *)
(* with a rotation (OPQ), the codes of a base file, the files of both, and   *)
(* the distances a search reads from them (src/pq.cpp, src/math_utils.cpp,   *)
(* src/pq_l2_distance.cpp, src/pq_data_store.cpp).  Arithmetic is exact:     *)
(* coordinates are integers that the means of every cluster divide.          *)
EXTENDS Integers, Sequences, FiniteSets, FiniteSetsExt, SequencesExt, Functions

CONSTANTS
    Dim,            \* of all vectors
    Queries,        \* vectors searched for
    Samples(_),     \* the rows gen_random_slice may take of a base
    Rotations,      \* what the singular vectors of a correlation may give
    NumCenters,     \* NUM_PQ_CENTROIDS
    MaxReps,        \* max_k_means_reps
    OpqIters,       \* MAX_OPQ_ITERS
    Requests(_)     \* what the n-th build is asked for: kind (index and disk for build_disk_index, store
                    \* for PQDataStore, buffer for the simplified calls), base, k (num_pq_chunks), opq, mips

VARIABLES
    pivots,     \* pivot files by place: centers, centroid, chunk offsets, and whether they have their header
    rotation,   \* rotation matrix files by place
    codes,      \* compressed vectors by place
    job,        \* the build that is running
    torn,       \* history: places whose pivots were written and whose codes were not
    table,      \* the FixedChunkPQTable or PQL2Distance of a search, with its codes
    builds      \* builds begun

vars == <<pivots, rotation, codes, job, torn, table, builds>>
files == <<pivots, rotation, codes>>

Dims == 1 .. Dim
Zero == [d \in Dims |-> 0]
Idle == [phase |-> "idle"]
NoTable == <<>>
Store(f, x, v) == [y \in DOMAIN f \cup {x} |-> IF y = x THEN v ELSE f[y]]

(* The files of a build: one prefix for a disk index whatever is asked for,  *)
(* names with kind and chunks for a data store, none for buffers.            *)
Place(kind, opq, k) == IF kind = "store" THEN <<kind, opq, k>> ELSE <<kind>>

Minus(v, w) == [d \in DOMAIN v |-> v[d] - w[d]]
Rotate(v, R) == [d \in Dims |-> MapThenSumSet(LAMBDA e : v[e] * R[e][d], Dims)]
SqDist(v, w) == MapThenSumSet(LAMBDA d : (v[d] - w[d]) * (v[d] - w[d]), DOMAIN v)
Dot(v, w) == MapThenSumSet(LAMBDA d : v[d] * w[d], DOMAIN v)

(***************************************************************************)
(* Dimensions go to the first chunk with room; once as many chunks as the   *)
(* remainder says have the larger size, the others stop at the smaller.     *)
(***************************************************************************)
ChunkSizes(k) ==
    LET low == Dim \div k
        high == (Dim + k - 1) \div k
        Put(bins, d) ==
            LET limit == IF Cardinality({b \in 1 .. k : bins[b] = high}) = Dim - low * k THEN low ELSE high
                best == Min({b \in 1 .. k : bins[b] < limit})
            IN  [bins EXCEPT ![best] = @ + 1]
    IN  FoldLeft(Put, [b \in 1 .. k |-> 0], [d \in Dims |-> d])
ChunkOffsets(k) == FoldLeft(LAMBDA offsets, size : Append(offsets, Last(offsets) + size), <<0>>, ChunkSizes(k))
ChunkDims(offsets, c) == offsets[c] + 1 .. offsets[c + 1]
Part(v, D) == [d \in D |-> v[d]]
Parts(vs, D) == [i \in DOMAIN vs |-> Part(vs[i], D)]

(***************************************************************************)
(* k-means.                                                                 *)
(***************************************************************************)
ClosestCenter(v, centers) ==
    CHOOSE j \in DOMAIN centers :
        \A i \in DOMAIN centers : /\ SqDist(v, centers[j]) <= SqDist(v, centers[i])
                                  /\ i < j => SqDist(v, centers[j]) < SqDist(v, centers[i])

(* A dart at the distances from the seeds so far: any point that is not on   *)
(* one; when all are, the last point, picked before or not.                  *)
(* A wrong variant: a point picked before is never picked again.             *)
SeedChoicesFresh(rows, seeds) ==
    {i \in DOMAIN rows : \A s \in Range(seeds) : SqDist(rows[i], rows[s]) > 0}
SeedChoices(rows, seeds) ==
    LET off == {i \in DOMAIN rows : \A s \in Range(seeds) : SqDist(rows[i], rows[s]) > 0}
    IN  IF off = {} THEN {Len(rows)} ELSE off

Members(closest, j) == {i \in DOMAIN closest : closest[i] = j}

(* The mean of a cluster; of an empty one, zero.                             *)
Mean(rows, members, D) ==
    IF members = {} THEN [d \in D |-> 0]
    ELSE [d \in D |-> MapThenSumSet(LAMBDA i : rows[i][d], members) \div Cardinality(members)]

Residual(rows, centers, closest) == MapThenSumSet(LAMBDA i : SqDist(rows[i], centers[closest[i]]), DOMAIN rows)
(* (old - new) / new < 0.00001, or nothing left.                             *)
Settled(rep, old, new) == new = 0 \/ (rep > 0 /\ old - new <= (new - 1) \div 100000)

(***************************************************************************)
(* A build: generate_quantized_data, which trains and then encodes; or      *)
(* generate_disk_quantized_data, which centres nothing and takes as many    *)
(* chunks as there are dimensions at most; or PQDataStore::populate_data,   *)
(* which also loads what it made; or the two simplified calls, which use no *)
(* file and want chunks of one size.                                        *)
(***************************************************************************)
Init ==
    /\ pivots = <<>> /\ rotation = <<>> /\ codes = <<>>
    /\ job = Idle
    /\ torn = {}
    /\ table = NoTable /\ builds = 0

(* A pivot file of the same dimension and number of centres is kept; these   *)
(* are the same for all builds here.  More chunks than dimensions are        *)
(* refused by the training, and nobody looks at what it returns.             *)
SkipsTraining(kind, opq, k) ==
    \/ k > Dim
    \/ kind # "buffer" /\ ~opq /\ Place(kind, opq, k) \in DOMAIN pivots

Centroid(rows, centred) ==
    IF centred THEN [d \in Dims |-> MapThenSumSet(LAMBDA i : rows[i][d], DOMAIN rows) \div Len(rows)] ELSE Zero

Begin(ask) ==
    LET kind == ask.kind
        base == ask.base
        k == IF kind = "disk" THEN Min({ask.k, Dim}) ELSE ask.k
        opq == ask.opq
        place == Place(kind, opq, k)
        sample == SetToSortSeq(Samples(base), <)
        mean == Centroid([i \in DOMAIN sample |-> base[sample[i]]], kind \notin {"buffer", "disk"} /\ ~ask.mips /\ ~opq)
    IN  /\ job = Idle
        /\ kind = "buffer" => ~opq /\ k <= Dim /\ Dim % k = 0
        /\ kind = "store" => k <= Dim
        /\ kind = "disk" => ~opq
        /\ builds' = builds + 1
        /\ job' = [phase |-> IF SkipsTraining(kind, opq, k) THEN "encode" ELSE "cut",
                   kind |-> kind, place |-> place, base |-> base, k |-> k, opq |-> opq,
                   trained |-> ~SkipsTraining(kind, opq, k),
                   centroid |-> mean, sample |-> [i \in DOMAIN sample |-> Minus(base[sample[i]], mean)],
                   round |-> 1, rot |-> [d \in Dims |-> [Zero EXCEPT ![d] = 1]],
                   offsets |-> IF k > Dim THEN <<>> ELSE ChunkOffsets(k), chunk |-> 1, rows |-> <<>>, seeds |-> <<>>,
                   centers |-> <<>>, closest |-> <<>>, rep |-> 0, residual |-> 0,
                   full |-> [j \in 1 .. NumCenters |-> Zero]]
        /\ table' = NoTable
        /\ UNCHANGED <<files, torn>>

ThisChunk == ChunkDims(job.offsets, job.chunk)

(* The rows of a chunk, rotated when there is a rotation.                    *)
CutChunk ==
    /\ job.phase = "cut"
    /\ job' = [job EXCEPT !.phase = IF job.round = 1 THEN "seed" ELSE "assign",
                          !.rows = [i \in DOMAIN job.sample |->
                                       Part(IF job.opq THEN Rotate(job.sample[i], job.rot) ELSE job.sample[i], ThisChunk)],
                          !.centers = IF job.round = 1 THEN <<>> ELSE Parts(job.full, ThisChunk),
                          !.seeds = <<>>, !.rep = 0, !.residual = 0]
    /\ UNCHANGED <<files, torn, table, builds>>

(* kmeanspp_selecting_pivots: one seed after the other, the first any point. *)
Seed ==
    /\ job.phase = "seed"
    /\ \E i \in IF job.seeds = <<>> THEN DOMAIN job.rows ELSE SeedChoices(job.rows, job.seeds) :
          job' = [job EXCEPT !.seeds = Append(@, i), !.centers = Append(@, job.rows[i]),
                             !.phase = IF Len(job.seeds) + 1 = NumCenters THEN "assign" ELSE "seed"]
    /\ UNCHANGED <<files, torn, table, builds>>

(* lloyds_iter within run_lloyds: closest centres, then means and residual.  *)
Assign ==
    /\ job.phase = "assign"
    /\ job' = [job EXCEPT !.closest = [i \in DOMAIN job.rows |-> ClosestCenter(job.rows[i], job.centers)],
                          !.phase = "move"]
    /\ UNCHANGED <<files, torn, table, builds>>

Move ==
    LET centers == [j \in DOMAIN job.centers |-> Mean(job.rows, Members(job.closest, j), ThisChunk)]
        residual == Residual(job.rows, centers, job.closest)
        reps == IF job.opq THEN 8 ELSE MaxReps
    IN  /\ job.phase = "move"
        /\ job' = [job EXCEPT !.centers = centers, !.residual = residual, !.rep = @ + 1,
                              !.phase = IF Settled(job.rep, job.residual, residual) \/ job.rep + 1 = reps
                                        THEN "join" ELSE "assign"]
        /\ UNCHANGED <<files, torn, table, builds>>

(* The centres of a chunk join the others.  Without OPQ the last chunk ends  *)
(* the training; with it the correlation of data and quantized data gives a  *)
(* new rotation, and the next round starts from the centres of this one.     *)
JoinChunk ==
    /\ job.phase = "join"
    /\ LET full == [j \in 1 .. NumCenters |->
                       [d \in Dims |-> IF d \in ThisChunk THEN job.centers[j][d] ELSE job.full[j][d]]]
           Trained(R) == [job EXCEPT !.full = full, !.rot = R, !.round = @ + 1, !.chunk = 1,
                                  !.phase = IF job.opq /\ job.round < OpqIters THEN "cut" ELSE "save"]
       IN  \/ job.chunk < job.k /\ job' = [job EXCEPT !.full = full, !.chunk = @ + 1, !.phase = "cut"]
           \/ job.chunk = job.k /\ job.opq /\ \E R \in Rotations : job' = Trained(R)
           \/ job.chunk = job.k /\ ~job.opq /\ job' = Trained(job.rot)
    /\ UNCHANGED <<files, torn, table, builds>>

(***************************************************************************)
(* The pivot file is written in parts, the table of offsets last, over      *)
(* what an older file of the name holds.                                    *)
(***************************************************************************)
SaveCenters ==
    LET old == IF job.place \in DOMAIN pivots THEN pivots[job.place]
               ELSE [centers |-> <<>>, centroid |-> Zero, offsets |-> <<>>, header |-> FALSE]
    IN  /\ job.phase = "save"
        /\ pivots' = Store(pivots, job.place, [old EXCEPT !.centers = job.full])
        /\ job' = [job EXCEPT !.phase = "rest"]
        /\ torn' = torn \cup {job.place}
        /\ UNCHANGED <<rotation, codes, table, builds>>

SaveRest ==
    /\ job.phase = "rest"
    /\ pivots' = Store(pivots, job.place, [centers |-> job.full, centroid |-> job.centroid,
                                           offsets |-> job.offsets, header |-> TRUE])
    /\ job' = [job EXCEPT !.phase = IF job.opq THEN "rotation" ELSE "encode"]
    /\ UNCHANGED <<rotation, codes, torn, table, builds>>

SaveRotation ==
    /\ job.phase = "rotation"
    /\ rotation' = Store(rotation, job.place, job.rot)
    /\ job' = [job EXCEPT !.phase = "encode"]
    /\ UNCHANGED <<pivots, codes, torn, table, builds>>

(***************************************************************************)
(* generate_pq_data_from_pivots reads the pivot file and writes the codes.  *)
(***************************************************************************)
PivotsFit(place, k) ==
    /\ place \in DOMAIN pivots
    /\ pivots[place].header
    /\ Len(pivots[place].offsets) = k + 1

(* A wrong variant: the data are not centred as the training data were.      *)
CodeUncentred(file, R, k, v) ==
    LET x == IF R = <<>> THEN v ELSE Rotate(v, R)
    IN  [c \in 1 .. k |-> LET D == ChunkDims(file.offsets, c)
                          IN  ClosestCenter(Part(x, D), Parts(file.centers, D))]
Code(file, R, k, v) ==
    LET y == Minus(v, file.centroid)
        x == IF R = <<>> THEN y ELSE Rotate(y, R)
    IN  [c \in 1 .. k |-> LET D == ChunkDims(file.offsets, c)
                          IN  ClosestCenter(Part(x, D), Parts(file.centers, D))]

Encode ==
    LET file == pivots[job.place]
        R == IF job.opq THEN rotation[job.place] ELSE <<>>
    IN  /\ job.phase = "encode" /\ PivotsFit(job.place, job.k)
        /\ codes' = Store(codes, job.place,
                          [k |-> job.k, base |-> job.base, opq |-> job.opq, trained |-> job.trained,
                           rows |-> [i \in DOMAIN job.base |-> Code(file, R, job.k, job.base[i])]])
        /\ job' = IF job.kind = "store" THEN [job EXCEPT !.phase = "load"] ELSE Idle
        /\ torn' = torn \ {job.place}
        /\ UNCHANGED <<pivots, rotation, table, builds>>

(* The file is missing, was cut off or has other chunks: an exception before *)
(* the old codes are touched.                                                *)
EncodeThrow ==
    /\ job.phase = "encode" /\ ~PivotsFit(job.place, job.k)
    /\ job' = Idle
    /\ UNCHANGED <<files, torn, table, builds>>

Crash ==
    /\ job # Idle
    /\ job' = Idle
    /\ UNCHANGED <<files, torn, table, builds>>

(***************************************************************************)
(* The table of a search: FixedChunkPQTable takes the rotation when there   *)
(* is a file of the name, PQL2Distance when it was told of OPQ.             *)
(***************************************************************************)
UsesRotation(place) == IF place[1] = "store" THEN place[2] ELSE place \in DOMAIN rotation
Table(place) ==
    IF PivotsFit(place, codes[place].k)
    THEN [place |-> place, file |-> pivots[place], codes |-> codes[place],
          rot |-> IF UsesRotation(place) THEN rotation[place] ELSE <<>>]
    ELSE NoTable

Load ==
    /\ job = Idle
    /\ \E place \in DOMAIN codes : table' = Table(place)
    /\ UNCHANGED <<files, job, torn, builds>>

LoadStore ==
    /\ job.phase = "load"
    /\ table' = Table(job.place)
    /\ job' = Idle
    /\ UNCHANGED <<files, torn, builds>>

Train == CutChunk \/ Seed \/ Assign \/ Move \/ JoinChunk
Write == SaveCenters \/ SaveRest \/ SaveRotation \/ Encode \/ EncodeThrow \/ LoadStore
Next ==
    \/ \E ask \in Requests(builds + 1) : Begin(ask)
    \/ Train \/ Write \/ Load \/ Crash

(* A build that is not cut off goes on.                                      *)
Spec == Init /\ [][Next]_vars /\ WF_vars(Train \/ Write)

(***************************************************************************)
(* Distances from the table.                                                *)
(***************************************************************************)
ChunksOf(t) == 1 .. t.codes.k
(* A wrong variant: the query is not centred.                                *)
PreprocessedRaw(t, q) == IF t.rot = <<>> THEN q ELSE Rotate(q, t.rot)
Preprocessed(t, q) ==
    LET y == Minus(q, t.file.centroid) IN IF t.rot = <<>> THEN y ELSE Rotate(y, t.rot)

PopulateChunk(t, x, Op(_, _)) ==
    [c \in ChunksOf(t) |->
        LET D == ChunkDims(t.file.offsets, c)
        IN  [j \in 1 .. NumCenters |-> Op(Part(x, D), Part(t.file.centers[j], D))]]
ChunkDistances(t, x) == PopulateChunk(t, x, SqDist)
ChunkInnerProducts(t, x) == PopulateChunk(t, x, LAMBDA v, w : -Dot(v, w))

(* aggregate_coords and pq_dist_lookup for one point.                        *)
Lookup(t, dists, code) == MapThenSumSet(LAMBDA c : dists[c][code[c]], ChunksOf(t))

Decoded(t, code) ==
    [d \in Dims |-> LET c == CHOOSE b \in ChunksOf(t) : d \in ChunkDims(t.file.offsets, b)
                    IN  t.file.centers[code[c]][d]]
Inflated(t, code) == [d \in Dims |-> Decoded(t, code)[d] + t.file.centroid[d]]

(***************************************************************************)
(* Properties.                                                              *)
(***************************************************************************)
(* What a search reads from the tables is the distance to the decoded        *)
(* vector, the same as l2_distance computes, and without a rotation the      *)
(* distance of the vectors themselves; for inner products as well, when      *)
(* nothing was centred.                                                      *)
DistancesAreDecoded ==
    table # NoTable =>
        \A q \in Queries, i \in DOMAIN table.codes.rows :
            LET code == table.codes.rows[i]
                x == Preprocessed(table, q)
                dist == Lookup(table, ChunkDistances(table, x), code)
            IN  /\ dist = SqDist(x, Decoded(table, code))
                /\ table.rot = <<>> => dist = SqDist(q, Inflated(table, code))
                /\ table.rot = <<>> /\ table.file.centroid = Zero =>
                     Lookup(table, ChunkInnerProducts(table, x), code) = -Dot(q, Inflated(table, code))

(* The table with the rotation its codes were made with: one loaded after a  *)
(* build without OPQ has the rotation an earlier build with it has left.     *)
OwnTable(t) == [t EXCEPT !.rot = IF t.codes.opq THEN @ ELSE <<>>]

(* The code of a point is the nearest there is for the pivots that a search  *)
(* loads with it, whatever was built before under the same names: pivots     *)
(* kept of other data, with or without a rotation.  A rotation that was left *)
(* over plays no part in it, but the search rotates its queries by it: see   *)
(* LoadsWhatWasAsked of DiskIndexFiles.  Of pivots that a build cut off has  *)
(* put beside older codes nothing is said until a build writes codes again.  *)
CodesAreNearest ==
    table # NoTable /\ table.place \notin torn =>
        LET t == OwnTable(table)
        IN  \A i \in DOMAIN t.codes.base :
                LET dists == ChunkDistances(t, Preprocessed(t, t.codes.base[i]))
                IN  \A c \in ChunksOf(t), j \in 1 .. NumCenters : dists[c][t.codes.rows[i][c]] <= dists[c][j]

(* Training ends: darts do not look for a fresh point for ever, iterations   *)
(* stop, and what is built is written or refused.                            *)
TrainingEnds == job # Idle ~> job = Idle
=============================================================================
