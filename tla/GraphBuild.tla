----------------------------- MODULE GraphBuild -----------------------------
(* The build of a static index and searches of it: build_filtered_index,     *)
(* generate_frozen_point, link with its parallel loop, search,               *)
(* search_with_filters and search_with_optimized_layout (src/index.cpp).  Each worker of the loop searches    *)
(* the growing graph for its node, one expanded node a step, publishes the   *)
(* pruned list and adds the back links of inter_insert, while the others do  *)
(* the same: what happens under one hold of a node's lock is one step.       *)
EXTENDS CandidateSearch

CONSTANTS
    Layouts,    \* the data files, with labels, that may be built
    LidFiles,   \* the local dimensions that may be given: a sequence, empty for no file
    AlphaMin,   \* the range alphas are spread over, in hundredths
    AlphaMax,
    Workers,    \* the threads of the parallel loop
    ListSize,   \* _indexingQueueSize, _filterIndexingQueueSize and a search's L
    K,          \* how many answers a search wants
    Queries     \* the places searches ask for

VARIABLES store, alpha_table, start, label_to_start_id, graph, phase, counter, work, query
setupVars == <<store, alpha_table, start, label_to_start_id>>
vars == <<setupVars, graph, phase, counter, work, query>>

FrozenRow == store.capacity
NoFilter == {}      \* a search with a filter has the set of its one sequence of labels
Rows == DOMAIN store.coord
AllLabels == UNION {ToSet(store.labels[r]) : r \in DOMAIN store.labels}
VisitOrder == [i \in 1 .. store.nd |-> i - 1] \o [i \in 1 .. store.frozen |-> FrozenRow]
Idle == [pc |-> "idle"]

(* The linear mapping of InitMCGIContext; equal dimensions all get the       *)
(* least alpha.  A row without an entry, the frozen one too, gets 1.2.       *)
AlphaTable(lids) ==
    LET lo == Min(ToSet(lids))
        hi == Max(ToSet(lids))
    IN  [i \in DOMAIN lids |->
            IF hi = lo THEN AlphaMin
            ELSE AlphaMin + ((lids[i] - lo) * (AlphaMax - AlphaMin)) \div (hi - lo)]
GlobalAlpha(n) == IF n + 1 \in DOMAIN alpha_table THEN alpha_table[n + 1] ELSE 120

(* A layout has every row of the data store: those from nd on are what the   *)
(* data file has beyond the points to load, or the zeros of a new store, as  *)
(* the frozen row is.                                                        *)
Init ==
    /\ store \in Layouts
    /\ alpha_table \in {AlphaTable(lids) : lids \in LidFiles}
    /\ start = 0
    /\ label_to_start_id = <<>>
    /\ graph = [r \in Rows |-> <<>>]
    /\ phase = "load"
    /\ counter = 1
    /\ work = [w \in Workers |-> Idle]
    /\ query = [pc |-> "none"]

(***************************************************************************)
(* Starting points.                                                         *)
(***************************************************************************)
PointsOfLabel(l) ==
    {r \in 0 .. store.nd - 1 : ToSet(store.labels[r]) \cap {l, Universal} # {}}

(* build_filtered_index draws 25 times from the points of each label; any    *)
(* one of them may be the only one drawn.                                    *)
Prepare ==
    /\ phase = "load"
    /\ label_to_start_id' \in
           {f \in [IF store.filtered THEN AllLabels ELSE {} -> Rows] :
                \A l \in DOMAIN f : f[l] \in PointsOfLabel(l)}
    /\ LET medoid == CalculateMedoid(store.coord)
       IN  IF store.frozen = 0
           THEN start' = medoid /\ UNCHANGED store
           ELSE start' = FrozenRow /\ store' = [store EXCEPT !.coord[FrozenRow] = store.coord[medoid]]
    /\ phase' = "link"
    /\ UNCHANGED <<alpha_table, graph, counter, work, query>>

(***************************************************************************)
(* iterate_to_fixed_point.                                                  *)
(***************************************************************************)
InitIds == <<start>> \o [i \in 1 .. IF store.frozen = 1 /\ start # FrozenRow THEN 1 ELSE 0 |-> FrozenRow]
Admitted(ids, filter, searching) ==
    SelectSeq(ids, LAMBDA id : \A f \in filter : DetectCommonFilters(store.labels[id], searching, f))
Distinct(ids) == FoldLeft(LAMBDA acc, id : IF Contains(acc, id) THEN acc ELSE Append(acc, id), <<>>, ids)

Search(place, filter, ids, searching) ==
    LET from == Distinct(Admitted(ids, filter, searching))
    IN  [place |-> place, filter |-> filter, searching |-> searching, visited |-> ToSet(from),
         queue |-> Offer(EmptyQueue(ListSize), store.coord, place, from), pool |-> <<>>]

Unvisited(s) ==
    SelectSeq(Admitted(graph[ClosestUnexpanded(s.queue).id], s.filter, s.searching),
              LAMBDA id : id \notin s.visited)
Expanded(s) ==
    LET nbr == ClosestUnexpanded(s.queue)
        ids == Unvisited(s)
    IN  [s EXCEPT !.visited = @ \cup ToSet(ids),
                  !.queue = Offer(Advance(s.queue), store.coord, s.place, ids),
                  !.pool = IF s.searching THEN @ ELSE Append(@, [nbr EXCEPT !.expanded = TRUE])]

(***************************************************************************)
(* link.                                                                    *)
(***************************************************************************)
Unfiltered(n) == Search(store.coord[n], NoFilter, InitIds, FALSE)
OfLabels(n) ==
    LET labels == store.labels[n]
    IN  Search(store.coord[n], {labels}, [i \in DOMAIN labels |-> label_to_start_id[labels[i]]], FALSE)

TakeNode(w) ==
    /\ phase = "link" /\ work[w].pc = "idle" /\ counter <= Len(VisitOrder)
    /\ LET n == VisitOrder[counter]
       IN  work' = [work EXCEPT ![w] =
               [pc |-> IF store.filtered THEN "filtered" ELSE "search", node |-> n, found |-> {},
                s |-> IF store.filtered THEN OfLabels(n) ELSE Unfiltered(n)]]
    /\ counter' = counter + 1
    /\ UNCHANGED <<setupVars, graph, phase, query>>

Expand(w) ==
    /\ work[w].pc \in {"filtered", "search"} /\ HasUnexpanded(work[w].s.queue)
    /\ work' = [work EXCEPT ![w].s = Expanded(@)]
    /\ UNCHANGED <<setupVars, graph, phase, counter, query>>

(* The second, unfiltered search of search_for_point_and_prune.              *)
SearchAgain(w) ==
    /\ work[w].pc = "filtered" /\ ~HasUnexpanded(work[w].s.queue)
    /\ work' = [work EXCEPT ![w].pc = "search", ![w].found = ToSet(work[w].s.pool),
                            ![w].s = Unfiltered(work[w].node)]
    /\ UNCHANGED <<setupVars, graph, phase, counter, query>>

Pool(w) ==
    LET all == work[w].found \cup ToSet(work[w].s.pool)
    IN  SetToSortSeq({m \in all : m.id # work[w].node}, Less)
PrunedList(w, pool) ==
    LET list == PruneNeighbors(store, work[w].node, pool, GlobalAlpha(work[w].node))
    IN  CASE list # <<>> -> list
          [] list = <<>> /\ pool # <<>> -> <<pool[1].id>>
          [] list = <<>> /\ pool = <<>> -> <<start>>

(* set_neighbours replaces the list, with the back links others put there.   *)
Publish(w) ==
    /\ work[w].pc = "search" /\ ~HasUnexpanded(work[w].s.queue)
    /\ LET n == work[w].node
           list == PrunedList(w, Pool(w))
       IN  /\ graph' = [graph EXCEPT ![n] = list]
           /\ work' = [work EXCEPT ![w] = [pc |-> "back", node |-> n, pool |-> Pool(w), list |-> list, rest |-> list]]
    /\ UNCHANGED <<setupVars, phase, counter, query>>

AfterBackLink(w) == IF Len(work[w].rest) = 1 THEN Idle
                    ELSE [work[w] EXCEPT !.pc = "back", !.rest = Tail(@)]

(* The first lock of inter_insert: the link is there, fits or needs pruning. *)
BackLink(w) ==
    /\ work[w].pc = "back"
    /\ LET n == work[w].node
           des == Head(work[w].rest)
           fits == Len(graph[des]) < SlackDegree
       IN  \/ /\ Contains(graph[des], n)
              /\ work' = [work EXCEPT ![w] = AfterBackLink(w)]
              /\ UNCHANGED graph
           \/ /\ ~Contains(graph[des], n) /\ fits
              /\ graph' = [graph EXCEPT ![des] = Append(@, n)]
              /\ work' = [work EXCEPT ![w] = AfterBackLink(w)]
           \/ /\ ~Contains(graph[des], n) /\ ~fits
              /\ work' = [work EXCEPT ![w] = [pc |-> "prune", node |-> n, rest |-> work[w].rest,
                                               pool |-> work[w].pool, list |-> work[w].list,
                                               copy |-> Append(graph[des], n)]]
              /\ UNCHANGED graph
    /\ UNCHANGED <<setupVars, phase, counter, query>>

(* A wrong variant: an alpha below one, with which no round is made.         *)
RepruneLow(n, ids) ==
    LET others == Distinct(SelectSeq(ids, LAMBDA id : id # n))
    IN  PruneNeighbors(store, n, AsPool(store.coord, store.coord[n], others), 90)
Repruned(n, ids) ==
    LET others == Distinct(SelectSeq(ids, LAMBDA id : id # n))
    IN  PruneNeighbors(store, n, AsPool(store.coord, store.coord[n], others), GlobalAlpha(n))

(* The second lock: what was added since the copy is lost.                   *)
BackPrune(w) ==
    /\ work[w].pc = "prune"
    /\ LET des == Head(work[w].rest)
       IN  graph' = [graph EXCEPT ![des] = Repruned(des, work[w].copy)]
    /\ work' = [work EXCEPT ![w] = AfterBackLink(w)]
    /\ UNCHANGED <<setupVars, phase, counter, query>>

(* The loop's barrier, and the clean-up of the lists that grew too long.     *)
StartCleanup ==
    /\ phase = "link" /\ counter > Len(VisitOrder) /\ \A w \in Workers : work[w].pc = "idle"
    /\ phase' = "cleanup" /\ counter' = 1
    /\ UNCHANGED <<setupVars, graph, work, query>>

TooLong(n) == Len(graph[n]) > MaxDegree
CleanUp ==
    /\ phase = "cleanup" /\ counter <= Len(VisitOrder)
    /\ LET n == VisitOrder[counter]
       IN  graph' = IF TooLong(n) THEN [graph EXCEPT ![n] = Repruned(n, @)] ELSE graph
    /\ counter' = counter + 1
    /\ UNCHANGED <<setupVars, phase, work, query>>

EndBuild ==
    /\ phase = "cleanup" /\ counter > Len(VisitOrder)
    /\ phase' = "built"
    /\ UNCHANGED <<setupVars, graph, counter, work, query>>

(***************************************************************************)
(* search and search_with_filters of the built index.                       *)
(***************************************************************************)
Ask ==
    /\ phase = "built" /\ query.pc \in {"none", "answered"}
    /\ \E place \in Queries :
           \/ query' = [pc |-> "asked", s |-> Search(place, NoFilter, InitIds, TRUE)]
           \/ \E l \in DOMAIN label_to_start_id :
                  query' = [pc |-> "asked",
                            s |-> Search(place, {<<l>>}, Append(InitIds, label_to_start_id[l]), TRUE)]
    /\ UNCHANGED <<setupVars, graph, phase, counter, work>>

(* optimize_index_layout moves vectors and lists to a layout of its own and  *)
(* clears the graph store: only the searches made for it can follow.  It is  *)
(* for plain indexes; its offsets leave no place for a frozen row.           *)
OptimizeIndexLayout ==
    /\ phase = "built" /\ query.pc # "asked" /\ ~store.filtered /\ store.frozen = 0
    /\ phase' = "optimized"
    /\ UNCHANGED <<setupVars, graph, counter, work, query>>

(* Its search starts from neighbours of the start, as many as the queue is   *)
(* long, and fills up with rows drawn at random, none twice.  With fewer     *)
(* rows than that it would draw for ever.                                    *)
FastIds ==
    LET near == SubSeq(graph[start], 1, Min({ListSize, Len(graph[start])}))
    IN  {near \o SetToSeq(drawn) : drawn \in kSubset(ListSize - Len(near), (0 .. store.nd - 1) \ ToSet(near))}
AskFast ==
    /\ phase = "optimized" /\ query.pc \in {"none", "answered"} /\ ListSize <= store.nd
    /\ \E place \in Queries, ids \in FastIds :
           query' = [pc |-> "asked", s |-> Search(place, NoFilter, ids, TRUE)]
    /\ UNCHANGED <<setupVars, graph, phase, counter, work>>

AskExpand ==
    /\ query.pc = "asked" /\ HasUnexpanded(query.s.queue)
    /\ query' = [query EXCEPT !.s = Expanded(@)]
    /\ UNCHANGED <<setupVars, graph, phase, counter, work>>

(* The frozen row is left out of the answers.                                *)
Answers(q) ==
    LET ids == SelectSeq(Ids(q.data), LAMBDA id : id < store.capacity)
    IN  SubSeq(ids, 1, Min({K, Len(ids)}))
Answer ==
    /\ query.pc = "asked" /\ ~HasUnexpanded(query.s.queue)
    /\ query' = [pc |-> "answered", s |-> query.s, indices |-> Answers(query.s.queue)]
    /\ UNCHANGED <<setupVars, graph, phase, counter, work>>

WorkerNext(w) ==
    TakeNode(w) \/ Expand(w) \/ SearchAgain(w) \/ Publish(w) \/ BackLink(w) \/ BackPrune(w)
Questions == Ask \/ AskFast
BuildNext == Prepare \/ (\E w \in Workers : WorkerNext(w)) \/ StartCleanup \/ CleanUp \/ EndBuild \/ OptimizeIndexLayout
QueryNext == AskExpand \/ Answer
Next == BuildNext \/ Questions \/ QueryNext

Spec == Init /\ [][Next]_vars
-----------------------------------------------------------------------------
(* What the searches of the build and of callers must have.                  *)
Searches ==
    {work[w].s : w \in {v \in Workers : work[v].pc \in {"filtered", "search"}}}
        \cup (IF query.pc = "asked" THEN {query.s} ELSE {})
Nodes == ToSet(VisitOrder)

(* The queue, filled by a binary search that looks at some ids only and cut  *)
(* at its capacity as it goes, holds exactly the nearest of all nodes the    *)
(* search has come across, nearest first and each once.                      *)
QueueHoldsNearest ==
    \A s \in Searches :
        LET met == SetToSortSeq(ToSet(AsPool(store.coord, s.place, SetToSeq(s.visited))), Less)
        IN  Ids(s.queue.data) = SubSeq(Ids(met), 1, Min({ListSize, Len(met)}))

(* occlude_list against its purpose: a candidate that was looked at and is   *)
(* not kept, in a list that had room for it, is close to a kept node that is *)
(* nearer by more than the last round's factor and has all of its labels.    *)
LastRound(n) == Max({a \in ToSet(Rounds) : a <= GlobalAlpha(n)})
Covers(n, k, c) ==
    /\ Less(AsNeighbor(store.coord, store.coord[n], k), AsNeighbor(store.coord, store.coord[n], c))
    /\ Ratio(Dist(store.coord[n], store.coord[c]), Dist(store.coord[k], store.coord[c])) > LastRound(n)
    /\ store.filtered => ToSet(store.labels[c]) \subseteq ToSet(store.labels[k])
PrunedCandidatesCovered ==
    \A w \in Workers :
        work[w].pc \in {"back", "prune"} =>
            LET n == work[w].node
                list == ToSet(work[w].list)
            IN  /\ work[w].pool # <<>> => work[w].pool[1].id \in list
                /\ \A c \in ToSet(Ids(Truncated(work[w].pool))) \ list :
                       Len(work[w].list) < MaxDegree => \E k \in list : Covers(n, k, c)

(* No step of the build takes a node's last neighbour: a list that is        *)
(* replaced is replaced by one that still leads somewhere.                   *)
NeverCutOff == [][\A n \in DOMAIN graph : graph[n] # <<>> => graph'[n] # <<>>]_vars

(* Why a build and a search end, whatever order the workers are scheduled    *)
(* in: every step but a new question lowers this bound on the steps left.    *)
(* A search comes across each node once, and expands what it comes across.   *)
SearchLeft(s) ==
    2 * Cardinality(DOMAIN graph \ s.visited)
        + Cardinality({i \in DOMAIN s.queue.data : ~s.queue.data[i].expanded})
WorkLeft(w) ==
    CASE work[w].pc = "idle" -> 0
      [] work[w].pc = "filtered" -> 300 + SearchLeft(work[w].s)
      [] work[w].pc = "search" -> 200 + SearchLeft(work[w].s)
      [] work[w].pc = "back" -> 100 + 2 * Len(work[w].rest)
      [] work[w].pc = "prune" -> 99 + 2 * Len(work[w].rest)
PhaseLeft ==
    CASE phase = "load" -> 4 [] phase = "link" -> 3 [] phase = "cleanup" -> 2
      [] phase = "built" -> 1 [] phase = "optimized" -> 0
QueryLeft == IF query.pc = "asked" THEN 1 + SearchLeft(query.s) ELSE 0
StepsLeft ==
    100000 * PhaseLeft + 1000 * (Len(VisitOrder) + 1 - counter)
        + MapThenSumSet(WorkLeft, Workers) + QueryLeft
NewQuestion == query.pc # "asked" /\ query'.pc = "asked"
BuildAdvances == [][~NewQuestion => StepsLeft' < StepsLeft]_vars
=============================================================================
