----------------------------- MODULE IndexGraph -----------------------------
(***************************************************************************)
(* The graph of a dynamic diskann::Index (src/src/index.cpp): how an       *)
(* insertion finds, links and back-links its point, and how a              *)
(* consolidation takes deleted points out of the adjacency lists, each     *)
(* list read and written under its own node lock.                          *)
(*                                                                         *)
(* Distances are abstracted: a greedy search may expand any set of points  *)
(* it can reach, and pruning keeps any non-empty choice of its candidates  *)
(* within the degree bound.  One action is one section under node locks.   *)
(***************************************************************************)
EXTENDS DynamicIndex

CONSTANTS
    NumFrozen,    \* _num_frozen_pts
    Setups,       \* the parameters an index may be made with: degree, slack, modes, callers
    Workers       \* threads of the parallel loop of consolidate_deletes

\* degree is _indexingRange, slack GRAPH_SLACK_FACTOR * _indexingRange, modes the
\* values of _conc_consolidate, and callers bounds the calls at one time.
ASSUME GraphAssumption ==
    /\ NumFrozen \in Nat \ {0}
    /\ \A s \in Setups : /\ s.degree \in Nat \ {0}
                         /\ s.slack \in Nat /\ s.slack >= s.degree
                         /\ s.modes \subseteq Modes
                         /\ s.callers \in Nat \ {0}
    /\ Workers \in Nat \ {0}

Frozen == MaxPoints .. MaxPoints + NumFrozen - 1
Nodes == Slots \cup Frozen

VARIABLES
    setup,             \* the parameters of this index
    neighbours,        \* _graph_store
    step,              \* where an insertion is between set_vector and its return
    found,             \* points an insertion's search has come upon
    pruned_list,       \* insert_point's candidates not yet back-linked
    des,               \* the neighbour inter_insert is pruning
    copy_of_neighbors, \* the copy of its list taken before pruning
    to_process,        \* locations the loops of consolidate_deletes have yet to visit
    shielded,          \* history: live points a consolidation must not cut off
    expanded           \* process_delete's new list of each location being processed

insertVars == <<step, found, pruned_list, des, copy_of_neighbors>>
consolidateVars == <<to_process, expanded, shielded>>
graphVars == <<neighbours, insertVars, consolidateVars>>
allVars == <<vars, setup, graphVars>>

Degree == setup.degree
SlackDegree == setup.slack

Nobody == -1
Steps == {"search", "set_neighbours", "inter_insert", "prune"}

\* Everything a search can expand from the nodes of S in the graph g.
Reachable(g, S) ==
    LET reach[i \in 0 .. Cardinality(Nodes)] ==
            IF i = 0 THEN S
            ELSE reach[i - 1] \cup UNION {g[x] : x \in reach[i - 1]}
    IN  reach[Cardinality(Nodes)]

\* occlude_list keeps the closest candidate and stops at the degree bound.
Prunings(pool) ==
    {S \in SUBSET pool : S # {} /\ Cardinality(S) <= Degree}

GraphInit ==
    /\ Init
    /\ setup \in Setups
    /\ conc_consolidate \in setup.modes
    /\ neighbours = [x \in Nodes |-> {}]
    /\ step = [th \in Threads |-> "search"]
    /\ found = [th \in Threads |-> Frozen]
    /\ pruned_list = [th \in Threads |-> {}]
    /\ des = [th \in Threads |-> Nobody]
    /\ copy_of_neighbors = [th \in Threads |-> {}]
    /\ to_process = {}
    /\ expanded = [x \in {} |-> {}]
    /\ shielded = {}

-----------------------------------------------------------------------------
\* Steps of DynamicIndex that leave the graph alone.
CanCall(th) == Cardinality({u \in Threads \ {th} : pc[u] # "idle"}) < setup.callers

SlotStep ==
    /\ \/ \E th \in Threads, t \in Tags : CanCall(th) /\ Insert(th, t)
       \/ \E th \in Threads : InsertSetVector(th)
       \/ \E t \in Tags : LazyDelete(t)
       \/ \E tags \in SUBSET Tags : LazyDeleteMany(tags)
       \/ \E th \in Threads :
            \/ (CanCall(th) /\ (ConsolidateRefused(th) \/ ConsolidateCheck(th)))
            \/ ConsolidateLockUpdate(th) \/ ConsolidateLockFail(th)
    /\ UNCHANGED graphVars

\* iterate_to_fixed_point expands one point at a time, under its node lock, in
\* an order the distances decide; the search starts from get_init_ids.
InsertExpand(th, x) ==
    /\ pc[th] = "link" /\ step[th] = "search"
    /\ x \in found[th]
    /\ found' = [found EXCEPT ![th] = @ \cup neighbours[x]]
    /\ UNCHANGED <<vars, neighbours, step, pruned_list, des, copy_of_neighbors, consolidateVars>>

\* search_for_point_and_prune: the point itself is erased from the pool.
InsertPrune(th) ==
    /\ pc[th] = "link" /\ step[th] = "search"
    /\ \E S \in Prunings(found[th] \ {location[th]}) :
          pruned_list' = [pruned_list EXCEPT ![th] = S]
    /\ found' = [found EXCEPT ![th] = Frozen]
    /\ step' = [step EXCEPT ![th] = "set_neighbours"]
    /\ UNCHANGED <<vars, neighbours, des, copy_of_neighbors, consolidateVars>>

\* With concurrent consolidation only links to tagged locations are kept.
InsertSetNeighbours(th) ==
    /\ step[th] = "set_neighbours"
    /\ neighbours' = [neighbours EXCEPT ![location[th]] =
                        {x \in pruned_list[th] : conc_consolidate => x \in LiveSlots}]
    /\ step' = [step EXCEPT ![th] = "inter_insert"]
    /\ UNCHANGED <<vars, found, pruned_list, des, copy_of_neighbors, consolidateVars>>

\* Faulty variant: the back-link is added to a list that is already full.
InterInsertAddAlways(th, d) ==
    /\ step[th] = "inter_insert"
    /\ d \in pruned_list[th]
    /\ neighbours' = [neighbours EXCEPT ![d] = @ \cup {location[th]}]
    /\ pruned_list' = [pruned_list EXCEPT ![th] = @ \ {d}]
    /\ UNCHANGED <<vars, step, found, des, copy_of_neighbors, consolidateVars>>

\* inter_insert: the back-link exists or fits.
InterInsertAdd(th, d) ==
    /\ step[th] = "inter_insert"
    /\ d \in pruned_list[th]
    /\ location[th] \in neighbours[d] \/ Cardinality(neighbours[d]) < SlackDegree
    /\ neighbours' = [neighbours EXCEPT ![d] = @ \cup {location[th]}]
    /\ pruned_list' = [pruned_list EXCEPT ![th] = @ \ {d}]
    /\ UNCHANGED <<vars, step, found, des, copy_of_neighbors, consolidateVars>>

\* inter_insert: the list is full; it is copied and its lock released.
InterInsertCopy(th, d) ==
    /\ step[th] = "inter_insert"
    /\ d \in pruned_list[th]
    /\ location[th] \notin neighbours[d] /\ Cardinality(neighbours[d]) >= SlackDegree
    /\ des' = [des EXCEPT ![th] = d]
    /\ copy_of_neighbors' = [copy_of_neighbors EXCEPT ![th] = neighbours[d] \cup {location[th]}]
    /\ pruned_list' = [pruned_list EXCEPT ![th] = @ \ {d}]
    /\ step' = [step EXCEPT ![th] = "prune"]
    /\ UNCHANGED <<vars, neighbours, found, consolidateVars>>

\* ... and the pruned copy overwrites whatever the list holds by then.
InterInsertPrune(th) ==
    /\ step[th] = "prune"
    /\ \E S \in Prunings(copy_of_neighbors[th] \ {des[th]}) :
          neighbours' = [neighbours EXCEPT ![des[th]] = S]
    /\ des' = [des EXCEPT ![th] = Nobody]
    /\ copy_of_neighbors' = [copy_of_neighbors EXCEPT ![th] = {}]
    /\ step' = [step EXCEPT ![th] = "inter_insert"]
    /\ UNCHANGED <<vars, found, pruned_list, consolidateVars>>

InsertDone(th) ==
    /\ step[th] = "inter_insert" /\ pruned_list[th] = {}
    /\ InsertReturn(th)
    /\ step' = [step EXCEPT ![th] = "search"]
    /\ UNCHANGED <<neighbours, found, pruned_list, des, copy_of_neighbors, consolidateVars>>

-----------------------------------------------------------------------------
\* What a search finds without expanding two points of old one after the other.
ReachableAcross(old) ==
    Reachable([x \in Nodes |-> IF x \in old THEN neighbours[x] \ old ELSE neighbours[x]], Frozen)

\* consolidate_deletes, after the swap: every location outside the old set.
StartProcessing(th) ==
    /\ ConsolidateStart(th)
    /\ to_process' = Nodes \ delete_set
    /\ shielded' = LiveSlots \cap ReachableAcross(delete_set)
    /\ UNCHANGED <<neighbours, insertVars, expanded>>

\* The frozen points come after the loop over the slots, one at a time.
Turn(loc) ==
    /\ loc \in to_process
    /\ Cardinality(DOMAIN expanded) < IF loc \in Frozen THEN 1 ELSE Workers
    /\ loc \in Frozen => to_process \cap Slots = {}

\* A free slot is passed over; what is free is read without _tag_lock.
ProcessSkip(th, loc) ==
    /\ pc[th] = "process"
    /\ Turn(loc)
    /\ loc \in empty_slots
    /\ to_process' = to_process \ {loc}
    /\ UNCHANGED <<vars, neighbours, insertVars, expanded, shielded>>

\* Faulty variants: deleted second-order neighbours are taken over; the location
\* itself is; second-order neighbours are forgotten.
ExpandedNodesDeleted(loc, old) ==
    (neighbours[loc] \ old) \cup
    UNION {neighbours[ngh] \ {loc} : ngh \in neighbours[loc] \cap old}

ExpandedNodesFirstOrder(loc, old) == neighbours[loc] \ old

\* process_delete: neighbours that stay, and the neighbours of those that go.
ExpandedNodes(loc, old) ==
    (neighbours[loc] \ old) \cup
    UNION {neighbours[ngh] \ (old \cup {loc}) : ngh \in neighbours[loc] \cap old}

ProcessUnmodified(th, loc) ==
    /\ pc[th] = "process"
    /\ Turn(loc)
    /\ loc \notin empty_slots
    /\ neighbours[loc] \cap old_delete_set[th] = {}
    /\ to_process' = to_process \ {loc}
    /\ UNCHANGED <<vars, neighbours, insertVars, expanded, shielded>>

\* The list of loc and those of its deleted neighbours are read under one node
\* lock after another; here they are read at once.
ProcessRead(th, loc) ==
    /\ pc[th] = "process"
    /\ Turn(loc)
    /\ loc \notin empty_slots
    /\ neighbours[loc] \cap old_delete_set[th] # {}
    /\ to_process' = to_process \ {loc}
    /\ expanded' = [x \in DOMAIN expanded \cup {loc} |->
                      IF x = loc THEN ExpandedNodes(loc, old_delete_set[th]) ELSE expanded[x]]
    /\ UNCHANGED <<vars, neighbours, insertVars, shielded>>

\* The new list replaces the current one, pruned when it is too long.
ProcessWrite(th, loc) ==
    /\ pc[th] = "process"
    /\ loc \in DOMAIN expanded
    /\ \E S \in IF Cardinality(expanded[loc]) <= Degree
                THEN {expanded[loc]} ELSE Prunings(expanded[loc]) :
          neighbours' = [neighbours EXCEPT ![loc] = S]
    /\ expanded' = [x \in DOMAIN expanded \ {loc} |-> expanded[x]]
    /\ UNCHANGED <<vars, insertVars, to_process, shielded>>

ReleaseProcessed(th) ==
    /\ to_process = {} /\ DOMAIN expanded = {}
    /\ ConsolidateRelease(th)
    /\ UNCHANGED graphVars

ReturnProcessed(th) ==
    /\ ConsolidateReturn(th)
    /\ shielded' = {}
    /\ UNCHANGED <<neighbours, insertVars, to_process, expanded>>

-----------------------------------------------------------------------------
GraphNext ==
    /\ UNCHANGED <<conc_consolidate, setup>>
    /\ \/ SlotStep
       \/ \E th \in Threads :
           \/ InsertPrune(th) \/ InsertSetNeighbours(th) \/ InsertDone(th)
           \/ \E x \in Nodes : InsertExpand(th, x)
           \/ \E d \in Nodes : InterInsertAdd(th, d) \/ InterInsertCopy(th, d)
           \/ InterInsertPrune(th)
           \/ StartProcessing(th) \/ ReleaseProcessed(th) \/ ReturnProcessed(th)
           \/ \E loc \in Nodes :
               \/ ProcessSkip(th, loc) \/ ProcessUnmodified(th, loc)
               \/ ProcessRead(th, loc) \/ ProcessWrite(th, loc)

GraphSpec == GraphInit /\ [][GraphNext]_allVars

-----------------------------------------------------------------------------
\* The graph's variables have the types the code declares for them.
GraphTypeOK ==
    /\ neighbours \in [Nodes -> SUBSET Nodes]
    /\ step \in [Threads -> Steps]
    /\ found \in [Threads -> SUBSET Nodes]
    /\ pruned_list \in [Threads -> SUBSET Nodes]
    /\ des \in [Threads -> Nodes \cup {Nobody}]
    /\ copy_of_neighbors \in [Threads -> SUBSET Nodes]
    /\ to_process \subseteq Nodes
    /\ shielded \subseteq Slots
    /\ DOMAIN expanded \subseteq Nodes
    /\ \A loc \in DOMAIN expanded : expanded[loc] \subseteq Nodes

\* A location whose insertion has not yet stored its list still holds the list
\* of the point that had the slot before.
Unlinked ==
    {location[th] : th \in {u \in Threads :
        \/ pc[u] = "set_vector"
        \/ pc[u] = "link" /\ step[u] \in {"search", "set_neighbours"}}}

Linked == (Nodes \ empty_slots) \ Unlinked

\* No point in use has an edge to a slot in _empty_slots: a slot is released
\* only after every list that named it has been rewritten, and no insertion
\* brings the edge back.
NoDanglingEdge ==
    \A x \in Linked : neighbours[x] \cap empty_slots = {}

\* Without concurrent consolidation that holds in every state.
NoDanglingEdgeSync == ~conc_consolidate => NoDanglingEdge

\* A list never outgrows the slack bound and never names its own location,
\* however insertions and process_delete overwrite each other's lists.
ListsWellFormed ==
    \A x \in Linked : /\ Cardinality(neighbours[x]) <= SlackDegree
                      /\ x \notin neighbours[x]

\* Replacing deleted neighbours by second-order ones cuts off no live point that
\* was within reach without passing two deleted points in a row, as long as no
\* list has to be pruned.
ConsolidationKeepsReach ==
    \A th \in Threads :
        /\ ~conc_consolidate
        /\ Degree >= Cardinality(Nodes)
        /\ pc[th] = "return_report"
        => shielded \subseteq Reachable(neighbours, Frozen)
=============================================================================
