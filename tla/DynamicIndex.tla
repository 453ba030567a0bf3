---------------------------- MODULE DynamicIndex ----------------------------
(***************************************************************************)
(* Locations, tags and the vectors of a dynamic, unfiltered diskann::Index *)
(* (src/src/index.cpp): insert_point, lazy_delete and consolidate_deletes  *)
(* called by concurrent threads.  Its graph is the subject of IndexGraph.  *)
(*                                                                         *)
(* _tag_lock and _delete_lock are taken and released inside one action     *)
(* each: a section that holds them reads and writes only what they guard.  *)
(* _update_lock and _consolidate_lock are held across actions and are      *)
(* variables.  A frozen point (the start of every search) lives at a       *)
(* location >= _max_points, outside Slots, and never enters these sets.    *)
(***************************************************************************)
EXTENDS Integers, FiniteSets

CONSTANTS
    Tags,             \* tags callers insert and delete; tag 0 is refused by insert_point
    NoTag,            \* a location without an entry in _location_to_tag
    Threads,          \* threads calling insert_point and consolidate_deletes
    NoThread,         \* nobody holds _consolidate_lock
    MaxPoints,        \* _max_points
    Modes             \* values of _conc_consolidate an index may be built with

ASSUME ParameterAssumption ==
    /\ NoTag \notin Tags
    /\ NoThread \notin Threads
    /\ MaxPoints \in Nat \ {0}
    /\ Modes \subseteq BOOLEAN

Slots == 0 .. MaxPoints - 1
NoLocation == -1

VARIABLES
    conc_consolidate, \* _conc_consolidate, fixed at construction
    nd,               \* _nd
    empty_slots,      \* _empty_slots
    delete_set,       \* *_delete_set
    tag_to_location,  \* _tag_to_location, NoLocation where there is no entry
    location_to_tag,  \* _location_to_tag, NoTag where there is no entry
    data_compacted,   \* _data_compacted
    data_store,       \* the tag whose vector a location holds
    update_shared,    \* threads holding _update_lock shared across actions
    update_exclusive, \* threads holding _update_lock exclusively
    consolidate_lock, \* holder of _consolidate_lock
    pc,               \* where each thread is
    location,         \* insert_point's local location
    tag,              \* insert_point's argument
    old_delete_set,   \* consolidate_deletes' local set of locations
    outcome           \* what the last call that took effect answers

slotVars == <<nd, empty_slots, delete_set, tag_to_location, location_to_tag, data_compacted>>
lockVars == <<update_shared, update_exclusive, consolidate_lock>>
localVars == <<location, tag, old_delete_set>>
vars == <<conc_consolidate, slotVars, data_store, lockVars, pc, localVars, outcome>>

InsertSteps == {"set_vector", "link"}
ConsolidateSteps == {"lock_update", "try_lock", "process", "return_report"}

Reply(op, t, ret) == [op |-> op, tag |-> t, ret |-> ret]

LiveSlots == {l \in Slots : location_to_tag[l] # NoTag}
LiveTags == {t \in Tags : tag_to_location[t] # NoLocation}

-----------------------------------------------------------------------------
\* enable_delete: every slot from the n-th on is empty.
EnableDelete(n) == n .. MaxPoints - 1

\* Constructor of a dynamic index, which calls enable_delete.
Init ==
    /\ conc_consolidate \in Modes
    /\ nd = 0
    /\ empty_slots = EnableDelete(0)
    /\ delete_set = {}
    /\ tag_to_location = [t \in Tags |-> NoLocation]
    /\ location_to_tag = [l \in Slots |-> NoTag]
    /\ data_compacted = TRUE
    /\ data_store = [l \in Slots |-> NoTag]
    /\ update_shared = {}
    /\ update_exclusive = {}
    /\ consolidate_lock = NoThread
    /\ pc = [th \in Threads |-> "idle"]
    /\ location = [th \in Threads |-> NoLocation]
    /\ tag = [th \in Threads |-> NoTag]
    /\ old_delete_set = [th \in Threads |-> {}]
    /\ outcome = Reply("none", NoTag, "0")

-----------------------------------------------------------------------------
\* insert_point, reserve_location and release_location.  pop_any promises any
\* element of _empty_slots; the branch on an empty set is the code's fallback.
Reservable ==
    IF data_compacted /\ empty_slots = {} THEN {nd} ELSE empty_slots

ReserveLocation(l) ==
    /\ nd < MaxPoints
    /\ l \in Reservable
    /\ empty_slots' = empty_slots \ {l}
    /\ delete_set' = delete_set \ (empty_slots \cap {l})
    /\ nd' = nd + 1

\* EXPAND_IF_FULL is 0: a full index refuses the point.
InsertFull(th, t) ==
    /\ pc[th] = "idle"
    /\ update_exclusive = {}
    /\ nd >= MaxPoints
    /\ outcome' = Reply("insert", t, "-1")
    /\ UNCHANGED <<slotVars, data_store, lockVars, pc, localVars>>

\* Faulty variant: the early return forgets to give the location back.
InsertDuplicateLeak(th, t) ==
    /\ pc[th] = "idle"
    /\ update_exclusive = {}
    /\ tag_to_location[t] # NoLocation
    /\ \E l \in Reservable : ReserveLocation(l)
    /\ outcome' = Reply("insert", t, "-1")
    /\ UNCHANGED <<tag_to_location, location_to_tag, data_compacted,
                   data_store, lockVars, pc, localVars>>

\* The location is reserved before the tag is looked up, and given back.
InsertDuplicate(th, t) ==
    /\ pc[th] = "idle"
    /\ update_exclusive = {}
    /\ nd < MaxPoints
    /\ tag_to_location[t] # NoLocation
    /\ \E l \in Reservable :
        /\ empty_slots' = empty_slots \cup {l}
        /\ delete_set' = delete_set \ (empty_slots \cap {l})
    /\ outcome' = Reply("insert", t, "-1")
    /\ UNCHANGED <<nd, tag_to_location, location_to_tag, data_compacted,
                   data_store, lockVars, pc, localVars>>

\* The tag goes into both maps while _tag_lock is still held.
RegisterPoint(th, t) ==
    /\ pc[th] = "idle"
    /\ update_exclusive = {}
    /\ \E l \in Reservable :
        /\ ReserveLocation(l)
        /\ tag_to_location' = [tag_to_location EXCEPT ![t] = l]
        /\ location_to_tag' = [location_to_tag EXCEPT ![l] = t]
        /\ location' = [location EXCEPT ![th] = l]
    /\ tag' = [tag EXCEPT ![th] = t]
    /\ update_shared' = update_shared \cup {th}
    /\ pc' = [pc EXCEPT ![th] = "set_vector"]
    /\ outcome' = Reply("insert", t, "0")
    /\ UNCHANGED <<data_compacted, data_store, update_exclusive, consolidate_lock, old_delete_set>>

\* Faulty variant: a tag already present is registered again.
InsertReserveAgain(th, t) == RegisterPoint(th, t)

InsertReserve(th, t) == tag_to_location[t] = NoLocation /\ RegisterPoint(th, t)

\* _data_store->set_vector, under neither _tag_lock nor _delete_lock.
InsertSetVector(th) ==
    /\ pc[th] = "set_vector"
    /\ data_store' = [data_store EXCEPT ![location[th]] = tag[th]]
    /\ pc' = [pc EXCEPT ![th] = "link"]
    /\ UNCHANGED <<slotVars, lockVars, localVars, outcome>>

\* The rest of insert_point edits the graph, then the shared lock goes.
InsertReturn(th) ==
    /\ pc[th] = "link"
    /\ update_shared' = update_shared \ {th}
    /\ pc' = [pc EXCEPT ![th] = "idle"]
    /\ location' = [location EXCEPT ![th] = NoLocation]
    /\ tag' = [tag EXCEPT ![th] = NoTag]
    /\ UNCHANGED <<slotVars, data_store, update_exclusive, consolidate_lock, old_delete_set, outcome>>

-----------------------------------------------------------------------------
\* Faulty variant: only _tag_to_location forgets the tags.
DeleteTagsHalf(tags) ==
    LET deleted == tags \cap LiveTags
    IN  /\ data_compacted' = FALSE
        /\ delete_set' = delete_set \cup {tag_to_location[t] : t \in deleted}
        /\ tag_to_location' = [t \in Tags |->
              IF t \in deleted THEN NoLocation ELSE tag_to_location[t]]
        /\ UNCHANGED location_to_tag

\* lazy_delete runs inside one critical section, by any thread of the program.
\* Tags without a location are passed over; _data_compacted is cleared all the same.
DeleteTags(tags) ==
    LET deleted == tags \cap LiveTags
    IN  /\ data_compacted' = FALSE
        /\ delete_set' = delete_set \cup {tag_to_location[t] : t \in deleted}
        /\ location_to_tag' = [l \in Slots |->
              IF \E t \in deleted : tag_to_location[t] = l THEN NoTag ELSE location_to_tag[l]]
        /\ tag_to_location' = [t \in Tags |->
              IF t \in deleted THEN NoLocation ELSE tag_to_location[t]]

LazyDelete(t) ==
    /\ update_exclusive = {}
    /\ DeleteTags({t})
    /\ outcome' = Reply("delete", t, IF t \in LiveTags THEN "0" ELSE "-1")
    /\ UNCHANGED <<nd, empty_slots, data_store, lockVars, pc, localVars>>

\* The overload that takes a vector of tags and returns the failed ones.
LazyDeleteMany(tags) ==
    /\ update_exclusive = {}
    /\ DeleteTags(tags)
    /\ outcome' = Reply("delete_many", NoTag, "0")
    /\ UNCHANGED <<nd, empty_slots, data_store, lockVars, pc, localVars>>

-----------------------------------------------------------------------------
\* consolidate_deletes.  What its entry check answers, under the shared locks.
ConsolidateStatus ==
    IF Cardinality(empty_slots) + nd # MaxPoints THEN "throw"
    ELSE IF Cardinality(LiveSlots) + Cardinality(delete_set) # nd
         THEN "INCONSISTENT_COUNT_ERROR"
    ELSE IF Cardinality(LiveSlots) # Cardinality(LiveTags) THEN "throw"
    ELSE "SUCCESS"

ConsolidateRefused(th) ==
    /\ pc[th] = "idle"
    /\ update_exclusive = {}
    /\ ConsolidateStatus # "SUCCESS"
    /\ outcome' = Reply("consolidate", NoTag, ConsolidateStatus)
    /\ UNCHANGED <<slotVars, data_store, lockVars, pc, localVars>>

ConsolidateCheck(th) ==
    /\ pc[th] = "idle"
    /\ update_exclusive = {}
    /\ ConsolidateStatus = "SUCCESS"
    /\ pc' = [pc EXCEPT ![th] = IF conc_consolidate THEN "try_lock" ELSE "lock_update"]
    /\ UNCHANGED <<slotVars, data_store, lockVars, localVars, outcome>>

\* Faulty variant: the exclusive lock does not wait for the shared ones.
ConsolidateLockUpdateEarly(th) ==
    /\ pc[th] = "lock_update"
    /\ update_exclusive = {}
    /\ update_exclusive' = {th}
    /\ pc' = [pc EXCEPT ![th] = "try_lock"]
    /\ UNCHANGED <<slotVars, data_store, update_shared, consolidate_lock, localVars, outcome>>

\* Without concurrent consolidation the rest runs under the exclusive lock.
ConsolidateLockUpdate(th) ==
    /\ pc[th] = "lock_update"
    /\ update_shared = {} /\ update_exclusive = {}
    /\ update_exclusive' = {th}
    /\ pc' = [pc EXCEPT ![th] = "try_lock"]
    /\ UNCHANGED <<slotVars, data_store, update_shared, consolidate_lock, localVars, outcome>>

\* Faulty variant: _delete_set is copied, not swapped with an empty set.
ConsolidateStartCopy(th) ==
    /\ pc[th] = "try_lock"
    /\ consolidate_lock = NoThread
    /\ consolidate_lock' = th
    /\ old_delete_set' = [old_delete_set EXCEPT ![th] = delete_set]
    /\ pc' = [pc EXCEPT ![th] = "process"]
    /\ UNCHANGED <<slotVars, data_store, update_shared, update_exclusive, location, tag, outcome>>

\* try_lock succeeds, and _delete_set is swapped with an empty set.
ConsolidateStart(th) ==
    /\ pc[th] = "try_lock"
    /\ consolidate_lock = NoThread
    /\ consolidate_lock' = th
    /\ old_delete_set' = [old_delete_set EXCEPT ![th] = delete_set]
    /\ delete_set' = {}
    /\ pc' = [pc EXCEPT ![th] = "process"]
    /\ UNCHANGED <<nd, empty_slots, tag_to_location, location_to_tag, data_compacted,
                   data_store, update_shared, update_exclusive, location, tag, outcome>>

ConsolidateLockFail(th) ==
    /\ pc[th] = "try_lock"
    /\ consolidate_lock # NoThread
    /\ update_exclusive' = update_exclusive \ {th}
    /\ pc' = [pc EXCEPT ![th] = "idle"]
    /\ outcome' = Reply("consolidate", NoTag, "LOCK_FAIL")
    /\ UNCHANGED <<slotVars, data_store, update_shared, consolidate_lock, localVars>>

\* release_locations throws on a location that is already empty and on a
\* final count that does not add up.
ReleaseStatus(locations) ==
    IF \/ locations \cap empty_slots # {}
       \/ Cardinality(empty_slots \cup locations) + (nd - Cardinality(locations)) # MaxPoints
    THEN "throw" ELSE "SUCCESS"

ReleaseLocations(locations) ==
    /\ empty_slots' = empty_slots \cup locations
    /\ nd' = nd - Cardinality(locations)

\* The graph has been cleaned; the locations are given back under _tag_lock,
\* and the exclusive lock goes before the consolidate lock does.
ConsolidateRelease(th) ==
    /\ pc[th] = "process"
    /\ ReleaseLocations(old_delete_set[th])
    /\ outcome' = Reply("consolidate", NoTag, ReleaseStatus(old_delete_set[th]))
    /\ old_delete_set' = [old_delete_set EXCEPT ![th] = {}]
    /\ update_exclusive' = update_exclusive \ {th}
    /\ pc' = [pc EXCEPT ![th] = "return_report"]
    /\ UNCHANGED <<delete_set, tag_to_location, location_to_tag, data_compacted,
                   data_store, update_shared, consolidate_lock, location, tag>>

ConsolidateReturn(th) ==
    /\ pc[th] = "return_report"
    /\ consolidate_lock' = NoThread
    /\ pc' = [pc EXCEPT ![th] = "idle"]
    /\ UNCHANGED <<slotVars, data_store, update_shared, update_exclusive, localVars, outcome>>

-----------------------------------------------------------------------------
Insert(th, t) == InsertFull(th, t) \/ InsertDuplicate(th, t) \/ InsertReserve(th, t)

Consolidate(th) ==
    \/ ConsolidateRefused(th) \/ ConsolidateCheck(th) \/ ConsolidateLockUpdate(th)
    \/ ConsolidateStart(th) \/ ConsolidateLockFail(th)
    \/ ConsolidateRelease(th) \/ ConsolidateReturn(th)

Next ==
    /\ UNCHANGED conc_consolidate
    /\ \/ \E th \in Threads, t \in Tags : Insert(th, t)
       \/ \E th \in Threads : InsertSetVector(th) \/ InsertReturn(th)
       \/ \E t \in Tags : LazyDelete(t)
       \/ \E tags \in SUBSET Tags : LazyDeleteMany(tags)
       \/ \E th \in Threads : Consolidate(th)

Spec == Init /\ [][Next]_vars

-----------------------------------------------------------------------------
Statuses == {"SUCCESS", "LOCK_FAIL", "INCONSISTENT_COUNT_ERROR", "throw"}

Outcomes ==
    [op : {"none", "insert", "delete", "delete_many", "consolidate"},
     tag : Tags \cup {NoTag},
     ret : Statuses \cup {"0", "-1"}]

\* Every variable has the type the class declares for it.
TypeOK ==
    /\ conc_consolidate \in Modes
    /\ nd \in Int
    /\ empty_slots \subseteq Slots
    /\ delete_set \subseteq Slots
    /\ tag_to_location \in [Tags -> Slots \cup {NoLocation}]
    /\ location_to_tag \in [Slots -> Tags \cup {NoTag}]
    /\ data_compacted \in BOOLEAN
    /\ data_store \in [Slots -> Tags \cup {NoTag}]
    /\ update_shared \subseteq Threads
    /\ update_exclusive \subseteq Threads
    /\ consolidate_lock \in Threads \cup {NoThread}
    /\ pc \in [Threads -> {"idle"} \cup InsertSteps \cup ConsolidateSteps]
    /\ location \in [Threads -> Slots \cup {NoLocation}]
    /\ tag \in [Threads -> Tags \cup {NoTag}]
    /\ old_delete_set \in [Threads -> SUBSET Slots]
    /\ outcome \in Outcomes

\* Where a slot can be: free, live, deleted, or about to be released.
OldLocations == UNION {old_delete_set[th] : th \in Threads}

\* Every slot is in exactly one of _empty_slots, the tag maps, _delete_set and
\* the set a running consolidation swapped out, and _nd counts the last three:
\* no slot is leaked or handed out twice (the assertion in reserve_location).
SlotsAccounted ==
    /\ Cardinality(empty_slots) + nd = MaxPoints
    /\ LiveSlots \cap empty_slots = {}
    /\ delete_set \cap (empty_slots \cup LiveSlots) = {}
    /\ OldLocations \cap (empty_slots \cup LiveSlots \cup delete_set) = {}
    /\ empty_slots \cup LiveSlots \cup delete_set \cup OldLocations = Slots
    /\ \A th1, th2 \in Threads :
          th1 # th2 => old_delete_set[th1] \cap old_delete_set[th2] = {}

\* _tag_to_location and _location_to_tag are inverses of each other, so a
\* location a search reaches and the tag it answers with name the same point.
TagMapsInverse ==
    /\ \A t \in LiveTags : location_to_tag[tag_to_location[t]] = t
    /\ \A l \in LiveSlots : tag_to_location[location_to_tag[l]] = l

\* A live tag's location holds that tag's vector, once the thread inserting it
\* has stored it: no late write of another insertion lands there.
VectorOfTag ==
    \A t \in LiveTags :
        \/ data_store[tag_to_location[t]] = t
        \/ \E th \in Threads : /\ pc[th] = "set_vector"
                                 /\ tag[th] = t
                                 /\ location[th] = tag_to_location[t]

\* Without concurrent consolidation the exclusive _update_lock keeps a slot from
\* being released, and so reused, under an insertion that has yet to store its
\* vector.
VectorOfTagSync == ~conc_consolidate => VectorOfTag

\* The run-time checks of consolidate_deletes and release_locations never find
\* the counts wrong; a caller is turned away for counts only when consolidations
\* may overlap with updates.
CountsConsistent ==
    /\ outcome.ret # "throw"
    /\ outcome.ret = "INCONSISTENT_COUNT_ERROR" => conc_consolidate

-----------------------------------------------------------------------------
\* A consolidation is marked from the swap of _delete_set to the release of its
\* locations, and done until its caller has the report.
Phase == IF consolidate_lock = NoThread THEN "free"
         ELSE IF pc[consolidate_lock] = "process" THEN "marked" ELSE "done"

\* The promise to callers, with a location for a room.
Store == INSTANCE TagStore WITH
    Capacity <- MaxPoints,
    live <- LiveTags,
    dead <- Cardinality(delete_set),
    reclaiming <- Cardinality(OldLocations),
    phase <- Phase

\* Calls on the index answer and change the set of live tags as TagStore allows:
\* duplicates and a full store are refused, a deleted tag's room comes back only
\* through a consolidation, and consolidations never touch live tags.
ImplementsTagStore == Store!Spec
=============================================================================
