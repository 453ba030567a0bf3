-------------------------- MODULE IndexGraphProofs --------------------------
(***************************************************************************)
(* Proofs about DynamicIndex and IndexGraph, for every number of slots,    *)
(* frozen points, tags and threads, for both values of _conc_consolidate,  *)
(* every degree and slack, and every choice of a search or a pruning.      *)
(*                                                                         *)
(* In DynamicIndex the types, the accounting of slots and the tag maps     *)
(* depend on each other: a slot popped from _empty_slots has the right     *)
(* type because the counts add up, the counts add up because no slot is in *)
(* two sets, and a deletion moves one slot from the live ones because the  *)
(* maps are inverses.  They are therefore proved together, as SlotInv.     *)
(* The second part adds the locks: with them, what an insertion under way  *)
(* may find when it stores its vector, and when the counts may be wrong.   *)
(* The third part is the refinement of TagStore.                           *)
(*                                                                         *)
(* Each step on the graph is a step of DynamicIndex or leaves its          *)
(* variables alone, so what is shown of slots and locks holds in           *)
(* IndexGraph too.  On top of it StepInv says where an insertion's         *)
(* locations may come from, ListInv bounds the lists, and EdgeInv keeps    *)
(* the slots that hold nothing, or a list of the point before, out of      *)
(* every list and out of everything a search has in its hands, and         *)
(* ReachInv keeps what was within reach of a search there while a          *)
(* consolidation takes deleted points out of the lists.                    *)
(***************************************************************************)
EXTENDS IndexGraph, RankProofs

\* Only a consolidation between its swap and its release owns locations.
OldSetsOwned ==
    \A th \in Threads : old_delete_set[th] # {} => pc[th] = "process"

SlotInv == TypeOK /\ SlotsAccounted /\ TagMapsInverse /\ OldSetsOwned

-----------------------------------------------------------------------------
\* The slots are finitely many, so every set of slots has a cardinality, and
\* the sizes of two sets of slots that share none add up.
LEMMA SlotSets ==
    /\ IsFiniteSet(Slots)
    /\ Cardinality(Slots) = MaxPoints
    /\ \A S \in SUBSET Slots : IsFiniteSet(S) /\ Cardinality(S) \in Nat
    /\ \A S, T \in SUBSET Slots :
          S \cap T = {} => Cardinality(S \cup T) = Cardinality(S) + Cardinality(T)
<1>1. MaxPoints \in Nat /\ MaxPoints - 1 \in Int /\ 0 \in Int
  BY ParameterAssumption
<1>2. IsFiniteSet(Slots) /\ Cardinality(Slots) = MaxPoints
  BY <1>1, FS_Interval DEF Slots
<1>3. \A S \in SUBSET Slots : IsFiniteSet(S) /\ Cardinality(S) \in Nat
  BY <1>2, FS_Subset, FS_CardinalityType
<1>4. ASSUME NEW S \in SUBSET Slots, NEW T \in SUBSET Slots, S \cap T = {}
      PROVE  Cardinality(S \cup T) = Cardinality(S) + Cardinality(T)
  <2>1. Cardinality(S \cup T) = Cardinality(S) + Cardinality(T) - Cardinality(S \cap T)
    BY <1>3, FS_Union
  <2>2. Cardinality(S \cap T) = 0
    BY <1>4, FS_EmptySet
  <2>. QED BY <1>3, <2>1, <2>2
<1>. QED BY <1>2, <1>3, <1>4

\* Whenever reserve_location finds _nd below _max_points, it has an empty slot.
LEMMA SlotToReserve ==
    ASSUME TypeOK, SlotsAccounted, nd < MaxPoints
    PROVE  empty_slots # {} /\ Reservable = empty_slots
<1>1. Cardinality(empty_slots) \in Nat /\ Cardinality(empty_slots) + nd = MaxPoints
  BY SlotSets DEF TypeOK, SlotsAccounted
<1>2. empty_slots # {}
  <2>1. nd \in Int /\ MaxPoints \in Int
    BY ParameterAssumption DEF TypeOK
  <2>2. Cardinality({}) = 0
    BY FS_EmptySet
  <2>. QED BY <1>1, <2>1, <2>2
<1>. QED BY <1>2 DEF Reservable

\* Taking a slot out of _empty_slots shrinks it by one.
LEMMA ReserveOne ==
    ASSUME TypeOK, NEW l \in empty_slots
    PROVE  Cardinality(empty_slots \ {l}) = Cardinality(empty_slots) - 1
BY SlotSets, FS_RemoveElement DEF TypeOK

\* The constructor of a dynamic index leaves every slot empty and no tag mapped.
LEMMA SlotInvInit == Init => SlotInv
<1>. SUFFICES ASSUME Init PROVE SlotInv
  OBVIOUS
<1>1. TypeOK
  BY ParameterAssumption DEF Init, TypeOK, EnableDelete, Slots, NoLocation, Outcomes, Reply
<1>2. LiveSlots = {} /\ LiveTags = {} /\ OldLocations = {}
  BY DEF Init, LiveSlots, LiveTags, OldLocations
<1>3. empty_slots = Slots
  BY DEF Init, EnableDelete, Slots
<1>4. SlotsAccounted
  BY <1>2, <1>3, SlotSets, ParameterAssumption DEF Init, SlotsAccounted
<1>5. TagMapsInverse /\ OldSetsOwned
  BY <1>2 DEF Init, TagMapsInverse, OldSetsOwned
<1>. QED BY <1>1, <1>4, <1>5 DEF SlotInv

-----------------------------------------------------------------------------
\* A step that leaves the slots and the swapped-out sets alone.
LEMMA SlotsUntouched ==
    ASSUME SlotsAccounted, TagMapsInverse, UNCHANGED slotVars, UNCHANGED old_delete_set
    PROVE  SlotsAccounted' /\ TagMapsInverse'
BY DEF SlotsAccounted, TagMapsInverse, slotVars, LiveSlots, LiveTags, OldLocations

\* Moving one empty slot to the live ones and counting it.
LEMMA RegisterKeepsSlots ==
    ASSUME NEW th \in Threads, NEW t \in Tags, SlotInv, InsertReserve(th, t),
           UNCHANGED conc_consolidate
    PROVE  SlotInv'
<1>1. TypeOK /\ SlotsAccounted /\ TagMapsInverse /\ OldSetsOwned
  BY DEF SlotInv
<1>2. PICK l \in Reservable :
        /\ ReserveLocation(l)
        /\ tag_to_location' = [tag_to_location EXCEPT ![t] = l]
        /\ location_to_tag' = [location_to_tag EXCEPT ![l] = t]
        /\ location' = [location EXCEPT ![th] = l]
  BY DEF InsertReserve, RegisterPoint
<1>3. nd < MaxPoints /\ l \in empty_slots /\ l \in Slots
  BY <1>1, <1>2, SlotToReserve DEF ReserveLocation, TypeOK
<1>4. /\ empty_slots' = empty_slots \ {l}
      /\ delete_set' = delete_set
      /\ nd' = nd + 1
      /\ old_delete_set' = old_delete_set
      /\ tag_to_location[t] = NoLocation
      /\ pc[th] = "idle" /\ pc' = [pc EXCEPT ![th] = "set_vector"]
  BY <1>1, <1>2, <1>3 DEF ReserveLocation, InsertReserve, RegisterPoint, SlotsAccounted
<1>5. TypeOK'
  <2>1. outcome' \in Outcomes
    BY DEF InsertReserve, RegisterPoint, Outcomes, Reply
  <2>2. /\ conc_consolidate' = conc_consolidate
        /\ data_compacted' = data_compacted /\ data_store' = data_store
        /\ update_shared' = update_shared \cup {th} /\ update_exclusive' = update_exclusive
        /\ consolidate_lock' = consolidate_lock /\ tag' = [tag EXCEPT ![th] = t]
    BY DEF InsertReserve, RegisterPoint
  <2>3. nd' \in Int /\ empty_slots' \subseteq Slots /\ delete_set' \subseteq Slots
    BY <1>1, <1>4 DEF TypeOK
  <2>4. /\ tag_to_location' \in [Tags -> Slots \cup {NoLocation}]
        /\ location_to_tag' \in [Slots -> Tags \cup {NoTag}]
        /\ location' \in [Threads -> Slots \cup {NoLocation}]
    BY <1>1, <1>2, <1>3 DEF TypeOK
  <2>5. pc' \in [Threads -> {"idle"} \cup InsertSteps \cup ConsolidateSteps]
    BY <1>1, <1>4 DEF TypeOK, InsertSteps
  <2>. QED BY <1>1, <1>4, <2>1, <2>2, <2>3, <2>4, <2>5 DEF TypeOK
<1>6. LiveSlots' = LiveSlots \cup {l} /\ OldLocations' = OldLocations
  BY <1>1, <1>2, <1>3, <1>4, ParameterAssumption DEF TypeOK, LiveSlots, OldLocations
<1>7. SlotsAccounted'
  <2>1. Cardinality(empty_slots') + nd' = MaxPoints
    <3>1. Cardinality(empty_slots') = Cardinality(empty_slots) - 1
      BY <1>1, <1>3, <1>4, ReserveOne
    <3>2. Cardinality(empty_slots) \in Nat /\ nd \in Int
      BY <1>1, SlotSets DEF TypeOK
    <3>. QED BY <1>1, <1>4, <3>1, <3>2 DEF SlotsAccounted
  <2>. QED BY <1>1, <1>3, <1>4, <1>6, <2>1 DEF SlotsAccounted
<1>8. TagMapsInverse'
  <2>1. LiveTags' = LiveTags \cup {t}
    BY <1>1, <1>2, <1>3 DEF TypeOK, LiveTags, Slots, NoLocation
  <2>2. l \notin LiveSlots /\ t \notin LiveTags
    BY <1>1, <1>3, <1>4 DEF SlotsAccounted, LiveTags
  <2>3. \A u \in LiveTags : tag_to_location'[u] = tag_to_location[u] /\ tag_to_location[u] \in LiveSlots
    BY <1>1, <1>2, <2>2, ParameterAssumption
       DEF TypeOK, TagMapsInverse, LiveSlots, LiveTags
  <2>4. \A m \in LiveSlots : location_to_tag'[m] = location_to_tag[m] /\ location_to_tag[m] \in LiveTags
    BY <1>1, <1>2, <2>2 DEF TypeOK, TagMapsInverse, LiveSlots, LiveTags, Slots, NoLocation
  <2>5. tag_to_location'[t] = l /\ location_to_tag'[l] = t
    BY <1>1, <1>2, <1>3 DEF TypeOK
  <2>. QED BY <1>1, <1>6, <2>1, <2>2, <2>3, <2>4, <2>5 DEF TagMapsInverse
<1>9. OldSetsOwned'
  BY <1>1, <1>4 DEF OldSetsOwned, TypeOK
<1>. QED BY <1>5, <1>7, <1>8, <1>9 DEF SlotInv

\* lazy_delete moves the locations of the deleted tags from the live slots to
\* _delete_set: each of them is live because the maps are inverses.
LEMMA DeleteKeepsSlots ==
    ASSUME NEW tags \in SUBSET Tags, SlotInv, DeleteTags(tags),
           UNCHANGED <<conc_consolidate, nd, empty_slots, data_store, lockVars, pc, localVars>>,
           outcome' \in Outcomes
    PROVE  SlotInv'
<1>1. TypeOK /\ SlotsAccounted /\ TagMapsInverse /\ OldSetsOwned
  BY DEF SlotInv
<1>. DEFINE deleted == tags \cap LiveTags
            gone == {tag_to_location[t] : t \in deleted}
<1>2. /\ data_compacted' = FALSE
      /\ delete_set' = delete_set \cup gone
      /\ location_to_tag' = [l \in Slots |->
            IF l \in gone THEN NoTag ELSE location_to_tag[l]]
      /\ tag_to_location' = [t \in Tags |->
            IF t \in deleted THEN NoLocation ELSE tag_to_location[t]]
  BY DEF DeleteTags
<1>3. gone \subseteq LiveSlots
  BY <1>1, ParameterAssumption DEF TypeOK, TagMapsInverse, LiveSlots, LiveTags
<1>4. TypeOK'
  BY <1>1, <1>2, <1>3 DEF TypeOK, lockVars, localVars, LiveSlots
<1>5. LiveSlots' = LiveSlots \ gone /\ LiveTags' = LiveTags \ deleted
  BY <1>1, <1>2 DEF TypeOK, LiveSlots, LiveTags
<1>6. OldLocations' = OldLocations
  BY DEF OldLocations, localVars
<1>7. SlotsAccounted'
  BY <1>1, <1>2, <1>3, <1>5, <1>6 DEF SlotsAccounted, localVars
<1>8. TagMapsInverse'
  BY <1>1, <1>2, <1>5 DEF TypeOK, TagMapsInverse, LiveSlots, LiveTags
<1>9. OldSetsOwned'
  BY <1>1 DEF OldSetsOwned, localVars
<1>. QED BY <1>4, <1>7, <1>8, <1>9 DEF SlotInv

\* A consolidation swaps _delete_set with its own, empty, set of locations.
LEMMA StartKeepsSlots ==
    ASSUME NEW th \in Threads, SlotInv, ConsolidateStart(th), UNCHANGED conc_consolidate
    PROVE  SlotInv'
<1>1. TypeOK /\ SlotsAccounted /\ TagMapsInverse /\ OldSetsOwned
  BY DEF SlotInv
<1>2. /\ old_delete_set[th] = {}
      /\ old_delete_set' = [old_delete_set EXCEPT ![th] = delete_set]
      /\ delete_set' = {}
      /\ pc' = [pc EXCEPT ![th] = "process"]
      /\ nd' = nd /\ empty_slots' = empty_slots
  BY <1>1 DEF ConsolidateStart, OldSetsOwned
<1>3. TypeOK'
  BY <1>1, <1>2 DEF TypeOK, ConsolidateStart, ConsolidateSteps
<1>4. LiveSlots' = LiveSlots /\ LiveTags' = LiveTags
  BY DEF ConsolidateStart, LiveSlots, LiveTags
<1>5. OldLocations' = OldLocations \cup delete_set
  <2>1. \A u \in Threads : old_delete_set'[u] = IF u = th THEN delete_set ELSE old_delete_set[u]
    BY <1>1, <1>2 DEF TypeOK
  <2>. QED BY <1>2, <2>1 DEF OldLocations
<1>6. SlotsAccounted'
  <2>1. \A u, v \in Threads : u # v => old_delete_set'[u] \cap old_delete_set'[v] = {}
    <3>1. \A u \in Threads : old_delete_set[u] \cap delete_set = {}
      BY <1>1 DEF SlotsAccounted, OldLocations
    <3>. QED BY <1>1, <1>2, <3>1 DEF SlotsAccounted, TypeOK
  <2>. QED BY <1>1, <1>2, <1>4, <1>5, <2>1 DEF SlotsAccounted
<1>7. TagMapsInverse'
  BY <1>1, <1>4 DEF TagMapsInverse, ConsolidateStart
<1>8. OldSetsOwned'
  BY <1>1, <1>2 DEF OldSetsOwned, TypeOK
<1>. QED BY <1>3, <1>6, <1>7, <1>8 DEF SlotInv

\* The locations a consolidation gives back are in none of the other sets, so
\* _nd drops by exactly the number of slots that become empty.
LEMMA ReleaseKeepsSlots ==
    ASSUME NEW th \in Threads, SlotInv, ConsolidateRelease(th), UNCHANGED conc_consolidate
    PROVE  SlotInv'
<1>. DEFINE old == old_delete_set[th]
<1>1. TypeOK /\ SlotsAccounted /\ TagMapsInverse /\ OldSetsOwned
  BY DEF SlotInv
<1>2. /\ empty_slots' = empty_slots \cup old
      /\ nd' = nd - Cardinality(old)
      /\ delete_set' = delete_set
      /\ old_delete_set' = [old_delete_set EXCEPT ![th] = {}]
      /\ pc' = [pc EXCEPT ![th] = "return_report"]
  BY DEF ConsolidateRelease, ReleaseLocations
<1>3. old \subseteq Slots /\ old \cap empty_slots = {}
  BY <1>1 DEF TypeOK, SlotsAccounted, OldLocations
<1>4. /\ Cardinality(old) \in Nat /\ Cardinality(empty_slots) \in Nat
      /\ Cardinality(empty_slots') = Cardinality(empty_slots) + Cardinality(old)
  BY <1>1, <1>2, <1>3, SlotSets DEF TypeOK
<1>5. TypeOK'
  <2>1. outcome' \in Outcomes
    BY DEF ConsolidateRelease, ReleaseStatus, Outcomes, Reply, Statuses
  <2>2. nd' \in Int /\ empty_slots' \subseteq Slots
    BY <1>1, <1>2, <1>3, <1>4 DEF TypeOK
  <2>3. /\ old_delete_set' \in [Threads -> SUBSET Slots]
        /\ pc' \in [Threads -> {"idle"} \cup InsertSteps \cup ConsolidateSteps]
    BY <1>1, <1>2 DEF TypeOK, ConsolidateSteps
  <2>. QED BY <1>1, <1>2, <2>1, <2>2, <2>3 DEF TypeOK, ConsolidateRelease
<1>6. LiveSlots' = LiveSlots /\ LiveTags' = LiveTags
  BY DEF ConsolidateRelease, LiveSlots, LiveTags
<1>7. OldLocations' = OldLocations \ old
  <2>1. \A u \in Threads : old_delete_set'[u] = IF u = th THEN {} ELSE old_delete_set[u]
    BY <1>1, <1>2 DEF TypeOK
  <2>2. \A u \in Threads : u # th => old_delete_set[u] \cap old = {}
    BY <1>1 DEF SlotsAccounted
  <2>. QED BY <2>1, <2>2 DEF OldLocations
<1>8. SlotsAccounted'
  <2>1. Cardinality(empty_slots') + nd' = MaxPoints
    BY <1>1, <1>2, <1>4, ParameterAssumption DEF SlotsAccounted, TypeOK
  <2>2. \A u, v \in Threads : u # v => old_delete_set'[u] \cap old_delete_set'[v] = {}
    BY <1>1, <1>2 DEF SlotsAccounted, TypeOK
  <2>3. old \subseteq OldLocations
    BY DEF OldLocations
  <2>. QED BY <1>1, <1>2, <1>6, <1>7, <2>1, <2>2, <2>3 DEF SlotsAccounted
<1>9. TagMapsInverse' /\ OldSetsOwned'
  BY <1>1, <1>2, <1>6 DEF TagMapsInverse, OldSetsOwned, ConsolidateRelease, TypeOK
<1>. QED BY <1>5, <1>8, <1>9 DEF SlotInv

\* Every step of insert_point, lazy_delete and consolidate_deletes keeps the slots
\* accounted for and the maps inverse.
LEMMA SlotInvNext == SlotInv /\ [Next]_vars => SlotInv'
<1>. SUFFICES ASSUME SlotInv, [Next]_vars PROVE SlotInv'
  OBVIOUS
<1>1. TypeOK /\ SlotsAccounted /\ TagMapsInverse /\ OldSetsOwned
  BY DEF SlotInv
<1>2. CASE UNCHANGED vars
  <2>1. TypeOK' /\ OldSetsOwned'
    BY <1>1, <1>2 DEF TypeOK, OldSetsOwned, vars, slotVars, lockVars, localVars
  <2>. QED BY <1>1, <1>2, <2>1, SlotsUntouched DEF SlotInv, vars, localVars
<1>3. ASSUME Next PROVE SlotInv'
  <2>0. UNCHANGED conc_consolidate
    BY <1>3 DEF Next
  <2>1. ASSUME NEW th \in Threads, NEW t \in Tags, InsertFull(th, t) PROVE SlotInv'
    <3>1. outcome' \in Outcomes
      BY <2>1 DEF InsertFull, Outcomes, Reply
    <3>2. TypeOK' /\ OldSetsOwned'
      BY <1>1, <2>0, <2>1, <3>1 DEF InsertFull, TypeOK, OldSetsOwned, slotVars, lockVars, localVars
    <3>. QED BY <1>1, <2>1, <3>2, SlotsUntouched DEF SlotInv, InsertFull, localVars
  <2>2. ASSUME NEW th \in Threads, NEW t \in Tags, InsertDuplicate(th, t) PROVE SlotInv'
    <3>1. empty_slots' = empty_slots /\ delete_set' = delete_set
      BY <1>1, <2>2, SlotToReserve DEF InsertDuplicate, SlotsAccounted
    <3>2. outcome' \in Outcomes
      BY <2>2 DEF InsertDuplicate, Outcomes, Reply
    <3>3. TypeOK' /\ OldSetsOwned'
      BY <1>1, <2>0, <2>2, <3>1, <3>2 DEF InsertDuplicate, TypeOK, OldSetsOwned, lockVars, localVars
    <3>. QED BY <1>1, <2>2, <3>1, <3>3, SlotsUntouched
             DEF SlotInv, InsertDuplicate, slotVars, localVars
  <2>3. ASSUME NEW th \in Threads, NEW t \in Tags, InsertReserve(th, t) PROVE SlotInv'
    BY <2>0, <2>3, RegisterKeepsSlots
  <2>4. ASSUME NEW th \in Threads, InsertSetVector(th) PROVE SlotInv'
    <3>1. data_store' \in [Slots -> Tags \cup {NoTag}]
      BY <1>1, <2>4 DEF InsertSetVector, TypeOK
    <3>2. TypeOK' /\ OldSetsOwned'
      BY <1>1, <2>0, <2>4, <3>1
         DEF InsertSetVector, TypeOK, OldSetsOwned, InsertSteps, slotVars, lockVars, localVars
    <3>. QED BY <1>1, <2>4, <3>2, SlotsUntouched DEF SlotInv, InsertSetVector, localVars
  <2>5. ASSUME NEW th \in Threads, InsertReturn(th) PROVE SlotInv'
    <3>1. TypeOK' /\ OldSetsOwned'
      BY <1>1, <2>0, <2>5 DEF InsertReturn, TypeOK, OldSetsOwned, slotVars
    <3>. QED BY <1>1, <2>5, <3>1, SlotsUntouched DEF SlotInv, InsertReturn
  <2>6. ASSUME NEW t \in Tags, LazyDelete(t) PROVE SlotInv'
    <3>1. outcome' \in Outcomes
      BY <2>6 DEF LazyDelete, Outcomes, Reply
    <3>. QED BY <2>0, <2>6, <3>1, DeleteKeepsSlots DEF LazyDelete
  <2>7. ASSUME NEW tags \in SUBSET Tags, LazyDeleteMany(tags) PROVE SlotInv'
    <3>1. outcome' \in Outcomes
      BY <2>7 DEF LazyDeleteMany, Outcomes, Reply
    <3>. QED BY <2>0, <2>7, <3>1, DeleteKeepsSlots DEF LazyDeleteMany
  <2>8. ASSUME NEW th \in Threads, ConsolidateRefused(th) PROVE SlotInv'
    <3>1. outcome' \in Outcomes
      BY <2>8 DEF ConsolidateRefused, ConsolidateStatus, Outcomes, Reply, Statuses
    <3>2. TypeOK' /\ OldSetsOwned'
      BY <1>1, <2>0, <2>8, <3>1
         DEF ConsolidateRefused, TypeOK, OldSetsOwned, slotVars, lockVars, localVars
    <3>. QED BY <1>1, <2>8, <3>2, SlotsUntouched DEF SlotInv, ConsolidateRefused, localVars
  <2>9. ASSUME NEW th \in Threads, ConsolidateCheck(th) PROVE SlotInv'
    <3>1. TypeOK' /\ OldSetsOwned'
      BY <1>1, <2>0, <2>9 DEF ConsolidateCheck, TypeOK, OldSetsOwned,
         ConsolidateSteps, slotVars, lockVars, localVars
    <3>. QED BY <1>1, <2>9, <3>1, SlotsUntouched DEF SlotInv, ConsolidateCheck, localVars
  <2>10. ASSUME NEW th \in Threads, ConsolidateLockUpdate(th) PROVE SlotInv'
    <3>1. TypeOK' /\ OldSetsOwned'
      BY <1>1, <2>0, <2>10 DEF ConsolidateLockUpdate, TypeOK, OldSetsOwned,
         ConsolidateSteps, slotVars, localVars
    <3>. QED BY <1>1, <2>10, <3>1, SlotsUntouched DEF SlotInv, ConsolidateLockUpdate, localVars
  <2>11. ASSUME NEW th \in Threads, ConsolidateStart(th) PROVE SlotInv'
    BY <2>0, <2>11, StartKeepsSlots
  <2>12. ASSUME NEW th \in Threads, ConsolidateLockFail(th) PROVE SlotInv'
    <3>1. outcome' \in Outcomes
      BY <2>12 DEF ConsolidateLockFail, Outcomes, Reply, Statuses
    <3>2. TypeOK' /\ OldSetsOwned'
      BY <1>1, <2>0, <2>12, <3>1 DEF ConsolidateLockFail, TypeOK, OldSetsOwned, slotVars, localVars
    <3>. QED BY <1>1, <2>12, <3>2, SlotsUntouched DEF SlotInv, ConsolidateLockFail, localVars
  <2>13. ASSUME NEW th \in Threads, ConsolidateRelease(th) PROVE SlotInv'
    BY <2>0, <2>13, ReleaseKeepsSlots
  <2>14. ASSUME NEW th \in Threads, ConsolidateReturn(th) PROVE SlotInv'
    <3>1. TypeOK' /\ OldSetsOwned'
      BY <1>1, <2>0, <2>14 DEF ConsolidateReturn, TypeOK, OldSetsOwned, slotVars, localVars
    <3>. QED BY <1>1, <2>14, <3>1, SlotsUntouched DEF SlotInv, ConsolidateReturn, localVars
  <2>. QED BY <1>3, <2>1, <2>2, <2>3, <2>4, <2>5, <2>6, <2>7, <2>8, <2>9, <2>10,
              <2>11, <2>12, <2>13, <2>14 DEF Next, Insert, Consolidate
<1>. QED BY <1>2, <1>3

\* The inductive invariant of the slots and the tag maps holds in every state.
THEOREM SlotInvAlways == Spec => []SlotInv
BY SlotInvInit, SlotInvNext, PTL DEF Spec

-----------------------------------------------------------------------------
\* Every variable of the index keeps the type its declaration gives it; in
\* particular a reserved location is always a slot of the data store.
THEOREM TypeCorrect == Spec => []TypeOK
<1>1. SlotInv => TypeOK
  BY DEF SlotInv
<1>. QED BY <1>1, SlotInvAlways, PTL

\* No interleaving of inserts, deletions and consolidations leaks a slot, puts
\* one into two sets or makes _nd disagree with them.
THEOREM SlotsAlwaysAccounted == Spec => []SlotsAccounted
<1>1. SlotInv => SlotsAccounted
  BY DEF SlotInv
<1>. QED BY <1>1, SlotInvAlways, PTL

\* The two tag maps are inverses in every state in which _tag_lock is free.
THEOREM TagMapsAlwaysInverse == Spec => []TagMapsInverse
<1>1. SlotInv => TagMapsInverse
  BY DEF SlotInv
<1>. QED BY <1>1, SlotInvAlways, PTL

-----------------------------------------------------------------------------
(***************************************************************************)
(* What _update_lock and _consolidate_lock are for: with them, and for     *)
(* every number of slots, tags and threads, the counts that                *)
(* consolidate_deletes and release_locations check are never wrong, and an *)
(* index without concurrent consolidation never stores a vector over       *)
(* another point's.  LockInv says which step of a thread goes with which   *)
(* lock, PendingInv what a thread about to store a vector may rely on.     *)
(***************************************************************************)
LockInv ==
    /\ \A th \in Threads : th \in update_shared <=> pc[th] \in InsertSteps
    /\ update_exclusive # {} => update_shared = {}
    /\ \A th \in update_exclusive : pc[th] \in {"try_lock", "process"}
    /\ \A th \in Threads :
          ~conc_consolidate /\ pc[th] \in {"try_lock", "process"} => th \in update_exclusive
    /\ \A th \in Threads : pc[th] \in {"process", "return_report"} <=> consolidate_lock = th

\* The slot of an insertion that has yet to store its vector stays in use, and
\* no other tag can be registered at it.
PendingInv ==
    ~conc_consolidate =>
        \A th \in Threads : pc[th] = "set_vector" =>
            /\ location[th] \in Slots \ empty_slots
            /\ tag[th] \in Tags
            /\ location_to_tag[location[th]] \in {tag[th], NoTag}

IndexInv == SlotInv /\ LockInv /\ PendingInv /\ VectorOfTagSync /\ CountsConsistent

-----------------------------------------------------------------------------
\* A new index has no lock held, no insertion pending and no vector stored.
LEMMA IndexInvInit == Init => LockInv /\ PendingInv /\ VectorOfTagSync /\ CountsConsistent
<1>. SUFFICES ASSUME Init PROVE LockInv /\ PendingInv /\ VectorOfTagSync /\ CountsConsistent
  OBVIOUS
<1>1. LockInv /\ PendingInv
  BY ParameterAssumption DEF Init, LockInv, PendingInv, InsertSteps
<1>2. VectorOfTagSync
  BY DEF Init, VectorOfTagSync, VectorOfTag, LiveTags
<1>3. CountsConsistent
  BY DEF Init, CountsConsistent, Reply
<1>. QED BY <1>1, <1>2, <1>3

\* What each step of a thread says of the locks it holds stays true.
LEMMA LockInvNext == SlotInv /\ LockInv /\ [Next]_vars => LockInv'
<1>. SUFFICES ASSUME SlotInv, LockInv, [Next]_vars PROVE LockInv'
  OBVIOUS
<1>. USE DEF InsertSteps, lockVars, localVars
<1>1. TypeOK
  BY DEF SlotInv
<1>2. CASE UNCHANGED vars
  BY <1>2 DEF LockInv, vars
<1>3. ASSUME Next PROVE LockInv'
  <2>0. UNCHANGED conc_consolidate
    BY <1>3 DEF Next
  <2>1. ASSUME NEW th \in Threads, NEW t \in Tags, InsertFull(th, t) PROVE LockInv'
    BY <2>0, <2>1 DEF InsertFull, LockInv
  <2>2. ASSUME NEW th \in Threads, NEW t \in Tags, InsertDuplicate(th, t) PROVE LockInv'
    BY <2>0, <2>2 DEF InsertDuplicate, LockInv
  <2>3. ASSUME NEW th \in Threads, NEW t \in Tags, InsertReserve(th, t) PROVE LockInv'
    BY <1>1, <2>0, <2>3 DEF InsertReserve, RegisterPoint, LockInv, TypeOK
  <2>4. ASSUME NEW th \in Threads, InsertSetVector(th) PROVE LockInv'
    BY <1>1, <2>0, <2>4 DEF InsertSetVector, LockInv, TypeOK
  <2>5. ASSUME NEW th \in Threads, InsertReturn(th) PROVE LockInv'
    BY <1>1, <2>0, <2>5 DEF InsertReturn, LockInv, TypeOK
  <2>6. ASSUME NEW t \in Tags, LazyDelete(t) PROVE LockInv'
    BY <2>0, <2>6 DEF LazyDelete, LockInv
  <2>7. ASSUME NEW tags \in SUBSET Tags, LazyDeleteMany(tags) PROVE LockInv'
    BY <2>0, <2>7 DEF LazyDeleteMany, LockInv
  <2>8. ASSUME NEW th \in Threads, ConsolidateRefused(th) PROVE LockInv'
    BY <2>0, <2>8 DEF ConsolidateRefused, LockInv
  <2>9. ASSUME NEW th \in Threads, ConsolidateCheck(th) PROVE LockInv'
    BY <1>1, <2>0, <2>9, ParameterAssumption DEF ConsolidateCheck, LockInv, TypeOK
  <2>10. ASSUME NEW th \in Threads, ConsolidateLockUpdate(th) PROVE LockInv'
    BY <1>1, <2>0, <2>10 DEF ConsolidateLockUpdate, LockInv, TypeOK
  <2>11. ASSUME NEW th \in Threads, ConsolidateStart(th) PROVE LockInv'
    BY <1>1, <2>0, <2>11, ParameterAssumption DEF ConsolidateStart, LockInv, TypeOK
  <2>12. ASSUME NEW th \in Threads, ConsolidateLockFail(th) PROVE LockInv'
    BY <1>1, <2>0, <2>12 DEF ConsolidateLockFail, LockInv, TypeOK
  <2>13. ASSUME NEW th \in Threads, ConsolidateRelease(th) PROVE LockInv'
    BY <1>1, <2>0, <2>13 DEF ConsolidateRelease, LockInv, TypeOK
  <2>14. ASSUME NEW th \in Threads, ConsolidateReturn(th) PROVE LockInv'
    BY <1>1, <2>0, <2>14, ParameterAssumption DEF ConsolidateReturn, LockInv, TypeOK
  <2>. QED BY <1>3, <2>1, <2>2, <2>3, <2>4, <2>5, <2>6, <2>7, <2>8, <2>9, <2>10,
              <2>11, <2>12, <2>13, <2>14 DEF Next, Insert, Consolidate
<1>. QED BY <1>2, <1>3

-----------------------------------------------------------------------------
\* What the placement of vectors depends on, besides the inserting threads.
VectorVars == <<conc_consolidate, empty_slots, tag_to_location, location_to_tag, data_store>>

\* A step that neither registers, deletes nor moves a point, nor starts or stores
\* an insertion, keeps every vector and every pending insertion as it was.
LEMMA VectorsUntouched ==
    ASSUME PendingInv, VectorOfTagSync, UNCHANGED VectorVars,
           \A th \in Threads : pc'[th] = "set_vector" <=> pc[th] = "set_vector",
           \A th \in Threads : pc[th] = "set_vector" =>
               location'[th] = location[th] /\ tag'[th] = tag[th]
    PROVE  PendingInv' /\ VectorOfTagSync'
<1>1. PendingInv'
  BY DEF PendingInv, VectorVars
<1>2. VectorOfTagSync'
  BY DEF VectorOfTagSync, VectorOfTag, LiveTags, VectorVars
<1>. QED BY <1>1, <1>2

\* The slot taken for a new point is nobody else's.
LEMMA RegisterKeepsVectors ==
    ASSUME NEW th \in Threads, NEW t \in Tags, SlotInv, PendingInv, VectorOfTagSync,
           InsertReserve(th, t), UNCHANGED conc_consolidate
    PROVE  PendingInv' /\ VectorOfTagSync'
<1>1. TypeOK /\ SlotsAccounted
  BY DEF SlotInv
<1>2. PICK l \in Reservable :
        /\ ReserveLocation(l)
        /\ tag_to_location' = [tag_to_location EXCEPT ![t] = l]
        /\ location_to_tag' = [location_to_tag EXCEPT ![l] = t]
        /\ location' = [location EXCEPT ![th] = l]
  BY DEF InsertReserve, RegisterPoint
<1>3. l \in empty_slots /\ l \in Slots
  BY <1>1, <1>2, SlotToReserve DEF ReserveLocation, TypeOK
<1>4. /\ empty_slots' = empty_slots \ {l}
      /\ pc[th] = "idle" /\ pc' = [pc EXCEPT ![th] = "set_vector"]
      /\ tag' = [tag EXCEPT ![th] = t]
      /\ data_store' = data_store
  BY <1>2 DEF ReserveLocation, InsertReserve, RegisterPoint
<1>5. \A u \in Threads :
        /\ pc'[u] = IF u = th THEN "set_vector" ELSE pc[u]
        /\ location'[u] = IF u = th THEN l ELSE location[u]
        /\ tag'[u] = IF u = th THEN t ELSE tag[u]
  BY <1>1, <1>2, <1>4 DEF TypeOK
<1>6. /\ \A m \in Slots : location_to_tag'[m] = IF m = l THEN t ELSE location_to_tag[m]
      /\ \A u \in Tags : tag_to_location'[u] = IF u = t THEN l ELSE tag_to_location[u]
  BY <1>1, <1>2, <1>3 DEF TypeOK
<1>7. PendingInv'
  BY <1>3, <1>4, <1>5, <1>6 DEF PendingInv
<1>8. VectorOfTagSync'
  <2>. SUFFICES ASSUME ~conc_consolidate, NEW u \in LiveTags'
                PROVE  \/ data_store'[tag_to_location'[u]] = u
                       \/ \E v \in Threads : /\ pc'[v] = "set_vector"
                                               /\ tag'[v] = u
                                               /\ location'[v] = tag_to_location'[u]
    BY DEF VectorOfTagSync, VectorOfTag
  <2>1. u \in Tags
    BY DEF LiveTags
  <2>2. CASE u = t
    BY <1>5, <1>6, <2>1, <2>2
  <2>3. CASE u # t
    <3>1. tag_to_location'[u] = tag_to_location[u] /\ u \in LiveTags
      BY <1>6, <2>1, <2>3 DEF LiveTags
    <3>2. CASE data_store[tag_to_location[u]] = u
      BY <1>4, <3>1, <3>2
    <3>3. ASSUME NEW v \in Threads, pc[v] = "set_vector", tag[v] = u,
                 location[v] = tag_to_location[u]
          PROVE  /\ pc'[v] = "set_vector" /\ tag'[v] = u
                 /\ location'[v] = tag_to_location'[u]
      BY <1>4, <1>5, <3>1, <3>3
    <3>. QED BY <3>1, <3>2, <3>3 DEF VectorOfTagSync, VectorOfTag
  <2>. QED BY <2>2, <2>3
<1>. QED BY <1>7, <1>8

\* The thread stores its vector at a slot that is its own tag's or nobody's.
LEMMA StoreKeepsVectors ==
    ASSUME NEW th \in Threads, SlotInv, PendingInv, VectorOfTagSync,
           InsertSetVector(th), UNCHANGED conc_consolidate
    PROVE  PendingInv' /\ VectorOfTagSync'
<1>1. TypeOK /\ TagMapsInverse
  BY DEF SlotInv
<1>2. /\ pc[th] = "set_vector" /\ pc' = [pc EXCEPT ![th] = "link"]
      /\ data_store' = [data_store EXCEPT ![location[th]] = tag[th]]
      /\ UNCHANGED <<empty_slots, tag_to_location, location_to_tag, location, tag>>
  BY DEF InsertSetVector, slotVars, localVars
<1>3. \A v \in Threads : pc'[v] = IF v = th THEN "link" ELSE pc[v]
  BY <1>1, <1>2 DEF TypeOK
<1>4. PendingInv'
  BY <1>2, <1>3 DEF PendingInv
<1>5. VectorOfTagSync'
  <2>. SUFFICES ASSUME ~conc_consolidate, NEW u \in LiveTags
                PROVE  \/ data_store'[tag_to_location[u]] = u
                       \/ \E v \in Threads : /\ pc'[v] = "set_vector"
                                               /\ tag[v] = u
                                               /\ location[v] = tag_to_location[u]
    BY <1>2 DEF VectorOfTagSync, VectorOfTag, LiveTags
  <2>1. /\ tag_to_location[u] \in Slots /\ u # NoTag
        /\ location_to_tag[tag_to_location[u]] = u
    BY <1>1, ParameterAssumption DEF TypeOK, TagMapsInverse, LiveTags
  <2>2. CASE tag_to_location[u] = location[th]
    <3>1. tag[th] = u
      BY <1>2, <2>1, <2>2 DEF PendingInv
    <3>. QED BY <1>1, <1>2, <2>1, <2>2, <3>1 DEF TypeOK
  <2>3. CASE tag_to_location[u] # location[th]
    <3>1. data_store'[tag_to_location[u]] = data_store[tag_to_location[u]]
      BY <1>1, <1>2, <2>1, <2>3 DEF TypeOK
    <3>. QED BY <1>3, <2>3, <3>1 DEF VectorOfTagSync, VectorOfTag
  <2>. QED BY <2>2, <2>3
<1>. QED BY <1>4, <1>5

\* A deletion removes tags and moves no point.
LEMMA DeleteKeepsVectors ==
    ASSUME NEW tags \in SUBSET Tags, SlotInv, PendingInv, VectorOfTagSync, DeleteTags(tags),
           UNCHANGED <<conc_consolidate, empty_slots, data_store, pc, localVars>>
    PROVE  PendingInv' /\ VectorOfTagSync'
<1>1. TypeOK
  BY DEF SlotInv
<1>2. /\ \A l \in Slots : location_to_tag'[l] \in {location_to_tag[l], NoTag}
      /\ \A t \in Tags : tag_to_location'[t] \in {tag_to_location[t], NoLocation}
  BY DEF DeleteTags
<1>3. PendingInv'
  BY <1>2 DEF PendingInv, localVars
<1>4. VectorOfTagSync'
  BY <1>2 DEF VectorOfTagSync, VectorOfTag, LiveTags, localVars
<1>. QED BY <1>3, <1>4

\* Without concurrent consolidation no insertion is under way when slots are
\* released.
LEMMA ReleaseKeepsVectors ==
    ASSUME NEW th \in Threads, SlotInv, LockInv, PendingInv, VectorOfTagSync,
           ConsolidateRelease(th), UNCHANGED conc_consolidate
    PROVE  PendingInv' /\ VectorOfTagSync'
<1>1. TypeOK
  BY DEF SlotInv
<1>2. /\ pc[th] = "process" /\ pc' = [pc EXCEPT ![th] = "return_report"]
      /\ UNCHANGED <<tag_to_location, location_to_tag, data_store, location, tag>>
  BY DEF ConsolidateRelease
<1>3. \A v \in Threads : pc'[v] = IF v = th THEN "return_report" ELSE pc[v]
  BY <1>1, <1>2 DEF TypeOK
<1>4. ~conc_consolidate => \A v \in Threads : pc[v] # "set_vector"
  BY <1>2 DEF LockInv, InsertSteps
<1>5. PendingInv'
  BY <1>3, <1>4 DEF PendingInv
<1>6. VectorOfTagSync'
  BY <1>2, <1>3, <1>4 DEF VectorOfTagSync, VectorOfTag, LiveTags
<1>. QED BY <1>5, <1>6

\* No step of the index puts a vector where another live tag's belongs.
LEMMA VectorsNext ==
    SlotInv /\ LockInv /\ PendingInv /\ VectorOfTagSync /\ [Next]_vars
        => PendingInv' /\ VectorOfTagSync'
<1>. SUFFICES ASSUME SlotInv, LockInv, PendingInv, VectorOfTagSync, [Next]_vars
              PROVE  PendingInv' /\ VectorOfTagSync'
  OBVIOUS
<1>. DEFINE Kept == PendingInv' /\ VectorOfTagSync'
<1>1. TypeOK
  BY DEF SlotInv
<1>2. CASE UNCHANGED vars
  BY <1>2, VectorsUntouched DEF vars, slotVars, localVars, VectorVars
<1>3. ASSUME Next PROVE Kept
  <2>. USE DEF slotVars, localVars, VectorVars
  <2>0. UNCHANGED conc_consolidate
    BY <1>3 DEF Next
  <2>1. ASSUME NEW th \in Threads, NEW t \in Tags, InsertFull(th, t) PROVE Kept
    BY <2>0, <2>1, VectorsUntouched DEF InsertFull
  <2>2. ASSUME NEW th \in Threads, NEW t \in Tags, InsertDuplicate(th, t) PROVE Kept
    <3>1. empty_slots' = empty_slots
      BY <2>2, SlotToReserve DEF InsertDuplicate, SlotInv
    <3>. QED BY <2>0, <2>2, <3>1, VectorsUntouched DEF InsertDuplicate
  <2>3. ASSUME NEW th \in Threads, NEW t \in Tags, InsertReserve(th, t) PROVE Kept
    BY <2>0, <2>3, RegisterKeepsVectors
  <2>4. ASSUME NEW th \in Threads, InsertSetVector(th) PROVE Kept
    BY <2>0, <2>4, StoreKeepsVectors
  <2>5. ASSUME NEW th \in Threads, InsertReturn(th) PROVE Kept
    BY <1>1, <2>0, <2>5, VectorsUntouched DEF InsertReturn, TypeOK
  <2>6. ASSUME NEW t \in Tags, LazyDelete(t) PROVE Kept
    BY <2>0, <2>6, DeleteKeepsVectors DEF LazyDelete
  <2>7. ASSUME NEW tags \in SUBSET Tags, LazyDeleteMany(tags) PROVE Kept
    BY <2>0, <2>7, DeleteKeepsVectors DEF LazyDeleteMany
  <2>8. ASSUME NEW th \in Threads, ConsolidateRefused(th) PROVE Kept
    BY <2>0, <2>8, VectorsUntouched DEF ConsolidateRefused
  <2>9. ASSUME NEW th \in Threads, ConsolidateCheck(th) PROVE Kept
    BY <1>1, <2>0, <2>9, VectorsUntouched DEF ConsolidateCheck, TypeOK
  <2>10. ASSUME NEW th \in Threads, ConsolidateLockUpdate(th) PROVE Kept
    BY <1>1, <2>0, <2>10, VectorsUntouched DEF ConsolidateLockUpdate, TypeOK
  <2>11. ASSUME NEW th \in Threads, ConsolidateStart(th) PROVE Kept
    BY <1>1, <2>0, <2>11, VectorsUntouched DEF ConsolidateStart, TypeOK
  <2>12. ASSUME NEW th \in Threads, ConsolidateLockFail(th) PROVE Kept
    BY <1>1, <2>0, <2>12, VectorsUntouched DEF ConsolidateLockFail, TypeOK
  <2>13. ASSUME NEW th \in Threads, ConsolidateRelease(th) PROVE Kept
    BY <2>0, <2>13, ReleaseKeepsVectors
  <2>14. ASSUME NEW th \in Threads, ConsolidateReturn(th) PROVE Kept
    BY <1>1, <2>0, <2>14, VectorsUntouched DEF ConsolidateReturn, TypeOK
  <2>. QED BY <1>3, <2>1, <2>2, <2>3, <2>4, <2>5, <2>6, <2>7, <2>8, <2>9, <2>10,
              <2>11, <2>12, <2>13, <2>14 DEF Next, Insert, Consolidate
<1>. QED BY <1>2, <1>3

-----------------------------------------------------------------------------
\* The tag maps have the same size, because they are inverses.
LEMMA TagMapsSameSize ==
    ASSUME SlotInv
    PROVE  Cardinality(LiveSlots) = Cardinality(LiveTags)
<1>1. TypeOK /\ TagMapsInverse
  BY DEF SlotInv
<1>. DEFINE tagOf == [l \in LiveSlots |-> location_to_tag[l]]
<1>2. tagOf \in [LiveSlots -> LiveTags]
  BY <1>1, ParameterAssumption DEF TypeOK, TagMapsInverse, LiveSlots, LiveTags, Slots, NoLocation
<1>3. \A l, m \in LiveSlots : tagOf[l] = tagOf[m] => l = m
  BY <1>1 DEF TagMapsInverse
<1>4. \A t \in LiveTags : \E l \in LiveSlots : tagOf[l] = t
  BY <1>1, ParameterAssumption DEF TypeOK, TagMapsInverse, LiveSlots, LiveTags
<1>5. ExistsBijection(LiveSlots, LiveTags)
  BY <1>2, <1>3, <1>4 DEF ExistsBijection, Bijection, Injection, Surjection, IsInjective
<1>6. IsFiniteSet(LiveSlots)
  BY SlotSets DEF LiveSlots
<1>. QED BY <1>5, <1>6, FS_Bijection

\* The entry check of consolidate_deletes finds the counts right unless another
\* consolidation has locations in hand.
LEMMA CheckSucceeds ==
    ASSUME SlotInv
    PROVE  /\ ConsolidateStatus # "throw"
           /\ OldLocations = {} => ConsolidateStatus = "SUCCESS"
<1>1. TypeOK /\ SlotsAccounted
  BY DEF SlotInv
<1>2. Cardinality(empty_slots) + nd = MaxPoints
  BY <1>1 DEF SlotsAccounted
<1>3. OldLocations = {} => Cardinality(LiveSlots) + Cardinality(delete_set) = nd
  <2>. SUFFICES ASSUME OldLocations = {}
                PROVE  Cardinality(LiveSlots) + Cardinality(delete_set) = nd
    OBVIOUS
  <2>. DEFINE used == LiveSlots \cup delete_set
  <2>1. /\ LiveSlots \in SUBSET Slots /\ delete_set \in SUBSET Slots
        /\ empty_slots \in SUBSET Slots /\ used \in SUBSET Slots
    BY <1>1 DEF TypeOK, LiveSlots
  <2>2. Cardinality(used) = Cardinality(LiveSlots) + Cardinality(delete_set)
    <3>1. LiveSlots \cap delete_set = {}
      BY <1>1 DEF SlotsAccounted
    <3>. QED BY <2>1, <3>1, SlotSets
  <2>3. empty_slots \cup used = Slots /\ empty_slots \cap used = {}
    BY <1>1 DEF SlotsAccounted
  <2>4. MaxPoints = Cardinality(empty_slots) + Cardinality(used)
    BY <2>1, <2>3, SlotSets
  <2>5. Cardinality(used) \in Nat /\ Cardinality(empty_slots) \in Nat /\ nd \in Int
    BY <1>1, <2>1, SlotSets DEF TypeOK
  <2>. QED BY <1>2, <2>2, <2>4, <2>5
<1>. QED BY <1>2, <1>3, TagMapsSameSize DEF ConsolidateStatus

\* A release never finds one of its locations empty already.
LEMMA ReleaseSucceeds ==
    ASSUME NEW th \in Threads, SlotInv
    PROVE  ReleaseStatus(old_delete_set[th]) = "SUCCESS"
<1>. DEFINE old == old_delete_set[th]
<1>1. TypeOK /\ SlotsAccounted
  BY DEF SlotInv
<1>2. old \subseteq Slots /\ old \cap empty_slots = {}
  BY <1>1 DEF TypeOK, SlotsAccounted, OldLocations
<1>3. /\ Cardinality(old) \in Nat /\ Cardinality(empty_slots) \in Nat /\ nd \in Int
      /\ Cardinality(empty_slots \cup old) = Cardinality(empty_slots) + Cardinality(old)
  BY <1>1, <1>2, SlotSets DEF TypeOK
<1>4. Cardinality(empty_slots) + nd = MaxPoints
  BY <1>1 DEF SlotsAccounted
<1>5. Cardinality(empty_slots \cup old) + (nd - Cardinality(old)) = MaxPoints
  BY <1>3, <1>4
<1>. QED BY <1>2, <1>5 DEF ReleaseStatus

\* No step answers with an error the counts do not justify.
LEMMA CountsNext ==
    SlotInv /\ LockInv /\ CountsConsistent /\ [Next]_vars => CountsConsistent'
<1>. SUFFICES ASSUME SlotInv, LockInv, CountsConsistent, [Next]_vars
              PROVE  CountsConsistent'
  OBVIOUS
<1>1. CASE UNCHANGED vars
  BY <1>1 DEF CountsConsistent, vars
<1>2. ASSUME Next PROVE CountsConsistent'
  <2>0. UNCHANGED conc_consolidate
    BY <1>2 DEF Next
  <2>1. ASSUME NEW th \in Threads, NEW t \in Tags, Insert(th, t) PROVE CountsConsistent'
    BY <2>1 DEF Insert, InsertFull, InsertDuplicate, InsertReserve, RegisterPoint,
                Reply, CountsConsistent
  <2>2. ASSUME NEW th \in Threads, InsertSetVector(th) \/ InsertReturn(th) PROVE CountsConsistent'
    BY <2>0, <2>2 DEF InsertSetVector, InsertReturn, CountsConsistent
  <2>3. ASSUME NEW t \in Tags, LazyDelete(t) PROVE CountsConsistent'
    BY <2>3 DEF LazyDelete, Reply, CountsConsistent
  <2>4. ASSUME NEW tags \in SUBSET Tags, LazyDeleteMany(tags) PROVE CountsConsistent'
    BY <2>4 DEF LazyDeleteMany, Reply, CountsConsistent
  <2>5. ASSUME NEW th \in Threads, ConsolidateRefused(th) PROVE CountsConsistent'
    <3>1. ~conc_consolidate => OldLocations = {}
      <4>1. ~conc_consolidate => \A u \in Threads : pc[u] # "process"
        BY <2>5 DEF ConsolidateRefused, LockInv
      <4>. QED BY <4>1 DEF SlotInv, OldSetsOwned, OldLocations
    <3>. QED BY <2>0, <2>5, <3>1, CheckSucceeds DEF ConsolidateRefused, Reply, CountsConsistent
  <2>6. ASSUME NEW th \in Threads, ConsolidateLockFail(th) PROVE CountsConsistent'
    BY <2>6 DEF ConsolidateLockFail, Reply, CountsConsistent
  <2>7. ASSUME NEW th \in Threads, ConsolidateRelease(th) PROVE CountsConsistent'
    BY <2>7, ReleaseSucceeds DEF ConsolidateRelease, Reply, CountsConsistent
  <2>8. ASSUME NEW th \in Threads, ConsolidateCheck(th) \/ ConsolidateLockUpdate(th)
                                     \/ ConsolidateStart(th) \/ ConsolidateReturn(th)
        PROVE  CountsConsistent'
    BY <2>0, <2>8 DEF ConsolidateCheck, ConsolidateLockUpdate, ConsolidateStart,
                      ConsolidateReturn, CountsConsistent
  <2>. QED BY <1>2, <2>1, <2>2, <2>3, <2>4, <2>5, <2>6, <2>7, <2>8 DEF Next, Consolidate
<1>. QED BY <1>1, <1>2

-----------------------------------------------------------------------------
\* The inductive invariant of slots, locks, pending insertions and answers holds
\* in every state.
THEOREM IndexInvAlways == Spec => []IndexInv
<1>1. Init => IndexInv
  BY SlotInvInit, IndexInvInit DEF IndexInv
<1>2. IndexInv /\ [Next]_vars => IndexInv'
  BY SlotInvNext, LockInvNext, VectorsNext, CountsNext DEF IndexInv
<1>. QED BY <1>1, <1>2, PTL DEF Spec

\* Without concurrent consolidation a live tag's slot holds its own vector or is
\* still being filled by the thread that inserts it: no other insertion's
\* set_vector ever lands there.
THEOREM VectorsNeverOverwritten == Spec => []VectorOfTagSync
<1>1. IndexInv => VectorOfTagSync
  BY DEF IndexInv
<1>. QED BY <1>1, IndexInvAlways, PTL

\* consolidate_deletes and release_locations never throw over the counts, and
\* answer INCONSISTENT_COUNT_ERROR only with concurrent consolidation.
THEOREM CountsAlwaysConsistent == Spec => []CountsConsistent
<1>1. IndexInv => CountsConsistent
  BY DEF IndexInv
<1>. QED BY <1>1, IndexInvAlways, PTL

-----------------------------------------------------------------------------
(* DynamicIndex implements TagStore: each step of a call is a step of the  *)
(* store or changes nothing a caller can tell.  A room of the store is a   *)
(* slot; the cardinalities the store counts are those of the sets          *)
(* SlotsAccounted partitions Slots into, and its phase is the step of the  *)
(* holder of _consolidate_lock.                                            *)

\* The store is unchanged when none of what its variables stand for is.
StoreVars == <<LiveTags, Cardinality(delete_set), Cardinality(OldLocations), Phase, outcome>>

-----------------------------------------------------------------------------
\* TagStore counts with the same Cardinality.
LEMMA SameCardinality == \A S : Store!Cardinality(S) = Cardinality(S)
BY DEF Store!Cardinality, Cardinality, Store!IsFiniteSet, IsFiniteSet

\* The rooms in use are the _nd slots in use.
LEMMA UsedIsNd ==
    ASSUME SlotInv
    PROVE  /\ Store!Used = nd
           /\ Cardinality(delete_set) \in Nat /\ Cardinality(OldLocations) \in Nat
           /\ OldLocations # {} => Cardinality(OldLocations) > 0
<1>1. TypeOK /\ SlotsAccounted
  BY DEF SlotInv
<1>2. /\ LiveSlots \in SUBSET Slots /\ delete_set \in SUBSET Slots
      /\ OldLocations \in SUBSET Slots /\ empty_slots \in SUBSET Slots
  BY <1>1 DEF TypeOK, LiveSlots, OldLocations
<1>. DEFINE held == LiveSlots \cup delete_set
            used == held \cup OldLocations
<1>3. Cardinality(held) = Cardinality(LiveSlots) + Cardinality(delete_set)
  <2>1. LiveSlots \cap delete_set = {}
    BY <1>1 DEF SlotsAccounted
  <2>. QED BY <1>2, <2>1, SlotSets
<1>4. Cardinality(used) = Cardinality(held) + Cardinality(OldLocations)
  <2>1. held \in SUBSET Slots /\ held \cap OldLocations = {}
    BY <1>1, <1>2 DEF SlotsAccounted
  <2>. QED BY <1>2, <2>1, SlotSets
<1>5. MaxPoints = Cardinality(empty_slots) + Cardinality(used)
  <2>1. used \in SUBSET Slots /\ empty_slots \cup used = Slots /\ empty_slots \cap used = {}
    BY <1>1, <1>2 DEF SlotsAccounted
  <2>. QED BY <1>2, <2>1, SlotSets
<1>6. /\ Cardinality(LiveSlots) \in Nat /\ Cardinality(delete_set) \in Nat
      /\ Cardinality(OldLocations) \in Nat /\ Cardinality(empty_slots) \in Nat /\ nd \in Int
  BY <1>1, <1>2, SlotSets DEF TypeOK
<1>7. nd = Cardinality(LiveSlots) + Cardinality(delete_set) + Cardinality(OldLocations)
  <2>1. Cardinality(empty_slots) + nd = MaxPoints
    BY <1>1 DEF SlotsAccounted
  <2>2. Cardinality(held) \in Nat /\ Cardinality(used) \in Nat
    BY <1>2, SlotSets
  <2>. HIDE DEF held, used
  <2>3. Cardinality(empty_slots) + nd = Cardinality(empty_slots) + Cardinality(used)
    BY <1>5, <2>1
  <2>4. nd = Cardinality(used)
    BY <1>6, <2>2, <2>3
  <2>. QED BY <1>3, <1>4, <1>6, <2>2, <2>4
<1>8. OldLocations # {} => Cardinality(OldLocations) # 0
  BY <1>2, SlotSets, FS_EmptySet
<1>9. Store!Used = nd
  BY <1>7, TagMapsSameSize, SameCardinality DEF Store!Used
<1>10. OldLocations # {} => Cardinality(OldLocations) > 0
  BY <1>6, <1>8
<1>. QED BY <1>6, <1>9, <1>10

\* No consolidation has locations in hand while _consolidate_lock is free, and
\* only its holder's when it is taken.
LEMMA OldLocationsOfHolder ==
    ASSUME SlotInv, LockInv
    PROVE  /\ consolidate_lock = NoThread => OldLocations = {}
           /\ \A th \in Threads : consolidate_lock = th => OldLocations = old_delete_set[th]
<1>1. \A th \in Threads : old_delete_set[th] # {} => consolidate_lock = th
  BY DEF SlotInv, OldSetsOwned, LockInv
<1>. QED BY <1>1, ParameterAssumption DEF OldLocations

\* A thread that is in no step of a consolidation's second half holds no lock, so
\* its own steps leave the phase alone.
LEMMA PhaseKept ==
    ASSUME TypeOK, LockInv, UNCHANGED consolidate_lock, NEW th \in Threads,
           pc[th] \notin {"process", "return_report"},
           \A u \in Threads : u # th => pc'[u] = pc[u]
    PROVE  Phase' = Phase
<1>1. consolidate_lock # th
  BY DEF LockInv
<1>2. consolidate_lock \in Threads \cup {NoThread}
  BY DEF TypeOK
<1>. QED BY <1>1, <1>2 DEF Phase

\* A step that changes nothing the mapping reads is a stuttering step of the store.
LEMMA StoreUntouched ==
    ASSUME UNCHANGED StoreVars
    PROVE  UNCHANGED Store!vars
BY DEF StoreVars, Store!vars, Phase

\* Deleting tags turns one live slot each into a deleted one.
LEMMA DeletedRooms ==
    ASSUME NEW tags \in SUBSET Tags, SlotInv, DeleteTags(tags)
    PROVE  /\ LiveTags' = LiveTags \ tags
           /\ Cardinality(delete_set') =
                Cardinality(delete_set) + Cardinality(LiveTags \cap tags)
<1>1. TypeOK /\ SlotsAccounted /\ TagMapsInverse
  BY DEF SlotInv
<1>. DEFINE deleted == tags \cap LiveTags
            gone == {tag_to_location[t] : t \in deleted}
            slotOf == [t \in deleted |-> tag_to_location[t]]
<1>2. /\ delete_set' = delete_set \cup gone
      /\ tag_to_location' = [t \in Tags |->
            IF t \in deleted THEN NoLocation ELSE tag_to_location[t]]
  BY DEF DeleteTags
<1>3. gone \subseteq LiveSlots
  BY <1>1, ParameterAssumption DEF TypeOK, TagMapsInverse, LiveSlots, LiveTags
<1>4. Cardinality(delete_set') = Cardinality(delete_set) + Cardinality(gone)
  BY <1>1, <1>2, <1>3, SlotSets DEF TypeOK, SlotsAccounted, LiveSlots
<1>5. Cardinality(gone) = Cardinality(deleted)
  <2>1. slotOf \in Surjection(deleted, gone)
    BY DEF Surjection
  <2>2. \A t, u \in deleted : slotOf[t] = slotOf[u] => t = u
    BY <1>1 DEF TagMapsInverse
  <2>3. slotOf \in Bijection(deleted, gone)
    BY <2>1, <2>2 DEF Bijection, Injection, Surjection, IsInjective
  <2>4. IsFiniteSet(gone) /\ IsFiniteSet(deleted)
    <3>1. IsFiniteSet(gone)
      BY <1>3, SlotSets DEF LiveSlots
    <3>. QED BY <2>3, <3>1, FS_Injection DEF Bijection
  <2>. QED BY <2>3, <2>4, FS_Bijection DEF ExistsBijection
<1>6. LiveTags' = LiveTags \ tags
  BY <1>2 DEF LiveTags
<1>. QED BY <1>4, <1>5, <1>6

-----------------------------------------------------------------------------
\* A new index is an empty store.
LEMMA StoreInit == Init => Store!Init
<1>. SUFFICES ASSUME Init PROVE Store!Init
  OBVIOUS
<1>1. LiveTags = {} /\ OldLocations = {} /\ delete_set = {}
  BY DEF Init, LiveTags, OldLocations
<1>2. consolidate_lock = NoThread /\ outcome = Reply("none", NoTag, "0")
  BY DEF Init
<1>. QED BY <1>1, <1>2, FS_EmptySet DEF Store!Init, Store!Reply, Reply, Phase

\* insert_point, up to the release of _tag_lock.
LEMMA InsertImplements ==
    ASSUME NEW th \in Threads, NEW t \in Tags, SlotInv, LockInv, Insert(th, t)
    PROVE  Store!Insert(t) \/ Store!RejectInsert(t)
<1>1. TypeOK
  BY DEF SlotInv
<1>2. Store!Used = nd /\ nd \in Int /\ MaxPoints \in Int
  BY <1>1, UsedIsNd, ParameterAssumption DEF TypeOK
<1>3. ASSUME InsertFull(th, t) PROVE Store!RejectInsert(t)
  <2>1. UNCHANGED <<LiveTags, delete_set, OldLocations, Phase>>
    BY <1>3 DEF InsertFull, slotVars, lockVars, localVars, LiveTags, OldLocations, Phase
  <2>. QED BY <1>2, <1>3, <2>1 DEF InsertFull, Store!RejectInsert, Store!Reply, Reply, Phase
<1>4. ASSUME InsertDuplicate(th, t) PROVE Store!RejectInsert(t)
  <2>1. delete_set' = delete_set
    BY <1>4, SlotToReserve DEF InsertDuplicate, SlotInv, SlotsAccounted
  <2>2. UNCHANGED <<LiveTags, OldLocations, Phase>>
    BY <1>4 DEF InsertDuplicate, lockVars, localVars, LiveTags, OldLocations, Phase
  <2>3. t \in LiveTags
    BY <1>4 DEF InsertDuplicate, LiveTags
  <2>. QED BY <1>4, <2>1, <2>2, <2>3 DEF InsertDuplicate, Store!RejectInsert, Store!Reply, Reply, Phase
<1>5. ASSUME InsertReserve(th, t) PROVE Store!Insert(t)
  <2>1. PICK l \in Reservable :
          /\ ReserveLocation(l)
          /\ tag_to_location' = [tag_to_location EXCEPT ![t] = l]
    BY <1>5 DEF InsertReserve, RegisterPoint
  <2>2. nd < MaxPoints /\ l \in Slots /\ delete_set' = delete_set
    BY <1>1, <2>1, SlotToReserve DEF ReserveLocation, SlotInv, SlotsAccounted, TypeOK
  <2>3. LiveTags' = LiveTags \cup {t} /\ t \notin LiveTags
    BY <1>1, <1>5, <2>1, <2>2 DEF InsertReserve, TypeOK, LiveTags, Slots, NoLocation
  <2>4. OldLocations' = OldLocations
    BY <1>5 DEF InsertReserve, RegisterPoint, OldLocations
  <2>5. Phase' = Phase
    BY <1>1, <1>5, PhaseKept DEF InsertReserve, RegisterPoint, TypeOK
  <2>6. outcome' = Reply("insert", t, "0")
    BY <1>5 DEF InsertReserve, RegisterPoint
  <2>. QED BY <1>2, <2>2, <2>3, <2>4, <2>5, <2>6 DEF Store!Insert, Store!Reply, Reply, Phase
<1>. QED BY <1>3, <1>4, <1>5 DEF Insert

\* lazy_delete of one tag deletes it from the store, or is refused.
LEMMA DeleteImplements ==
    ASSUME NEW t \in Tags, SlotInv, LazyDelete(t)
    PROVE  Store!Delete(t) \/ Store!RejectDelete(t)
<1>1. /\ LiveTags' = LiveTags \ {t}
      /\ Cardinality(delete_set') = Cardinality(delete_set) + Cardinality(LiveTags \cap {t})
  BY DeletedRooms DEF LazyDelete
<1>2. UNCHANGED <<OldLocations, Phase>>
  BY DEF LazyDelete, lockVars, localVars, OldLocations, Phase
<1>3. Cardinality(delete_set) \in Nat
  BY UsedIsNd
<1>4. CASE t \in LiveTags
  <2>1. Cardinality(LiveTags \cap {t}) = 1
    <3>1. LiveTags \cap {t} = {t}
      BY <1>4
    <3>. QED BY <3>1, FS_Singleton
  <2>2. outcome' = Reply("delete", t, "0")
    BY <1>4 DEF LazyDelete
  <2>. QED BY <1>1, <1>2, <1>4, <2>1, <2>2 DEF Store!Delete, Store!Reply, Reply, Phase
<1>5. CASE t \notin LiveTags
  <2>1. Cardinality(LiveTags \cap {t}) = 0
    <3>1. LiveTags \cap {t} = {}
      BY <1>5
    <3>. QED BY <3>1, FS_EmptySet
  <2>2. outcome' = Reply("delete", t, "-1")
    BY <1>5 DEF LazyDelete
  <2>3. LiveTags' = LiveTags /\ Cardinality(delete_set') = Cardinality(delete_set)
    BY <1>1, <1>3, <1>5, <2>1
  <2>. QED BY <1>2, <1>5, <2>2, <2>3 DEF Store!RejectDelete, Store!Reply, Reply, Phase
<1>. QED BY <1>4, <1>5

\* lazy_delete of a vector of tags deletes those that are present.
LEMMA DeleteManyImplements ==
    ASSUME NEW tags \in SUBSET Tags, SlotInv, LazyDeleteMany(tags)
    PROVE  Store!DeleteMany(tags)
<1>1. /\ LiveTags' = LiveTags \ tags
      /\ Cardinality(delete_set') = Cardinality(delete_set) + Cardinality(LiveTags \cap tags)
  BY DeletedRooms DEF LazyDeleteMany
<1>2. UNCHANGED <<OldLocations, Phase>> /\ outcome' = Reply("delete_many", NoTag, "0")
  BY DEF LazyDeleteMany, lockVars, localVars, OldLocations, Phase
<1>. QED BY <1>1, <1>2, SameCardinality DEF Store!DeleteMany, Store!Reply, Reply, Phase

\* The swap of _delete_set, the release of its locations and the return of the
\* report begin, finish and end the store's reclamation.
LEMMA ConsolidateImplements ==
    ASSUME NEW th \in Threads, SlotInv, LockInv,
           ConsolidateStart(th) \/ ConsolidateRelease(th) \/ ConsolidateReturn(th)
    PROVE  Store!BeginReclaim \/ Store!FinishReclaim \/ Store!EndReclaim
<1>1. TypeOK
  BY DEF SlotInv
<1>2. ASSUME ConsolidateStart(th) PROVE Store!BeginReclaim
  <2>1. OldLocations = {} /\ Phase = "free"
    BY <1>2, OldLocationsOfHolder DEF ConsolidateStart, Phase
  <2>2. \A u \in Threads : old_delete_set'[u] = IF u = th THEN delete_set ELSE old_delete_set[u]
    BY <1>1, <1>2 DEF ConsolidateStart, TypeOK
  <2>3. OldLocations' = delete_set
    BY <2>1, <2>2 DEF OldLocations
  <2>4. Phase' = "marked"
    BY <1>1, <1>2, ParameterAssumption DEF ConsolidateStart, TypeOK, Phase
  <2>5. LiveTags' = LiveTags /\ outcome' = outcome /\ Cardinality(delete_set') = 0
    BY <1>2, FS_EmptySet DEF ConsolidateStart, LiveTags
  <2>. QED BY <2>1, <2>3, <2>4, <2>5 DEF Store!BeginReclaim, Phase
<1>3. ASSUME ConsolidateRelease(th) PROVE Store!FinishReclaim
  <2>1. consolidate_lock = th /\ Phase = "marked"
    BY <1>3, ParameterAssumption DEF ConsolidateRelease, LockInv, Phase
  <2>2. OldLocations = old_delete_set[th]
    BY <2>1, OldLocationsOfHolder
  <2>3. \A u \in Threads : old_delete_set'[u] = IF u = th THEN {} ELSE old_delete_set[u]
    BY <1>1, <1>3 DEF ConsolidateRelease, TypeOK
  <2>4. \A u \in Threads : u # th => old_delete_set[u] = {}
    BY <2>1 DEF SlotInv, OldSetsOwned, LockInv
  <2>5. OldLocations' = {}
    BY <2>3, <2>4 DEF OldLocations
  <2>6. Phase' = "done"
    BY <1>1, <1>3, <2>1, ParameterAssumption DEF ConsolidateRelease, TypeOK, Phase
  <2>7. outcome' = Reply("consolidate", NoTag, "SUCCESS")
    BY <1>3, ReleaseSucceeds DEF ConsolidateRelease
  <2>8. LiveTags' = LiveTags /\ delete_set' = delete_set /\ Cardinality(OldLocations') = 0
    BY <1>3, <2>5, FS_EmptySet DEF ConsolidateRelease, LiveTags
  <2>. QED BY <2>1, <2>6, <2>7, <2>8 DEF Store!FinishReclaim, Store!Reply, Reply, Phase
<1>4. ASSUME ConsolidateReturn(th) PROVE Store!EndReclaim
  <2>1. Phase = "done" /\ Phase' = "free"
    BY <1>4, ParameterAssumption DEF ConsolidateReturn, LockInv, Phase
  <2>2. UNCHANGED <<LiveTags, delete_set, OldLocations, outcome>>
    BY <1>4 DEF ConsolidateReturn, slotVars, localVars, LiveTags, OldLocations
  <2>. QED BY <2>1, <2>2 DEF Store!EndReclaim, Phase
<1>. QED BY <1>2, <1>3, <1>4

\* A consolidation is turned away only while another one holds the lock, or
\* holds locations.
LEMMA RefusalImplements ==
    ASSUME NEW th \in Threads, SlotInv, LockInv,
           ConsolidateRefused(th) \/ ConsolidateLockFail(th)
    PROVE  \E status \in {"LOCK_FAIL", "INCONSISTENT_COUNT_ERROR"} : Store!RefuseReclaim(status)
<1>1. TypeOK
  BY DEF SlotInv
<1>2. ASSUME ConsolidateRefused(th) PROVE Store!RefuseReclaim("INCONSISTENT_COUNT_ERROR")
  <2>1. ConsolidateStatus = "INCONSISTENT_COUNT_ERROR" /\ OldLocations # {}
    BY <1>2, CheckSucceeds DEF ConsolidateRefused, ConsolidateStatus
  <2>2. Cardinality(OldLocations) > 0
    BY <2>1, UsedIsNd
  <2>3. UNCHANGED <<LiveTags, delete_set, OldLocations, Phase>>
    BY <1>2 DEF ConsolidateRefused, slotVars, lockVars, localVars, LiveTags, OldLocations, Phase
  <2>. QED BY <1>2, <2>1, <2>2, <2>3
           DEF ConsolidateRefused, Store!RefuseReclaim, Store!Reply, Reply, Phase
<1>3. ASSUME ConsolidateLockFail(th) PROVE Store!RefuseReclaim("LOCK_FAIL")
  <2>1. Phase # "free"
    BY <1>3 DEF ConsolidateLockFail, Phase
  <2>2. Phase' = Phase
    BY <1>1, <1>3, PhaseKept DEF ConsolidateLockFail, TypeOK
  <2>3. UNCHANGED <<LiveTags, delete_set, OldLocations>>
    BY <1>3 DEF ConsolidateLockFail, slotVars, localVars, LiveTags, OldLocations
  <2>. QED BY <1>3, <2>1, <2>2, <2>3
           DEF ConsolidateLockFail, Store!RefuseReclaim, Store!Reply, Reply, Phase
<1>. QED BY <1>2, <1>3

\* The steps a caller cannot tell from doing nothing.
LEMMA SilentSteps ==
    ASSUME NEW th \in Threads, SlotInv, LockInv,
           \/ InsertSetVector(th) \/ InsertReturn(th)
           \/ ConsolidateCheck(th) \/ ConsolidateLockUpdate(th)
    PROVE  UNCHANGED Store!vars
<1>1. TypeOK
  BY DEF SlotInv
<1>2. UNCHANGED <<LiveTags, delete_set, OldLocations, outcome, consolidate_lock>>
  BY DEF InsertSetVector, InsertReturn, ConsolidateCheck, ConsolidateLockUpdate,
         slotVars, lockVars, localVars, LiveTags, OldLocations
<1>3. /\ pc[th] \notin {"process", "return_report"}
      /\ \A u \in Threads : u # th => pc'[u] = pc[u]
  BY <1>1 DEF InsertSetVector, InsertReturn, ConsolidateCheck, ConsolidateLockUpdate, TypeOK
<1>4. Phase' = Phase
  BY <1>1, <1>2, <1>3, PhaseKept
<1>. QED BY <1>2, <1>4, StoreUntouched DEF StoreVars

\* Every step of the index is a step of the store or changes nothing there.
LEMMA StoreNext == SlotInv /\ LockInv /\ [Next]_vars => [Store!Next]_(Store!vars)
<1>. SUFFICES ASSUME SlotInv, LockInv, [Next]_vars PROVE [Store!Next]_(Store!vars)
  OBVIOUS
<1>1. CASE UNCHANGED vars
  <2>1. UNCHANGED StoreVars
    BY <1>1 DEF vars, slotVars, lockVars, localVars, StoreVars, LiveTags, OldLocations, Phase
  <2>. QED BY <2>1, StoreUntouched
<1>2. ASSUME Next PROVE Store!Next \/ UNCHANGED Store!vars
  <2>1. ASSUME NEW th \in Threads, NEW t \in Tags, Insert(th, t) PROVE Store!Next
    BY <2>1, InsertImplements DEF Store!Next
  <2>2. ASSUME NEW t \in Tags, LazyDelete(t) PROVE Store!Next
    BY <2>2, DeleteImplements DEF Store!Next
  <2>3. ASSUME NEW tags \in SUBSET Tags, LazyDeleteMany(tags) PROVE Store!Next
    BY <2>3, DeleteManyImplements DEF Store!Next
  <2>4. ASSUME NEW th \in Threads,
               ConsolidateStart(th) \/ ConsolidateRelease(th) \/ ConsolidateReturn(th)
        PROVE  Store!Next
    BY <2>4, ConsolidateImplements DEF Store!Next
  <2>5. ASSUME NEW th \in Threads, ConsolidateRefused(th) \/ ConsolidateLockFail(th)
        PROVE  Store!Next
    BY <2>5, RefusalImplements DEF Store!Next
  <2>. QED BY <1>2, <2>1, <2>2, <2>3, <2>4, <2>5, SilentSteps DEF Next, Consolidate
<1>. QED BY <1>1, <1>2

\* A dynamic index is a store of tags: duplicates and a full store are refused,
\* a deleted tag's room comes back only through a consolidation that began after
\* the deletion, and consolidations never touch live tags.
THEOREM IndexImplementsTagStore == Spec => ImplementsTagStore
<1>1. IndexInv => SlotInv /\ LockInv
  BY DEF IndexInv
<1>. QED BY <1>1, StoreInit, StoreNext, IndexInvAlways, PTL
         DEF Spec, ImplementsTagStore, Store!Spec
-----------------------------------------------------------------------------
(***************************************************************************)
(* IndexGraph.                                                             *)
(***************************************************************************)

\* What an insertion has in its hands at each of its steps.
InsertionInv(th) ==
    /\ pc[th] \in InsertSteps => location[th] \in Slots
    /\ step[th] # "search" => pc[th] = "link"
    /\ step[th] = "prune" => des[th] \in Nodes
    /\ step[th] # "prune" => copy_of_neighbors[th] = {}
    /\ step[th] = "search" => pruned_list[th] = {}
    /\ pc[th] # "link" \/ step[th] # "search" => found[th] = Frozen

StepInv ==
    /\ GraphTypeOK
    /\ setup \in Setups
    /\ \A th \in Threads : InsertionInv(th)

-----------------------------------------------------------------------------
\* Every step of the graph's specification is one of the index below it.
LEMMA GraphStepIsIndexStep == [GraphNext]_allVars => [Next]_vars
<1>1. CASE UNCHANGED allVars
  BY <1>1 DEF allVars
<1>2. ASSUME GraphNext PROVE [Next]_vars
  <2>0. UNCHANGED conc_consolidate
    BY <1>2 DEF GraphNext
  <2>1. CASE SlotStep
    BY <2>0, <2>1 DEF SlotStep, Next, Consolidate
  <2>2. ASSUME NEW th \in Threads, UNCHANGED vars \/ InsertReturn(th) \/ Consolidate(th)
        PROVE  [Next]_vars
    BY <2>0, <2>2 DEF Next
  <2>3. ASSUME NEW th \in Threads,
               \/ InsertPrune(th) \/ InsertSetNeighbours(th) \/ InterInsertPrune(th)
               \/ \E x \in Nodes : InsertExpand(th, x)
               \/ \E d \in Nodes : InterInsertAdd(th, d) \/ InterInsertCopy(th, d)
               \/ \E loc \in Nodes : \/ ProcessSkip(th, loc) \/ ProcessUnmodified(th, loc)
                                     \/ ProcessRead(th, loc) \/ ProcessWrite(th, loc)
        PROVE  UNCHANGED vars
    BY <2>3 DEF InsertPrune, InsertSetNeighbours, InterInsertPrune, InsertExpand, InterInsertAdd,
                InterInsertCopy, ProcessSkip, ProcessUnmodified, ProcessRead, ProcessWrite
  <2>4. ASSUME NEW th \in Threads, InsertDone(th) PROVE InsertReturn(th)
    BY <2>4 DEF InsertDone
  <2>5. ASSUME NEW th \in Threads, StartProcessing(th) \/ ReleaseProcessed(th) \/ ReturnProcessed(th)
        PROVE  Consolidate(th)
    BY <2>5 DEF StartProcessing, ReleaseProcessed, ReturnProcessed, Consolidate
  <2>. QED BY <1>2, <2>1, <2>2, <2>3, <2>4, <2>5 DEF GraphNext
<1>. QED BY <1>1, <1>2

\* What holds of every behaviour of the index holds with its graph.
THEOREM GraphImplementsIndex == GraphSpec => Spec
<1>1. GraphInit => Init
  BY DEF GraphInit
<1>. QED BY <1>1, GraphStepIsIndexStep, PTL DEF GraphSpec, Spec

-----------------------------------------------------------------------------
\* What the calls of DynamicIndex that leave the graph alone do to a thread: a
\* point being linked is left where it is, and one that is about to be has a slot.
LEMMA CallStep ==
    ASSUME IndexInv, SlotStep, NEW u \in Threads
    PROVE  /\ pc[u] = "link" => pc'[u] = "link"
           /\ pc[u] \in InsertSteps => pc'[u] \in InsertSteps /\ location'[u] = location[u]
           /\ pc[u] \notin InsertSteps /\ pc'[u] \in InsertSteps =>
                 pc[u] = "idle" /\ pc'[u] = "set_vector" /\ location'[u] \in empty_slots
           /\ pc'[u] = "process" <=> pc[u] = "process"
           /\ old_delete_set'[u] = old_delete_set[u]
           /\ pc'[u] = "return_report" <=> pc[u] = "return_report"
<1>. DEFINE Goal ==
        /\ pc[u] = "link" => pc'[u] = "link"
        /\ pc[u] \in InsertSteps => pc'[u] \in InsertSteps /\ location'[u] = location[u]
        /\ pc[u] \notin InsertSteps /\ pc'[u] \in InsertSteps =>
              pc[u] = "idle" /\ pc'[u] = "set_vector" /\ location'[u] \in empty_slots
        /\ pc'[u] = "process" <=> pc[u] = "process"
        /\ old_delete_set'[u] = old_delete_set[u]
        /\ pc'[u] = "return_report" <=> pc[u] = "return_report"
<1>1. TypeOK /\ SlotsAccounted
  BY DEF IndexInv, SlotInv
<1>2. ASSUME UNCHANGED <<pc, location, old_delete_set>> PROVE Goal
  BY <1>2
<1>3. ASSUME NEW th \in Threads, NEW t \in Tags, Insert(th, t) PROVE Goal
  <2>1. CASE InsertFull(th, t) \/ InsertDuplicate(th, t)
    BY <2>1, <1>2 DEF InsertFull, InsertDuplicate, localVars
  <2>2. CASE InsertReserve(th, t)
    <3>1. PICK l \in Reservable : ReserveLocation(l) /\ location' = [location EXCEPT ![th] = l]
      BY <2>2 DEF InsertReserve, RegisterPoint
    <3>2. l \in empty_slots
      BY <1>1, <3>1, SlotToReserve DEF ReserveLocation
    <3>3. /\ pc[th] = "idle" /\ pc' = [pc EXCEPT ![th] = "set_vector"]
          /\ old_delete_set' = old_delete_set
      BY <2>2 DEF InsertReserve, RegisterPoint
    <3>. QED BY <1>1, <3>1, <3>2, <3>3 DEF TypeOK, InsertSteps
  <2>. QED BY <1>3, <2>1, <2>2 DEF Insert
<1>4. ASSUME NEW th \in Threads, InsertSetVector(th) PROVE Goal
  BY <1>1, <1>4 DEF InsertSetVector, localVars, TypeOK, InsertSteps
<1>5. ASSUME NEW t \in Tags, LazyDelete(t) PROVE Goal
  BY <1>2, <1>5 DEF LazyDelete, localVars
<1>6. ASSUME NEW tags \in SUBSET Tags, LazyDeleteMany(tags) PROVE Goal
  BY <1>2, <1>6 DEF LazyDeleteMany, localVars
<1>7. ASSUME NEW th \in Threads, ConsolidateRefused(th) PROVE Goal
  BY <1>2, <1>7 DEF ConsolidateRefused, localVars
<1>8. ASSUME NEW th \in Threads,
             ConsolidateCheck(th) \/ ConsolidateLockUpdate(th) \/ ConsolidateLockFail(th)
      PROVE Goal
  BY <1>1, <1>8 DEF ConsolidateCheck, ConsolidateLockUpdate, ConsolidateLockFail, localVars,
                    TypeOK, InsertSteps
<1>. QED BY <1>3, <1>4, <1>5, <1>6, <1>7, <1>8 DEF SlotStep

-----------------------------------------------------------------------------
\* A new index has lists for all its nodes, and they are empty.
LEMMA StepInvInit == GraphInit => StepInv
<1>. SUFFICES ASSUME GraphInit PROVE StepInv
  OBVIOUS
<1>1. GraphTypeOK
  BY DEF GraphInit, GraphTypeOK, Steps, Nodes
<1>2. ASSUME NEW th \in Threads PROVE InsertionInv(th)
  BY DEF GraphInit, Init, InsertionInv, InsertSteps
<1>. QED BY <1>1, <1>2 DEF GraphInit, StepInv

\* No step takes a list out of the nodes, or an insertion out of its order.
LEMMA StepInvNext ==
    ASSUME IndexInv, IndexInv', StepInv, [GraphNext]_allVars
    PROVE  StepInv'
<1>. USE DEF InsertionInv, insertVars, consolidateVars
<1>0. TypeOK /\ TypeOK' /\ GraphTypeOK /\ \A u \in Threads : InsertionInv(u)
  BY DEF IndexInv, SlotInv, StepInv
<1>. DEFINE Others == \A u \in Threads : InsertionInv(u)'
<1>1. CASE UNCHANGED allVars
  BY <1>1 DEF allVars, vars, graphVars, localVars, StepInv, GraphTypeOK
<1>2. ASSUME GraphNext PROVE StepInv'
  <2>0. setup' \in Setups
    BY <1>2 DEF GraphNext, StepInv
  <2>1. CASE SlotStep
    <3>1. GraphTypeOK'
      BY <1>0, <2>1 DEF SlotStep, graphVars, GraphTypeOK
    <3>2. ASSUME NEW u \in Threads PROVE InsertionInv(u)'
      <4>1. UNCHANGED <<step, found, pruned_list, des, copy_of_neighbors>>
        BY <2>1 DEF SlotStep, graphVars
      <4>2. "link" \in InsertSteps /\ empty_slots \subseteq Slots
        BY <1>0 DEF InsertSteps, TypeOK
      <4>3. pc'[u] \in InsertSteps => location'[u] \in Slots
        BY <1>0, <2>1, <4>2, CallStep
      <4>4. pc[u] = "link" => pc'[u] = "link"
        BY <2>1, CallStep
      <4>. QED BY <1>0, <4>1, <4>3, <4>4
    <3>. QED BY <2>0, <3>1, <3>2 DEF StepInv
  <2>2. ASSUME NEW th \in Threads, NEW x \in Nodes, InsertExpand(th, x) PROVE StepInv'
    <3>1. GraphTypeOK'
      BY <1>0, <2>2 DEF InsertExpand, GraphTypeOK
    <3>2. Others
      BY <1>0, <2>2 DEF InsertExpand, GraphTypeOK, vars, localVars
    <3>. QED BY <2>0, <3>1, <3>2 DEF StepInv
  <2>3. ASSUME NEW th \in Threads, InsertPrune(th) PROVE StepInv'
    <3>1. GraphTypeOK'
      BY <1>0, <2>3 DEF InsertPrune, Prunings, GraphTypeOK, Steps, Nodes
    <3>2. Others
      BY <1>0, <2>3 DEF InsertPrune, GraphTypeOK, vars, localVars
    <3>. QED BY <2>0, <3>1, <3>2 DEF StepInv
  <2>4. ASSUME NEW th \in Threads, InsertSetNeighbours(th) PROVE StepInv'
    <3>1. GraphTypeOK'
      BY <1>0, <2>4 DEF InsertSetNeighbours, GraphTypeOK, Steps
    <3>2. Others
      BY <1>0, <2>4 DEF InsertSetNeighbours, GraphTypeOK, vars, localVars
    <3>. QED BY <2>0, <3>1, <3>2 DEF StepInv
  <2>5. ASSUME NEW th \in Threads, NEW d \in Nodes, InterInsertAdd(th, d) PROVE StepInv'
    <3>1. location[th] \in Nodes
      BY <1>0, <2>5 DEF InterInsertAdd, InsertSteps, Nodes
    <3>2. GraphTypeOK'
      BY <1>0, <2>5, <3>1 DEF InterInsertAdd, GraphTypeOK
    <3>3. Others
      BY <1>0, <2>5 DEF InterInsertAdd, GraphTypeOK, vars, localVars
    <3>. QED BY <2>0, <3>2, <3>3 DEF StepInv
  <2>6. ASSUME NEW th \in Threads, NEW d \in Nodes, InterInsertCopy(th, d) PROVE StepInv'
    <3>1. location[th] \in Nodes
      BY <1>0, <2>6 DEF InterInsertCopy, InsertSteps, Nodes
    <3>2. GraphTypeOK'
      BY <1>0, <2>6, <3>1 DEF InterInsertCopy, GraphTypeOK, Steps
    <3>3. Others
      BY <1>0, <2>6 DEF InterInsertCopy, GraphTypeOK, vars, localVars
    <3>. QED BY <2>0, <3>2, <3>3 DEF StepInv
  <2>7. ASSUME NEW th \in Threads, InterInsertPrune(th) PROVE StepInv'
    <3>1. GraphTypeOK'
      BY <1>0, <2>7 DEF InterInsertPrune, Prunings, GraphTypeOK, Steps
    <3>2. Others
      BY <1>0, <2>7 DEF InterInsertPrune, GraphTypeOK, vars, localVars
    <3>. QED BY <2>0, <3>1, <3>2 DEF StepInv
  <2>8. ASSUME NEW th \in Threads, InsertDone(th) PROVE StepInv'
    <3>1. GraphTypeOK'
      BY <1>0, <2>8 DEF InsertDone, GraphTypeOK, Steps
    <3>2. found[th] = Frozen
      BY <1>0, <2>8 DEF InsertDone
    <3>3. Others
      BY <1>0, <2>8, <3>2 DEF InsertDone, InsertReturn, GraphTypeOK, TypeOK, InsertSteps
    <3>. QED BY <2>0, <3>1, <3>3 DEF StepInv
  <2>9. ASSUME NEW th \in Threads, StartProcessing(th) PROVE StepInv'
    <3>1. GraphTypeOK'
      BY <1>0, <2>9 DEF StartProcessing, GraphTypeOK, LiveSlots
    <3>2. Others
      BY <1>0, <2>9 DEF StartProcessing, ConsolidateStart, TypeOK, InsertSteps
    <3>. QED BY <2>0, <3>1, <3>2 DEF StepInv
  <2>10. ASSUME NEW th \in Threads, ReleaseProcessed(th) \/ ReturnProcessed(th) PROVE StepInv'
    <3>1. GraphTypeOK'
      BY <1>0, <2>10 DEF ReleaseProcessed, ReturnProcessed, graphVars, GraphTypeOK
    <3>2. Others
      BY <1>0, <2>10 DEF ReleaseProcessed, ReturnProcessed, ConsolidateRelease, ConsolidateReturn,
                         graphVars, localVars, TypeOK, InsertSteps
    <3>. QED BY <2>0, <3>1, <3>2 DEF StepInv
  <2>11. ASSUME NEW th \in Threads, NEW loc \in Nodes,
                \/ ProcessSkip(th, loc) \/ ProcessUnmodified(th, loc)
                \/ ProcessRead(th, loc) \/ ProcessWrite(th, loc)
         PROVE  StepInv'
    <3>1. CASE ProcessSkip(th, loc) \/ ProcessUnmodified(th, loc)
      BY <1>0, <2>0, <3>1 DEF ProcessSkip, ProcessUnmodified, GraphTypeOK, StepInv, vars, localVars
    <3>2. CASE ProcessRead(th, loc)
      <4>1. ExpandedNodes(loc, old_delete_set[th]) \subseteq Nodes
        BY <1>0 DEF ExpandedNodes, GraphTypeOK
      <4>2. GraphTypeOK'
        BY <1>0, <3>2, <4>1 DEF ProcessRead, GraphTypeOK
      <4>. QED BY <1>0, <2>0, <3>2, <4>2 DEF ProcessRead, StepInv, vars, localVars
    <3>3. CASE ProcessWrite(th, loc)
      <4>1. PICK S \in SUBSET expanded[loc] : neighbours' = [neighbours EXCEPT ![loc] = S]
        BY <3>3 DEF ProcessWrite, Prunings
      <4>2. expanded' = [x \in DOMAIN expanded \ {loc} |-> expanded[x]] /\ loc \in DOMAIN expanded
        BY <3>3 DEF ProcessWrite
      <4>3. GraphTypeOK'
        BY <1>0, <3>3, <4>1, <4>2 DEF ProcessWrite, GraphTypeOK
      <4>. QED BY <1>0, <2>0, <3>3, <4>3 DEF ProcessWrite, StepInv, vars, localVars
    <3>. QED BY <2>11, <3>1, <3>2, <3>3
  <2>. QED BY <1>2, <2>1, <2>2, <2>3, <2>4, <2>5, <2>6, <2>7, <2>8, <2>9, <2>10, <2>11 DEF GraphNext
<1>. QED BY <1>1, <1>2

\* GraphTypeOK, in every behaviour of an index of any size.
THEOREM GraphTypeCorrect == GraphSpec => []GraphTypeOK
<1>1. GraphInit => StepInv
  BY StepInvInit
<1>2. IndexInv /\ IndexInv' /\ StepInv /\ [GraphNext]_allVars => StepInv'
  BY StepInvNext
<1>3. StepInv => GraphTypeOK
  BY DEF StepInv
<1>. QED BY <1>1, <1>2, <1>3, GraphImplementsIndex, IndexInvAlways, PTL DEF GraphSpec

-----------------------------------------------------------------------------
\* No list names its own node or outgrows the slack, nor does any that is about
\* to be written.
ListInv ==
    /\ \A x \in Nodes : x \notin neighbours[x] /\ Cardinality(neighbours[x]) <= SlackDegree
    /\ \A th \in Threads : /\ step[th] # "search" => location[th] \notin pruned_list[th]
                          /\ Cardinality(pruned_list[th]) <= SlackDegree
    /\ \A x \in DOMAIN expanded : x \notin expanded[x]

\* The nodes are finitely many, part of a list is no longer than the list, and one
\* node more makes it one longer at most.
LEMMA NodeSets ==
    /\ IsFiniteSet(Nodes)
    /\ \A S \in SUBSET Nodes : IsFiniteSet(S) /\ Cardinality(S) \in Nat
    /\ \A S \in SUBSET Nodes : \A T \in SUBSET S : Cardinality(T) <= Cardinality(S)
    /\ \A S \in SUBSET Nodes : \A x \in Nodes : Cardinality(S \cup {x}) <= Cardinality(S) + 1
<1>1. IsFiniteSet(Frozen)
  <2>1. MaxPoints \in Int /\ MaxPoints + NumFrozen - 1 \in Int
    BY ParameterAssumption, GraphAssumption
  <2>. QED BY <2>1, FS_Interval DEF Frozen
<1>2. IsFiniteSet(Nodes)
  BY <1>1, SlotSets, FS_Union DEF Nodes
<1>3. \A S \in SUBSET Nodes : IsFiniteSet(S) /\ Cardinality(S) \in Nat
  BY <1>2, FS_Subset, FS_CardinalityType
<1>5. \A S \in SUBSET Nodes : \A T \in SUBSET S : Cardinality(T) <= Cardinality(S)
  BY <1>3, FS_Subset
<1>4. ASSUME NEW S \in SUBSET Nodes, NEW x \in Nodes
      PROVE  Cardinality(S \cup {x}) <= Cardinality(S) + 1
  <2>1. CASE x \in S
    <3>1. S \cup {x} = S
      BY <2>1
    <3>. QED BY <1>3, <3>1
  <2>2. CASE x \notin S
    <3>1. Cardinality(S \cup {x}) = Cardinality(S) + 1
      BY <1>3, <2>2, FS_AddElement
    <3>. QED BY <1>3, <3>1
  <2>. QED BY <2>1, <2>2
<1>. QED BY <1>2, <1>3, <1>4, <1>5

\* A pruned list fits.
LEMMA PrunedFits ==
    ASSUME setup \in Setups, NEW pool \in SUBSET Nodes, NEW S \in Prunings(pool)
    PROVE  S \subseteq pool /\ Cardinality(S) <= SlackDegree
<1>1. /\ Degree \in Nat /\ SlackDegree \in Nat /\ Degree <= SlackDegree
  BY GraphAssumption DEF Degree, SlackDegree
<1>2. S \subseteq pool /\ Cardinality(S) <= Degree /\ Cardinality(S) \in Nat
  BY NodeSets DEF Prunings
<1>. QED BY <1>1, <1>2

LEMMA ListInvInit == GraphInit => ListInv
<1>. SUFFICES ASSUME GraphInit PROVE ListInv
  OBVIOUS
<1>1. SlackDegree \in Nat
  BY GraphAssumption DEF GraphInit, SlackDegree
<1>2. Cardinality({}) = 0
  BY FS_EmptySet
<1>. QED BY <1>1, <1>2 DEF GraphInit, ListInv

\* Every write of a list is a pruning without the node itself, or adds one other
\* node to a list that has room.
LEMMA ListInvNext ==
    ASSUME IndexInv, StepInv, ListInv, [GraphNext]_allVars
    PROVE  ListInv'
<1>. USE DEF insertVars, consolidateVars, SlackDegree
<1>0. /\ TypeOK /\ GraphTypeOK /\ setup \in Setups
      /\ \A u \in Threads : InsertionInv(u)
  BY DEF IndexInv, SlotInv, StepInv
<1>. DEFINE Lists == \A x \in Nodes : /\ x \notin neighbours'[x]
                                      /\ Cardinality(neighbours'[x]) <= SlackDegree
            Fits(S, x) == x \notin S /\ Cardinality(S) <= SlackDegree
<1>1. CASE UNCHANGED allVars
  BY <1>1 DEF allVars, vars, graphVars, localVars, ListInv
<1>2. ASSUME GraphNext PROVE ListInv'
  <2>0. setup' = setup
    BY <1>2 DEF GraphNext
  <2>1. ASSUME NEW x \in Nodes, NEW S, Fits(S, x), neighbours' = [neighbours EXCEPT ![x] = S]
        PROVE  Lists
    BY <1>0, <2>1 DEF ListInv, GraphTypeOK
  <2>2. CASE SlotStep
    <3>1. ASSUME NEW u \in Threads, step[u] # "search"
          PROVE  location'[u] = location[u]
      <4>1. pc[u] = "link" /\ "link" \in InsertSteps
        BY <1>0, <3>1 DEF InsertionInv, InsertSteps
      <4>. QED BY <2>2, <4>1, CallStep
    <3>. QED BY <2>0, <2>2, <3>1 DEF SlotStep, graphVars, ListInv
  <2>3. ASSUME NEW th \in Threads, NEW x \in Nodes, InsertExpand(th, x) PROVE ListInv'
    BY <2>0, <2>3 DEF InsertExpand, ListInv, vars, localVars
  <2>4. ASSUME NEW th \in Threads, InsertPrune(th) PROVE ListInv'
    <3>1. PICK S \in Prunings(found[th] \ {location[th]}) :
              pruned_list' = [pruned_list EXCEPT ![th] = S]
      BY <2>4 DEF InsertPrune
    <3>2. location[th] \notin S /\ Cardinality(S) <= SlackDegree
      BY <1>0, PrunedFits DEF GraphTypeOK
    <3>3. /\ step' = [step EXCEPT ![th] = "set_neighbours"]
          /\ UNCHANGED <<location, neighbours, expanded>>
      BY <2>4 DEF InsertPrune, vars, localVars
    <3>. QED BY <1>0, <2>0, <3>1, <3>2, <3>3 DEF ListInv, GraphTypeOK
  <2>5. ASSUME NEW th \in Threads, InsertSetNeighbours(th) PROVE ListInv'
    <3>. DEFINE S == {x \in pruned_list[th] : conc_consolidate => x \in LiveSlots}
    <3>1. /\ neighbours' = [neighbours EXCEPT ![location[th]] = S]
          /\ step' = [step EXCEPT ![th] = "inter_insert"] /\ step[th] = "set_neighbours"
          /\ UNCHANGED <<location, pruned_list, expanded>>
      BY <2>5 DEF InsertSetNeighbours, vars, localVars
    <3>2. location[th] \in Nodes /\ location[th] \notin S
      BY <1>0, <3>1 DEF InsertionInv, InsertSteps, Nodes, ListInv
    <3>3. Cardinality(S) <= SlackDegree
      <4>1. S \in SUBSET pruned_list[th] /\ pruned_list[th] \in SUBSET Nodes
        BY <1>0 DEF GraphTypeOK
      <4>2. /\ Cardinality(S) \in Nat /\ Cardinality(pruned_list[th]) \in Nat
            /\ Cardinality(S) <= Cardinality(pruned_list[th])
        BY <4>1, NodeSets
      <4>3. Cardinality(pruned_list[th]) <= SlackDegree /\ SlackDegree \in Nat
        BY <1>0, GraphAssumption DEF ListInv
      <4>. QED BY <4>2, <4>3
    <3>4. Lists
      BY <2>1, <3>1, <3>2, <3>3
    <3>. QED BY <1>0, <2>0, <3>1, <3>4 DEF ListInv, GraphTypeOK
  <2>6. ASSUME NEW th \in Threads, NEW d \in Nodes, InterInsertAdd(th, d) \/ InterInsertCopy(th, d)
        PROVE  ListInv'
    <3>1. /\ d \in pruned_list[th] /\ step[th] = "inter_insert"
          /\ pruned_list' = [pruned_list EXCEPT ![th] = @ \ {d}]
          /\ UNCHANGED <<location, expanded>>
          /\ \A u \in Threads : step'[u] # "search" => step[u] # "search"
      BY <1>0, <2>6 DEF InterInsertAdd, InterInsertCopy, vars, localVars, GraphTypeOK
    <3>2. location[th] # d /\ location[th] \in Nodes
      BY <1>0, <3>1 DEF InsertionInv, InsertSteps, Nodes, ListInv
    <3>3. Cardinality(pruned_list[th] \ {d}) <= SlackDegree
      <4>1. pruned_list[th] \ {d} \in SUBSET pruned_list[th] /\ pruned_list[th] \in SUBSET Nodes
        BY <1>0 DEF GraphTypeOK
      <4>2. /\ Cardinality(pruned_list[th] \ {d}) \in Nat /\ Cardinality(pruned_list[th]) \in Nat
            /\ Cardinality(pruned_list[th] \ {d}) <= Cardinality(pruned_list[th])
        BY <4>1, NodeSets
      <4>3. Cardinality(pruned_list[th]) <= SlackDegree /\ SlackDegree \in Nat
        BY <1>0, GraphAssumption DEF ListInv
      <4>. QED BY <4>2, <4>3
    <3>4. Lists
      <4>1. CASE InterInsertCopy(th, d)
        BY <4>1 DEF InterInsertCopy, ListInv
      <4>2. CASE InterInsertAdd(th, d)
        <5>. DEFINE S == neighbours[d] \cup {location[th]}
        <5>1. d \notin S /\ neighbours' = [neighbours EXCEPT ![d] = S]
          BY <3>2, <4>2 DEF InterInsertAdd, ListInv
        <5>2. Cardinality(S) <= SlackDegree
          <6>1. neighbours[d] \in SUBSET Nodes
            BY <1>0 DEF GraphTypeOK
          <6>2. CASE location[th] \in neighbours[d]
            <7>1. S = neighbours[d]
              BY <6>2
            <7>. QED BY <7>1 DEF ListInv
          <6>3. CASE Cardinality(neighbours[d]) < SlackDegree
            <7>1. Cardinality(S) <= Cardinality(neighbours[d]) + 1 /\ Cardinality(neighbours[d]) \in Nat
              BY <3>2, <6>1, NodeSets
            <7>2. S \in SUBSET Nodes
              BY <3>2, <6>1
            <7>3. Cardinality(S) \in Nat /\ SlackDegree \in Nat
              BY <1>0, <7>2, NodeSets, GraphAssumption
            <7>. QED BY <6>3, <7>1, <7>3
          <6>. QED BY <4>2, <6>2, <6>3 DEF InterInsertAdd
        <5>. QED BY <2>1, <5>1, <5>2
      <4>. QED BY <2>6, <4>1, <4>2
    <3>. QED BY <1>0, <2>0, <3>1, <3>3, <3>4 DEF ListInv, GraphTypeOK
  <2>7. ASSUME NEW th \in Threads, InterInsertPrune(th) PROVE ListInv'
    <3>1. PICK S \in Prunings(copy_of_neighbors[th] \ {des[th]}) :
              neighbours' = [neighbours EXCEPT ![des[th]] = S]
      BY <2>7 DEF InterInsertPrune
    <3>2. des[th] \in Nodes /\ step[th] = "prune"
      BY <1>0, <2>7 DEF InterInsertPrune, InsertionInv
    <3>3. des[th] \notin S /\ Cardinality(S) <= SlackDegree
      BY <1>0, PrunedFits DEF GraphTypeOK
    <3>4. Lists
      BY <2>1, <3>1, <3>2, <3>3
    <3>. QED BY <1>0, <2>0, <2>7, <3>2, <3>4 DEF InterInsertPrune, ListInv, GraphTypeOK, vars, localVars
  <2>8. ASSUME NEW th \in Threads, InsertDone(th) PROVE ListInv'
    BY <1>0, <2>0, <2>8 DEF InsertDone, InsertReturn, ListInv, GraphTypeOK, TypeOK
  <2>9. ASSUME NEW th \in Threads, StartProcessing(th) \/ ReleaseProcessed(th) \/ ReturnProcessed(th)
        PROVE  ListInv'
    BY <2>0, <2>9 DEF StartProcessing, ReleaseProcessed, ReturnProcessed, ConsolidateStart,
              ConsolidateRelease, ConsolidateReturn, ListInv, graphVars, localVars
  <2>10. ASSUME NEW th \in Threads, NEW loc \in Nodes,
                ProcessSkip(th, loc) \/ ProcessUnmodified(th, loc) \/ ProcessRead(th, loc)
         PROVE  ListInv'
    <3>1. loc \notin ExpandedNodes(loc, old_delete_set[th])
      BY DEF ListInv, ExpandedNodes
    <3>. QED BY <2>0, <2>10, <3>1 DEF ProcessSkip, ProcessUnmodified, ProcessRead, ListInv, vars, localVars
  <2>11. ASSUME NEW th \in Threads, NEW loc \in Nodes, ProcessWrite(th, loc) PROVE ListInv'
    <3>1. /\ loc \in DOMAIN expanded
          /\ expanded' = [x \in DOMAIN expanded \ {loc} |-> expanded[x]]
          /\ UNCHANGED <<location, step, pruned_list>>
      BY <2>11 DEF ProcessWrite, vars, localVars
    <3>2. PICK S : /\ neighbours' = [neighbours EXCEPT ![loc] = S]
                   /\ S \in IF Cardinality(expanded[loc]) <= Degree
                            THEN {expanded[loc]} ELSE Prunings(expanded[loc])
      BY <2>11 DEF ProcessWrite
    <3>3. loc \notin expanded[loc] /\ expanded[loc] \in SUBSET Nodes
      BY <1>0, <3>1 DEF ListInv, GraphTypeOK
    <3>4. loc \notin S /\ Cardinality(S) <= SlackDegree
      <4>1. CASE Cardinality(expanded[loc]) <= Degree
        <5>1. Cardinality(expanded[loc]) \in Nat /\ Degree \in Nat /\ SlackDegree \in Nat
              /\ Degree <= SlackDegree
          BY <1>0, <3>3, NodeSets, GraphAssumption DEF Degree
        <5>. QED BY <3>2, <3>3, <4>1, <5>1
      <4>2. CASE ~(Cardinality(expanded[loc]) <= Degree)
        BY <1>0, <3>2, <3>3, <4>2, PrunedFits
      <4>. QED BY <4>1, <4>2
    <3>5. Lists
      BY <2>1, <3>2, <3>4
    <3>. QED BY <2>0, <3>1, <3>5 DEF ListInv
  <2>. QED BY <1>2, <2>2, <2>3, <2>4, <2>5, <2>6, <2>7, <2>8, <2>9, <2>10, <2>11 DEF GraphNext
<1>. QED BY <1>1, <1>2

\* ListsWellFormed, for every degree and slack and whatever threads overwrite.
THEOREM ListsAlwaysWellFormed == GraphSpec => []ListsWellFormed
<1>1. GraphInit => StepInv /\ ListInv
  BY StepInvInit, ListInvInit
<1>2. IndexInv /\ IndexInv' /\ StepInv /\ ListInv /\ [GraphNext]_allVars => StepInv' /\ ListInv'
  BY StepInvNext, ListInvNext
<1>3. ListInv => ListsWellFormed
  BY DEF ListInv, ListsWellFormed, Linked
<1>. QED BY <1>1, <1>2, <1>3, GraphImplementsIndex, IndexInvAlways, PTL DEF GraphSpec

-----------------------------------------------------------------------------
\* The slots no list may name: the free ones, and those whose insertion has yet
\* to store its list, so that theirs is the list of the point before.
Hidden == empty_slots \cup Unlinked

\* A running consolidation: once a location has been passed or rewritten, its
\* list is rid of the old set.
ProcessedInv(th) ==
    pc[th] = "process" =>
        /\ \A x \in Nodes \ (Hidden \cup old_delete_set[th] \cup to_process \cup DOMAIN expanded) :
              neighbours[x] \cap old_delete_set[th] = {}
        /\ \A x \in DOMAIN expanded : expanded[x] \cap (Hidden \cup old_delete_set[th]) = {}

\* Slots of insertions are their own.
OwnSlot(th) ==
    pc[th] \in InsertSteps =>
        /\ location[th] \notin empty_slots
        /\ \A u \in Threads \ {th} : pc[u] \in InsertSteps => location[u] # location[th]

HandsClean(th) == (found[th] \cup pruned_list[th] \cup copy_of_neighbors[th]) \cap Hidden = {}

ListsClean == \A x \in Nodes \ Hidden : neighbours[x] \cap Hidden = {}

EdgeInv ==
    /\ ListsClean
    /\ \A th \in Threads : HandsClean(th) /\ OwnSlot(th) /\ ProcessedInv(th)
    /\ (\A th \in Threads : pc[th] # "process") => DOMAIN expanded = {}

Pending(u) == pc[u] = "set_vector" \/ (pc[u] = "link" /\ step[u] \in {"search", "set_neighbours"})

LEMMA HiddenSlots ==
    ASSUME IndexInv, StepInv
    PROVE  /\ Hidden \subseteq Slots
           /\ \A x : x \in Hidden <=> x \in empty_slots \/ \E u \in Threads : Pending(u) /\ x = location[u]
<1>1. \A x : x \in Hidden <=> x \in empty_slots \/ \E u \in Threads : Pending(u) /\ x = location[u]
  BY DEF Hidden, Unlinked, Pending
<1>2. empty_slots \subseteq Slots
  BY DEF IndexInv, SlotInv, TypeOK
<1>3. \A u \in Threads : Pending(u) => location[u] \in Slots
  BY DEF StepInv, InsertionInv, Pending, InsertSteps
<1>. QED BY <1>1, <1>2, <1>3

\* The calls that leave the graph alone hide and show no slot: an insertion takes
\* its slot from the free ones, and a refused one puts it back.
LEMMA CallKeepsHidden ==
    ASSUME IndexInv, StepInv, SlotStep, \A th \in Threads : OwnSlot(th)
    PROVE  Hidden' = Hidden /\ \A th \in Threads : OwnSlot(th)'
<1>. DEFINE Goal == Hidden' = Hidden /\ \A u \in Threads : OwnSlot(u)'
<1>. USE DEF OwnSlot
<1>0. /\ TypeOK /\ SlotsAccounted /\ UNCHANGED step /\ \A u \in Threads : InsertionInv(u)
  BY DEF IndexInv, SlotInv, StepInv, SlotStep, graphVars, insertVars
<1>1. ASSUME UNCHANGED <<empty_slots, pc, location>> PROVE Goal
  BY <1>0, <1>1 DEF Hidden, Unlinked
<1>2. ASSUME NEW th \in Threads, NEW t \in Tags, InsertReserve(th, t) PROVE Goal
  <2>1. PICK l \in Reservable : ReserveLocation(l) /\ location' = [location EXCEPT ![th] = l]
    BY <1>2 DEF InsertReserve, RegisterPoint
  <2>2. l \in empty_slots /\ empty_slots' = empty_slots \ {l}
    BY <1>0, <2>1, SlotToReserve DEF ReserveLocation
  <2>3. pc[th] = "idle" /\ pc' = [pc EXCEPT ![th] = "set_vector"]
    BY <1>2 DEF InsertReserve, RegisterPoint
  <2>4. \A u \in Threads : /\ pc'[u] = IF u = th THEN "set_vector" ELSE pc[u]
                           /\ location'[u] = IF u = th THEN l ELSE location[u]
    BY <1>0, <2>1, <2>3 DEF TypeOK
  <2>5. \A u \in Threads : OwnSlot(u)'
    BY <2>2, <2>3, <2>4 DEF InsertSteps
  <2>6. Unlinked' = Unlinked \cup {l}
    BY <1>0, <2>3, <2>4 DEF Unlinked
  <2>. QED BY <2>2, <2>5, <2>6 DEF Hidden
<1>3. ASSUME NEW th \in Threads, NEW t \in Tags, Insert(th, t) PROVE Goal
  <2>1. CASE InsertFull(th, t)
    BY <1>1, <2>1 DEF InsertFull, slotVars, localVars
  <2>2. CASE InsertDuplicate(th, t)
    <3>1. empty_slots' = empty_slots
      BY <1>0, <2>2, SlotToReserve DEF InsertDuplicate
    <3>. QED BY <1>1, <2>2, <3>1 DEF InsertDuplicate, localVars
  <2>. QED BY <1>2, <1>3, <2>1, <2>2 DEF Insert
<1>4. ASSUME NEW th \in Threads, InsertSetVector(th) PROVE Goal
  <2>1. /\ step[th] = "search" /\ pc[th] = "set_vector" /\ pc' = [pc EXCEPT ![th] = "link"]
        /\ UNCHANGED <<empty_slots, location>>
    BY <1>0, <1>4 DEF InsertSetVector, InsertionInv, slotVars, localVars
  <2>2. \A u \in Threads : pc'[u] = IF u = th THEN "link" ELSE pc[u]
    BY <1>0, <2>1 DEF TypeOK
  <2>3. Unlinked' = Unlinked
    BY <1>0, <2>1, <2>2 DEF Unlinked
  <2>4. \A u \in Threads : OwnSlot(u)'
    BY <2>1, <2>2 DEF InsertSteps
  <2>. QED BY <2>1, <2>3, <2>4 DEF Hidden
<1>5. ASSUME NEW t \in Tags, LazyDelete(t) PROVE Goal
  BY <1>1, <1>5 DEF LazyDelete, localVars
<1>6. ASSUME NEW tags \in SUBSET Tags, LazyDeleteMany(tags) PROVE Goal
  BY <1>1, <1>6 DEF LazyDeleteMany, localVars
<1>7. ASSUME NEW th \in Threads, ConsolidateRefused(th) PROVE Goal
  BY <1>1, <1>7 DEF ConsolidateRefused, slotVars, localVars
<1>8. ASSUME NEW th \in Threads,
             ConsolidateCheck(th) \/ ConsolidateLockUpdate(th) \/ ConsolidateLockFail(th)
      PROVE Goal
  <2>1. /\ UNCHANGED <<empty_slots, location>>
        /\ \A u \in Threads : pc'[u] = pc[u] \/ (pc[u] \notin InsertSteps /\ pc'[u] \notin InsertSteps)
    BY <1>0, <1>8 DEF ConsolidateCheck, ConsolidateLockUpdate, ConsolidateLockFail, slotVars,
                      localVars, TypeOK, InsertSteps
  <2>2. Unlinked' = Unlinked
    BY <1>0, <2>1 DEF Unlinked, InsertSteps
  <2>. QED BY <2>1, <2>2 DEF Hidden
<1>. QED BY <1>3, <1>4, <1>5, <1>6, <1>7, <1>8 DEF SlotStep

\* While a consolidation without _conc_consolidate runs nothing is inserted, and
\* the set it works on is not free.
LEMMA ProcessAlone ==
    ASSUME IndexInv, ~conc_consolidate, NEW th \in Threads, pc[th] = "process"
    PROVE  /\ \A u \in Threads : pc[u] \notin InsertSteps
           /\ \A u \in Threads : pc[u] = "process" => u = th
           /\ Unlinked = {} /\ Hidden = empty_slots
           /\ old_delete_set[th] \cap Hidden = {}
<1>1. \A u \in Threads : pc[u] \notin InsertSteps
  BY DEF IndexInv, LockInv
<1>2. \A u \in Threads : pc[u] = "process" => u = th
  BY DEF IndexInv, LockInv
<1>3. Unlinked = {} /\ Hidden = empty_slots
  BY <1>1 DEF Unlinked, Hidden, InsertSteps
<1>4. old_delete_set[th] \cap empty_slots = {}
  BY DEF IndexInv, SlotInv, SlotsAccounted, OldLocations
<1>. QED BY <1>1, <1>2, <1>3, <1>4

LEMMA EdgeInvInit == GraphInit => EdgeInv
<1>. SUFFICES ASSUME GraphInit PROVE EdgeInv
  OBVIOUS
<1>1. Unlinked = {} /\ Hidden \subseteq Slots
  BY DEF GraphInit, Init, EnableDelete, Slots, Hidden, Unlinked
<1>2. Slots \cap Frozen = {}
  BY ParameterAssumption DEF Slots, Frozen
<1>3. ASSUME NEW th \in Threads PROVE HandsClean(th) /\ OwnSlot(th) /\ ProcessedInv(th)
  BY <1>1, <1>2 DEF GraphInit, Init, HandsClean, OwnSlot, ProcessedInv, InsertSteps
<1>. QED BY <1>3 DEF GraphInit, EdgeInv, ListsClean

\* A step that changes no slot's standing and no list, and gives an insertion
\* nothing that is hidden.
LEMMA HandsMove ==
    ASSUME EdgeInv, Hidden' = Hidden, \A u \in Threads : HandsClean(u)',
           UNCHANGED <<pc, location, empty_slots, old_delete_set, neighbours, to_process, expanded>>
    PROVE  EdgeInv'
<1>1. ListsClean'
  BY DEF EdgeInv, ListsClean
<1>2. ASSUME NEW u \in Threads PROVE OwnSlot(u)' /\ ProcessedInv(u)'
  BY DEF EdgeInv, OwnSlot, ProcessedInv
<1>. QED BY <1>1, <1>2 DEF EdgeInv

\* The same for a step of an insertion that writes one list; no consolidation runs.
LEMMA InsertionWrites ==
    ASSUME IndexInv, ~conc_consolidate, GraphTypeOK, EdgeInv, NEW th \in Threads, pc[th] = "link",
           Hidden' \subseteq Hidden, \A u \in Threads : HandsClean(u)',
           UNCHANGED <<pc, location, empty_slots, old_delete_set, to_process, expanded>>,
           NEW d \in Nodes, NEW S, neighbours' = [neighbours EXCEPT ![d] = S], S \cap Hidden' = {},
           \A x \in Hidden \ Hidden' : x = d
    PROVE  EdgeInv'
<1>1. ListsClean'
  BY DEF EdgeInv, ListsClean, GraphTypeOK
<1>2. ASSUME NEW u \in Threads PROVE OwnSlot(u)'
  BY DEF EdgeInv, OwnSlot
<1>3. \A u \in Threads : pc[u] # "process"
  BY ProcessAlone DEF InsertSteps
<1>4. ASSUME NEW u \in Threads PROVE ProcessedInv(u)'
  BY <1>3 DEF ProcessedInv
<1>. QED BY <1>1, <1>2, <1>4 DEF EdgeInv

\* The steps of a consolidation on one location.
LEMMA ProcessKeepsEdges ==
    ASSUME IndexInv, ~conc_consolidate, StepInv, EdgeInv, NEW th \in Threads, NEW loc \in Nodes,
           \/ ProcessSkip(th, loc) \/ ProcessUnmodified(th, loc)
           \/ ProcessRead(th, loc) \/ ProcessWrite(th, loc)
    PROVE  EdgeInv'
<1>. DEFINE D == old_delete_set[th]
<1>1. /\ pc[th] = "process" /\ UNCHANGED vars /\ UNCHANGED insertVars
      /\ UNCHANGED <<pc, location, empty_slots, old_delete_set, step, found, pruned_list, copy_of_neighbors>>
  BY DEF ProcessSkip, ProcessUnmodified, ProcessRead, ProcessWrite, insertVars, vars, slotVars, localVars
<1>2. /\ \A u \in Threads : pc[u] = "process" => u = th
      /\ Hidden = empty_slots /\ D \cap Hidden = {}
  BY <1>1, ProcessAlone
<1>3. Hidden' = Hidden /\ GraphTypeOK
  BY <1>1 DEF Hidden, Unlinked, StepInv
<1>4. \A u \in Threads : HandsClean(u)' /\ OwnSlot(u)'
  BY <1>1, <1>3 DEF EdgeInv, HandsClean, OwnSlot
<1>5. ProcessedInv(th) /\ ListsClean
  BY DEF EdgeInv
<1>6. ListsClean' /\ ProcessedInv(th)' => EdgeInv'
  BY <1>1, <1>2, <1>4 DEF EdgeInv, ProcessedInv
<1>7. CASE ProcessSkip(th, loc) \/ ProcessUnmodified(th, loc)
  <2>1. /\ UNCHANGED <<neighbours, expanded>> /\ to_process' = to_process \ {loc}
        /\ loc \in Hidden \/ neighbours[loc] \cap D = {}
    BY <1>2, <1>7 DEF ProcessSkip, ProcessUnmodified
  <2>2. ListsClean'
    BY <1>3, <1>5, <2>1 DEF ListsClean
  <2>3. ProcessedInv(th)'
    BY <1>1, <1>3, <1>5, <2>1 DEF ProcessedInv
  <2>. QED BY <1>6, <2>2, <2>3
<1>8. CASE ProcessRead(th, loc)
  <2>1. /\ neighbours' = neighbours /\ to_process' = to_process \ {loc} /\ loc \notin Hidden
        /\ expanded' = [x \in DOMAIN expanded \cup {loc} |->
                          IF x = loc THEN ExpandedNodes(loc, D) ELSE expanded[x]]
    BY <1>2, <1>8 DEF ProcessRead
  <2>2. ExpandedNodes(loc, D) \cap (Hidden \cup D) = {}
    <3>1. neighbours[loc] \cap Hidden = {} /\ neighbours[loc] \subseteq Nodes
      BY <1>3, <1>5, <2>1 DEF ListsClean, GraphTypeOK
    <3>2. \A ngh \in neighbours[loc] : neighbours[ngh] \cap Hidden = {}
      BY <1>5, <3>1 DEF ListsClean
    <3>. QED BY <3>1, <3>2 DEF ExpandedNodes
  <2>3. ListsClean'
    BY <1>3, <1>5, <2>1 DEF ListsClean
  <2>4. ProcessedInv(th)'
    BY <1>1, <1>3, <1>5, <2>1, <2>2 DEF ProcessedInv
  <2>. QED BY <1>6, <2>3, <2>4
<1>9. CASE ProcessWrite(th, loc)
  <2>1. /\ loc \in DOMAIN expanded /\ to_process' = to_process
        /\ expanded' = [x \in DOMAIN expanded \ {loc} |-> expanded[x]]
    BY <1>9 DEF ProcessWrite
  <2>2. PICK S \in SUBSET expanded[loc] : neighbours' = [neighbours EXCEPT ![loc] = S]
    BY <1>9 DEF ProcessWrite, Prunings
  <2>3. S \cap (Hidden \cup D) = {}
    BY <1>1, <1>5, <2>1, <2>2 DEF ProcessedInv
  <2>4. ListsClean'
    BY <1>3, <1>5, <2>2, <2>3 DEF ListsClean, GraphTypeOK
  <2>5. ProcessedInv(th)'
    BY <1>1, <1>3, <1>5, <2>1, <2>2, <2>3 DEF ProcessedInv, GraphTypeOK
  <2>. QED BY <1>6, <2>4, <2>5
<1>. QED BY <1>7, <1>8, <1>9

\* The released slots are named by no list that is left.
LEMMA ReleaseKeepsEdges ==
    ASSUME IndexInv, ~conc_consolidate, StepInv, EdgeInv, NEW th \in Threads, ReleaseProcessed(th)
    PROVE  EdgeInv'
<1>. DEFINE D == old_delete_set[th]
<1>1. /\ pc[th] = "process" /\ to_process = {} /\ DOMAIN expanded = {}
      /\ empty_slots' = empty_slots \cup D
      /\ pc' = [pc EXCEPT ![th] = "return_report"]
      /\ UNCHANGED <<location, neighbours, step, found, pruned_list, copy_of_neighbors, expanded>>
  BY DEF ReleaseProcessed, ConsolidateRelease, ReleaseLocations, graphVars, insertVars, consolidateVars
<1>2. /\ \A u \in Threads : pc[u] \notin InsertSteps
      /\ \A u \in Threads : pc[u] = "process" => u = th
      /\ Hidden = empty_slots
  BY <1>1, ProcessAlone
<1>3. \A u \in Threads : pc'[u] \notin InsertSteps /\ pc'[u] # "process"
  BY <1>1, <1>2 DEF IndexInv, SlotInv, TypeOK, InsertSteps
<1>4. Hidden' = Hidden \cup D
  <2>1. Unlinked' = {}
    BY <1>3 DEF Unlinked, InsertSteps
  <2>. QED BY <1>1, <1>2, <2>1 DEF Hidden
<1>5. ListsClean'
  <2>1. \A x \in Nodes \ (Hidden \cup D) : neighbours[x] \cap D = {}
    BY <1>1 DEF EdgeInv, ProcessedInv
  <2>. QED BY <1>1, <1>4, <2>1 DEF EdgeInv, ListsClean
<1>6. ASSUME NEW u \in Threads PROVE HandsClean(u)'
  <2>1. found[u] = Frozen /\ pruned_list[u] = {} /\ copy_of_neighbors[u] = {}
    BY <1>2 DEF StepInv, InsertionInv, InsertSteps
  <2>2. Hidden' \subseteq Slots
    BY <1>1, <1>2, <1>4 DEF IndexInv, SlotInv, TypeOK
  <2>3. Slots \cap Frozen = {}
    BY ParameterAssumption DEF Slots, Frozen
  <2>. QED BY <1>1, <2>1, <2>2, <2>3 DEF HandsClean
<1>7. ASSUME NEW u \in Threads PROVE OwnSlot(u)' /\ ProcessedInv(u)'
  BY <1>3 DEF OwnSlot, ProcessedInv
<1>. QED BY <1>1, <1>5, <1>6, <1>7 DEF EdgeInv

\* No step gives a list, or an insertion, a slot that is free or not yet linked.
LEMMA EdgeInvNext ==
    ASSUME IndexInv, ~conc_consolidate, StepInv, EdgeInv, [GraphNext]_allVars
    PROVE  EdgeInv'
<1>. USE DEF insertVars, consolidateVars
<1>0. /\ TypeOK /\ GraphTypeOK /\ \A u \in Threads : InsertionInv(u)
      /\ ListsClean /\ Hidden \subseteq Slots /\ Slots \cap Frozen = {}
      /\ \A u \in Threads : HandsClean(u) /\ OwnSlot(u)
  BY HiddenSlots, ParameterAssumption DEF IndexInv, SlotInv, StepInv, EdgeInv, Slots, Frozen
<1>1. CASE UNCHANGED allVars
  <2>1. Hidden' = Hidden /\ UNCHANGED <<pc, location, empty_slots, old_delete_set, neighbours, to_process, expanded>>
    BY <1>1 DEF allVars, vars, graphVars, slotVars, localVars, Hidden, Unlinked
  <2>2. \A u \in Threads : HandsClean(u)'
    BY <1>0, <1>1, <2>1 DEF allVars, graphVars, HandsClean
  <2>. QED BY <2>1, <2>2, HandsMove
<1>2. ASSUME GraphNext PROVE EdgeInv'
  <2>1. CASE SlotStep
    <3>1. Hidden' = Hidden /\ \A u \in Threads : OwnSlot(u)'
      BY <1>0, <2>1, CallKeepsHidden
    <3>2. \A u \in Threads : /\ pc'[u] = "process" <=> pc[u] = "process"
                             /\ old_delete_set'[u] = old_delete_set[u]
      BY <2>1, CallStep
    <3>3. UNCHANGED <<neighbours, step, found, pruned_list, copy_of_neighbors, to_process, expanded>>
      BY <2>1 DEF SlotStep, graphVars
    <3>4. ListsClean' /\ \A u \in Threads : HandsClean(u)'
      BY <1>0, <3>1, <3>3 DEF ListsClean, HandsClean
    <3>5. \A u \in Threads : ProcessedInv(u)'
      BY <3>1, <3>2, <3>3 DEF EdgeInv, ProcessedInv
    <3>. QED BY <3>1, <3>2, <3>3, <3>4, <3>5 DEF EdgeInv
  <2>2. ASSUME NEW th \in Threads, NEW x \in Nodes, InsertExpand(th, x) PROVE EdgeInv'
    <3>1. /\ x \in found[th] /\ found' = [found EXCEPT ![th] = @ \cup neighbours[x]]
          /\ UNCHANGED <<pc, location, empty_slots, old_delete_set, neighbours, to_process, expanded,
                         step, pruned_list, copy_of_neighbors>>
      BY <2>2 DEF InsertExpand, vars, slotVars, localVars
    <3>2. Hidden' = Hidden
      BY <3>1 DEF Hidden, Unlinked
    <3>3. neighbours[x] \cap Hidden = {}
      BY <1>0, <3>1 DEF HandsClean, ListsClean
    <3>4. \A u \in Threads : HandsClean(u)'
      BY <1>0, <3>1, <3>2, <3>3 DEF HandsClean, GraphTypeOK
    <3>. QED BY <3>1, <3>2, <3>4, HandsMove
  <2>3. ASSUME NEW th \in Threads, InsertPrune(th) PROVE EdgeInv'
    <3>1. /\ pc[th] = "link" /\ step[th] = "search"
          /\ found' = [found EXCEPT ![th] = Frozen] /\ step' = [step EXCEPT ![th] = "set_neighbours"]
          /\ UNCHANGED <<pc, location, empty_slots, old_delete_set, neighbours, to_process, expanded,
                         copy_of_neighbors>>
      BY <2>3 DEF InsertPrune, vars, slotVars, localVars
    <3>2. PICK S \in SUBSET found[th] : pruned_list' = [pruned_list EXCEPT ![th] = S]
      BY <2>3 DEF InsertPrune, Prunings
    <3>3. Hidden' = Hidden
      BY <1>0, <3>1 DEF Hidden, Unlinked, GraphTypeOK
    <3>4. \A u \in Threads : HandsClean(u)'
      BY <1>0, <3>1, <3>2, <3>3 DEF HandsClean, GraphTypeOK
    <3>. QED BY <3>1, <3>3, <3>4, HandsMove
  <2>4. ASSUME NEW th \in Threads, InsertSetNeighbours(th) PROVE EdgeInv'
    <3>. DEFINE S == {x \in pruned_list[th] : conc_consolidate => x \in LiveSlots}
    <3>1. /\ step[th] = "set_neighbours" /\ step' = [step EXCEPT ![th] = "inter_insert"]
          /\ neighbours' = [neighbours EXCEPT ![location[th]] = S]
          /\ UNCHANGED <<pc, location, empty_slots, old_delete_set, to_process, expanded,
                         found, pruned_list, copy_of_neighbors>>
      BY <2>4 DEF InsertSetNeighbours, vars, slotVars, localVars
    <3>2. pc[th] = "link" /\ location[th] \in Nodes
      BY <1>0, <3>1 DEF InsertionInv, InsertSteps, Nodes
    <3>3. Hidden' \subseteq Hidden /\ \A x \in Hidden \ Hidden' : x = location[th]
      BY <1>0, <3>1 DEF Hidden, Unlinked, GraphTypeOK
    <3>4. \A u \in Threads : HandsClean(u)'
      BY <1>0, <3>1, <3>3 DEF HandsClean
    <3>5. S \cap Hidden' = {}
      BY <1>0, <3>3 DEF HandsClean
    <3>. HIDE DEF S
    <3>. QED BY <1>0, <3>1, <3>2, <3>3, <3>4, <3>5, InsertionWrites
  <2>5. ASSUME NEW th \in Threads, NEW d \in Nodes, InterInsertAdd(th, d) \/ InterInsertCopy(th, d)
        PROVE  EdgeInv'
    <3>1. /\ step[th] = "inter_insert" /\ d \in pruned_list[th]
          /\ pruned_list' = [pruned_list EXCEPT ![th] = @ \ {d}]
          /\ UNCHANGED <<pc, location, empty_slots, old_delete_set, to_process, expanded, found>>
      BY <2>5 DEF InterInsertAdd, InterInsertCopy, vars, slotVars, localVars
    <3>2. pc[th] = "link" /\ location[th] \in Nodes
      BY <1>0, <3>1 DEF InsertionInv, InsertSteps, Nodes
    <3>3. location[th] \notin Hidden /\ d \notin Hidden
      <4>1. location[th] \notin empty_slots
        BY <1>0, <3>2 DEF OwnSlot, InsertSteps
      <4>2. ASSUME NEW u \in Threads, Pending(u) PROVE location[u] # location[th]
        <5>1. u # th
          BY <3>1, <3>2, <4>2 DEF Pending
        <5>. QED BY <1>0, <3>2, <4>2, <5>1 DEF OwnSlot, Pending, InsertSteps
      <4>3. d \notin Hidden
        BY <1>0, <3>1 DEF HandsClean
      <4>. QED BY <4>1, <4>2, <4>3, HiddenSlots
    <3>. DEFINE S == neighbours[d] \cup {location[th]}
    <3>4. S \cap Hidden = {}
      BY <1>0, <3>3 DEF ListsClean
    <3>5. CASE InterInsertAdd(th, d)
      <4>1. neighbours' = [neighbours EXCEPT ![d] = S] /\ UNCHANGED <<step, copy_of_neighbors>>
        BY <3>5 DEF InterInsertAdd
      <4>2. Hidden' = Hidden
        BY <3>1, <4>1 DEF Hidden, Unlinked
      <4>3. \A u \in Threads : HandsClean(u)'
        BY <1>0, <3>1, <4>1, <4>2 DEF HandsClean, GraphTypeOK
      <4>. HIDE DEF S
      <4>. QED BY <1>0, <3>1, <3>2, <3>4, <4>1, <4>2, <4>3, InsertionWrites
    <3>6. CASE InterInsertCopy(th, d)
      <4>1. /\ copy_of_neighbors' = [copy_of_neighbors EXCEPT ![th] = S]
            /\ step' = [step EXCEPT ![th] = "prune"] /\ neighbours' = neighbours
        BY <3>6 DEF InterInsertCopy
      <4>2. Hidden' = Hidden
        BY <1>0, <3>1, <4>1 DEF Hidden, Unlinked, GraphTypeOK
      <4>3. \A u \in Threads : HandsClean(u)'
        BY <1>0, <3>1, <3>4, <4>1, <4>2 DEF HandsClean, GraphTypeOK
      <4>. QED BY <3>1, <4>1, <4>2, <4>3, HandsMove
    <3>. QED BY <2>5, <3>5, <3>6
  <2>6. ASSUME NEW th \in Threads, InterInsertPrune(th) PROVE EdgeInv'
    <3>1. /\ step[th] = "prune" /\ step' = [step EXCEPT ![th] = "inter_insert"]
          /\ copy_of_neighbors' = [copy_of_neighbors EXCEPT ![th] = {}]
          /\ UNCHANGED <<pc, location, empty_slots, old_delete_set, to_process, expanded, found, pruned_list>>
      BY <2>6 DEF InterInsertPrune, vars, slotVars, localVars
    <3>2. PICK S \in SUBSET copy_of_neighbors[th] : neighbours' = [neighbours EXCEPT ![des[th]] = S]
      BY <2>6 DEF InterInsertPrune, Prunings
    <3>3. pc[th] = "link" /\ des[th] \in Nodes
      BY <1>0, <3>1 DEF InsertionInv
    <3>4. Hidden' = Hidden
      BY <1>0, <3>1 DEF Hidden, Unlinked, GraphTypeOK
    <3>5. S \cap Hidden' = {} /\ \A u \in Threads : HandsClean(u)'
      BY <1>0, <3>1, <3>2, <3>4 DEF HandsClean, GraphTypeOK
    <3>. QED BY <1>0, <3>1, <3>2, <3>3, <3>4, <3>5, InsertionWrites
  <2>7. ASSUME NEW th \in Threads, InsertDone(th) PROVE EdgeInv'
    <3>1. /\ step[th] = "inter_insert" /\ step' = [step EXCEPT ![th] = "search"]
          /\ pc[th] = "link" /\ pc' = [pc EXCEPT ![th] = "idle"]
          /\ location' = [location EXCEPT ![th] = NoLocation]
          /\ UNCHANGED <<empty_slots, old_delete_set, neighbours, to_process, expanded, found,
                         pruned_list, copy_of_neighbors>>
      BY <2>7 DEF InsertDone, InsertReturn, slotVars
    <3>2. \A u \in Threads : /\ pc'[u] = IF u = th THEN "idle" ELSE pc[u]
                             /\ location'[u] = IF u = th THEN NoLocation ELSE location[u]
                             /\ step'[u] = IF u = th THEN "search" ELSE step[u]
      BY <1>0, <3>1 DEF TypeOK, GraphTypeOK
    <3>3. Hidden' = Hidden
      BY <3>1, <3>2 DEF Hidden, Unlinked
    <3>4. \A u \in Threads : HandsClean(u)' /\ OwnSlot(u)' /\ ProcessedInv(u)'
      BY <1>0, <3>1, <3>2, <3>3 DEF EdgeInv, HandsClean, OwnSlot, ProcessedInv, InsertSteps
    <3>. QED BY <1>0, <3>1, <3>2, <3>3, <3>4 DEF EdgeInv, ListsClean
  <2>8. ASSUME NEW th \in Threads, StartProcessing(th) PROVE EdgeInv'
    <3>1. /\ pc[th] = "try_lock" /\ pc' = [pc EXCEPT ![th] = "process"]
          /\ old_delete_set' = [old_delete_set EXCEPT ![th] = delete_set]
          /\ consolidate_lock = NoThread /\ to_process' = Nodes \ delete_set
          /\ UNCHANGED <<empty_slots, location, neighbours, step, found, pruned_list,
                         copy_of_neighbors, expanded>>
      BY <2>8 DEF StartProcessing, ConsolidateStart
    <3>2. \A u \in Threads : /\ pc'[u] = IF u = th THEN "process" ELSE pc[u]
                             /\ old_delete_set'[u] = IF u = th THEN delete_set ELSE old_delete_set[u]
      BY <1>0, <3>1 DEF TypeOK
    <3>3. \A u \in Threads : pc[u] # "process"
      BY <3>1, ParameterAssumption DEF IndexInv, LockInv
    <3>4. Hidden' = Hidden /\ DOMAIN expanded = {}
      BY <3>1, <3>2, <3>3 DEF Hidden, Unlinked, EdgeInv
    <3>5. \A u \in Threads : HandsClean(u)' /\ OwnSlot(u)'
      BY <1>0, <3>1, <3>2, <3>4 DEF HandsClean, OwnSlot, InsertSteps
    <3>6. \A u \in Threads : ProcessedInv(u)'
      BY <3>1, <3>2, <3>3, <3>4 DEF ProcessedInv
    <3>. QED BY <1>0, <3>1, <3>2, <3>4, <3>5, <3>6 DEF EdgeInv, ListsClean
  <2>9. ASSUME NEW th \in Threads, ReleaseProcessed(th) PROVE EdgeInv'
    BY <2>9, ReleaseKeepsEdges
  <2>10. ASSUME NEW th \in Threads, ReturnProcessed(th) PROVE EdgeInv'
    <3>1. /\ pc[th] = "return_report" /\ pc' = [pc EXCEPT ![th] = "idle"]
          /\ UNCHANGED <<empty_slots, location, old_delete_set, neighbours, step, found, pruned_list,
                         copy_of_neighbors, to_process, expanded>>
      BY <2>10 DEF ReturnProcessed, ConsolidateReturn, slotVars, localVars
    <3>2. \A u \in Threads : pc'[u] = IF u = th THEN "idle" ELSE pc[u]
      BY <1>0, <3>1 DEF TypeOK
    <3>3. Hidden' = Hidden
      BY <3>1, <3>2 DEF Hidden, Unlinked
    <3>4. \A u \in Threads : HandsClean(u)' /\ OwnSlot(u)' /\ ProcessedInv(u)'
      BY <1>0, <3>1, <3>2, <3>3 DEF EdgeInv, HandsClean, OwnSlot, ProcessedInv, InsertSteps
    <3>. QED BY <1>0, <3>1, <3>2, <3>3, <3>4 DEF EdgeInv, ListsClean
  <2>11. ASSUME NEW th \in Threads, NEW loc \in Nodes,
                \/ ProcessSkip(th, loc) \/ ProcessUnmodified(th, loc)
                \/ ProcessRead(th, loc) \/ ProcessWrite(th, loc)
         PROVE  EdgeInv'
    BY <2>11, ProcessKeepsEdges
  <2>. QED BY <1>2, <2>1, <2>2, <2>3, <2>4, <2>5, <2>6, <2>7, <2>8, <2>9, <2>10, <2>11 DEF GraphNext
<1>. QED BY <1>1, <1>2

\* NoDanglingEdgeSync: without _conc_consolidate no list that a search may read
\* names a slot of _empty_slots, for any number of slots, threads and neighbours,
\* whatever the searches find and the prunings keep.
THEOREM NeverDanglesSync == GraphSpec => []NoDanglingEdgeSync
<1>. DEFINE Inv == StepInv /\ (~conc_consolidate => EdgeInv)
<1>1. GraphInit => Inv
  BY StepInvInit, EdgeInvInit
<1>2. IndexInv /\ IndexInv' /\ Inv /\ [GraphNext]_allVars => Inv'
  <2>. SUFFICES ASSUME IndexInv, IndexInv', Inv, [GraphNext]_allVars PROVE Inv'
    OBVIOUS
  <2>1. conc_consolidate' = conc_consolidate
    BY DEF GraphNext, allVars, vars
  <2>2. StepInv'
    BY StepInvNext
  <2>3. ~conc_consolidate => EdgeInv'
    BY EdgeInvNext
  <2>. QED BY <2>1, <2>2, <2>3
<1>3. Inv => NoDanglingEdgeSync
  BY DEF EdgeInv, ListsClean, NoDanglingEdgeSync, NoDanglingEdge, Linked, Hidden
<1>. QED BY <1>1, <1>2, <1>3, GraphImplementsIndex, IndexInvAlways, PTL DEF GraphSpec
-----------------------------------------------------------------------------
\* What is reached grows by the lists of what was reached before, as many times as
\* there are nodes.
LEMMA ReachRounds ==
    ASSUME NEW g, NEW S
    PROVE  \E r : /\ Reachable(g, S) = r[Cardinality(Nodes)]
                  /\ r[0] = S
                  /\ \A i \in 1 .. Cardinality(Nodes) : r[i] = r[i - 1] \cup UNION {g[x] : x \in r[i - 1]}
<1>. DEFINE n == Cardinality(Nodes)
            reach == Spread(g, S, n)
<1>1. n \in Nat
  BY NodeSets
<1>2. Reachable(g, S) = reach[n]
  BY DEF Reachable, Spread
<1>. HIDE DEF n
<1>3. reach[0] = S /\ \A i \in 1 .. n : reach[i] = reach[i - 1] \cup UNION {g[x] : x \in reach[i - 1]}
  BY <1>1, SpreadRounds
<1>. HIDE DEF reach
<1>. QED BY <1>2, <1>3 DEF n

\* What is reached stays within what encloses the start and is closed under the lists.
LEMMA ReachWithin ==
    ASSUME NEW g, NEW S, NEW C, S \subseteq C, \A x \in C : g[x] \subseteq C
    PROVE  Reachable(g, S) \subseteq C
<1>. DEFINE n == Cardinality(Nodes)
<1>1. n \in Nat
  BY NodeSets
<1>2. Reachable(g, S) = Spread(g, S, n)[n]
  BY DEF Reachable, Spread
<1>. HIDE DEF n
<1>. QED BY <1>1, <1>2, SpreadWithin

\* What is reached is closed under the lists: each round that still adds something
\* adds a node, and there are no more rounds than nodes to need.
LEMMA ReachClosed ==
    ASSUME NEW g \in [Nodes -> SUBSET Nodes], NEW S \in SUBSET Nodes
    PROVE  /\ S \subseteq Reachable(g, S) /\ Reachable(g, S) \subseteq Nodes
           /\ \A x \in Reachable(g, S) : g[x] \subseteq Reachable(g, S)
<1>. DEFINE n == Cardinality(Nodes)
            Closed(T) == \A x \in T : g[x] \subseteq T
<1>1. n \in Nat /\ Reachable(g, S) \subseteq Nodes
  <2>1. \A x \in Nodes : g[x] \subseteq Nodes
    OBVIOUS
  <2>. QED BY <2>1, NodeSets, ReachWithin
<1>2. PICK r : /\ Reachable(g, S) = r[n] /\ r[0] = S
               /\ \A i \in 1 .. n : r[i] = r[i - 1] \cup UNION {g[x] : x \in r[i - 1]}
  BY ReachRounds
<1>. DEFINE Good == {i \in 0 .. n : /\ r[i] \subseteq Nodes /\ S \subseteq r[i]
                                    /\ Closed(r[i]) \/ Cardinality(r[i]) >= i}
<1>3. 0 \in Good
  BY <1>1, <1>2, NodeSets
<1>4. ASSUME NEW i \in 1 .. n, i - 1 \in Good PROVE i \in Good
  <2>. DEFINE A == r[i - 1]
              B == r[i]
  <2>1. A \subseteq Nodes /\ S \subseteq A /\ B = A \cup UNION {g[x] : x \in A}
    BY <1>2, <1>4
  <2>. HIDE DEF A, B
  <2>2. B \subseteq Nodes /\ S \subseteq B /\ A \subseteq B
    BY <2>1
  <2>3. CASE Closed(A)
    <3>1. B = A
      BY <2>1, <2>3
    <3>. QED BY <1>4, <2>2, <2>3, <3>1 DEF B
  <2>4. CASE ~Closed(A)
    <3>1. A # B
      BY <2>1, <2>4
    <3>2. Cardinality(A) \in Nat /\ Cardinality(B) \in Nat /\ IsFiniteSet(B)
      BY <2>1, <2>2, NodeSets
    <3>3. Cardinality(A) >= i - 1
      BY <1>4, <2>4 DEF A
    <3>4. Cardinality(A) <= Cardinality(B) /\ (Cardinality(A) = Cardinality(B) => A = B)
      BY <2>2, <3>2, FS_Subset
    <3>5. Cardinality(B) >= i
      BY <3>1, <3>2, <3>3, <3>4
    <3>. QED BY <2>2, <3>5 DEF B
  <2>. QED BY <2>3, <2>4
<1>5. n \in Good
  <2>. HIDE DEF Good, n
  <2>1. 0 .. n \subseteq Good
    BY <1>1, <1>3, <1>4, Rounds
  <2>. QED BY <1>1, <2>1
<1>6. CASE Closed(r[n])
  BY <1>1, <1>2, <1>5, <1>6
<1>7. CASE Cardinality(r[n]) >= n
  <2>1. r[n] \subseteq Nodes /\ S \subseteq r[n]
    BY <1>5
  <2>2. Cardinality(r[n]) <= n /\ Cardinality(r[n]) \in Nat /\ (Cardinality(r[n]) = n => r[n] = Nodes)
    BY <2>1, NodeSets, FS_Subset
  <2>3. r[n] = Nodes
    BY <1>1, <1>7, <2>2
  <2>. QED BY <1>2, <2>1, <2>3
<1>. QED BY <1>5, <1>6, <1>7
-----------------------------------------------------------------------------
\* An index whose consolidations run alone and whose lists are never pruned.
Unpruned == ~conc_consolidate /\ Degree >= Cardinality(Nodes)

\* Where process_delete leads from x when the old set is D, but for x itself.
Across(x, D) == (neighbours[x] \ D) \cup UNION {neighbours[ngh] \ D : ngh \in neighbours[x] \cap D}

\* A set of nodes no search leaves: along lists, and along lists without the old set.
ClosedLists(C) == Frozen \subseteq C /\ \A x \in C : neighbours[x] \subseteq C
ClosedAcross(C, D) ==
    Frozen \subseteq C /\ C \cap D = {} /\ \A x \in C : Across(x, D) \subseteq C

\* While a consolidation runs, no list of the old set is written, and a location that
\* was read still has the list that was read.  What was within reach is in every set
\* no search leaves: across the old set until its locations are released, and then
\* along the lists as they are, whatever insertions add before the call returns.
ReachProcessing(th) ==
    pc[th] = "process" =>
        /\ (to_process \cup DOMAIN expanded) \cap old_delete_set[th] = {}
        /\ \A loc \in DOMAIN expanded : expanded[loc] = ExpandedNodes(loc, old_delete_set[th])
        /\ \A C \in SUBSET Nodes : ClosedAcross(C, old_delete_set[th]) => shielded \subseteq C

ReachReturning(th) ==
    pc[th] = "return_report" => \A C \in SUBSET Nodes : ClosedLists(C) => shielded \subseteq C

ReachInv ==
    Unpruned => \A th \in Threads :
        step[th] # "prune" /\ ReachProcessing(th) /\ ReachReturning(th)

LEMMA ReachInvInit == GraphInit => ReachInv
BY DEF GraphInit, Init, ReachInv, ReachProcessing, ReachReturning

\* A step that leaves lists, consolidations and what they shield alone.
LEMMA ReachUntouched ==
    ASSUME Unpruned, ReachInv, UNCHANGED <<neighbours, to_process, expanded, shielded, old_delete_set>>,
           \A u \in Threads : /\ step'[u] # "prune"
                              /\ pc'[u] = "process" => pc[u] = "process"
                              /\ pc'[u] = "return_report" => pc[u] = "return_report"
    PROVE  ReachInv'
<1>1. ASSUME NEW u \in Threads, pc'[u] = "process" PROVE ReachProcessing(u)'
  <2>1. ReachProcessing(u) /\ pc[u] = "process"
    BY <1>1 DEF ReachInv
  <2>. QED BY <2>1 DEF ReachProcessing, ClosedAcross, Across, ExpandedNodes
<1>2. ASSUME NEW u \in Threads, pc'[u] = "return_report" PROVE ReachReturning(u)'
  <2>1. ReachReturning(u) /\ pc[u] = "return_report"
    BY <1>2 DEF ReachInv
  <2>. QED BY <2>1 DEF ReachReturning, ClosedLists
<1>3. \A u \in Threads : ReachProcessing(u)' /\ ReachReturning(u)'
  BY <1>1, <1>2 DEF ReachProcessing, ReachReturning
<1>. QED BY <1>3 DEF ReachInv

\* An insertion adds a node to a list, or writes the list of a slot no list names:
\* a way that does not end there is still a way.
LEMMA InsertionKeepsReach ==
    ASSUME Unpruned, IndexInv, StepInv, EdgeInv, ReachInv, NEW th \in Threads, pc[th] = "link",
           UNCHANGED <<pc, shielded>>, \A u \in Threads : step'[u] # "prune",
           NEW d \in Nodes, NEW S, neighbours' = [neighbours EXCEPT ![d] = S],
           d \in Hidden \/ neighbours[d] \subseteq S
    PROVE  ReachInv'
<1>1. \A u \in Threads : pc'[u] # "process"
  BY ProcessAlone DEF InsertSteps, Unpruned
<1>2. /\ neighbours \in [Nodes -> SUBSET Nodes] /\ Hidden \subseteq Slots /\ Slots \cap Frozen = {}
      /\ ListsClean
  BY HiddenSlots, ParameterAssumption DEF StepInv, GraphTypeOK, EdgeInv, Slots, Frozen
<1>3. ASSUME NEW u \in Threads, pc'[u] = "return_report", NEW C \in SUBSET Nodes, ClosedLists(C)'
      PROVE  shielded' \subseteq C
  <2>1. \A Q \in SUBSET Nodes : ClosedLists(Q) => shielded \subseteq Q
    BY <1>3 DEF ReachInv, ReachReturning
  <2>2. \A x \in C \ {d} : neighbours[x] \subseteq C
    BY <1>2, <1>3 DEF ClosedLists
  <2>3. CASE d \in Hidden
    <3>1. ASSUME NEW x \in C \ Hidden PROVE neighbours[x] \subseteq C \ Hidden
      BY <1>2, <2>2, <2>3 DEF ListsClean
    <3>2. Frozen \subseteq C \ Hidden
      BY <1>2, <1>3 DEF ClosedLists
    <3>3. ClosedLists(C \ Hidden)
      BY <3>1, <3>2 DEF ClosedLists
    <3>. QED BY <2>1, <3>3
  <2>4. CASE neighbours[d] \subseteq S
    <3>1. d \in C => neighbours[d] \subseteq C
      BY <1>2, <1>3, <2>4 DEF ClosedLists
    <3>2. ClosedLists(C)
      BY <1>3, <2>2, <3>1 DEF ClosedLists
    <3>. QED BY <2>1, <3>2
  <2>. QED BY <2>3, <2>4
<1>4. \A u \in Threads : ReachProcessing(u)' /\ ReachReturning(u)'
  BY <1>1, <1>3 DEF ReachProcessing, ReachReturning
<1>. QED BY <1>4 DEF ReachInv
\* At the swap of the delete set: a live location that is reached without passing two
\* deleted ones in a row is in every set no search leaves across the deleted ones.
LEMMA StartShields ==
    ASSUME Unpruned, IndexInv, StepInv, EdgeInv, ReachInv, NEW th \in Threads, StartProcessing(th)
    PROVE  ReachInv'
<1>. DEFINE D == delete_set
            g == [x \in Nodes |-> IF x \in D THEN neighbours[x] \ D ELSE neighbours[x]]
<1>1. /\ TypeOK /\ LiveSlots \cap D = {} /\ D \subseteq Slots
      /\ neighbours \in [Nodes -> SUBSET Nodes] /\ Slots \cap Frozen = {} /\ Frozen \subseteq Nodes
  BY ParameterAssumption DEF IndexInv, SlotInv, SlotsAccounted, TypeOK, StepInv, GraphTypeOK, Slots, Frozen, Nodes
<1>2. /\ pc[th] = "try_lock" /\ pc' = [pc EXCEPT ![th] = "process"] /\ consolidate_lock = NoThread
      /\ old_delete_set' = [old_delete_set EXCEPT ![th] = D]
      /\ to_process' = Nodes \ D
      /\ shielded' = LiveSlots \cap ReachableAcross(D)
      /\ UNCHANGED <<neighbours, step, expanded>>
  BY DEF StartProcessing, ConsolidateStart, insertVars
<1>3. \A u \in Threads : pc[u] \notin {"process", "return_report"}
  BY <1>2, ParameterAssumption DEF IndexInv, LockInv
<1>4. DOMAIN expanded = {}
  BY <1>3 DEF EdgeInv
<1>5. \A u \in Threads : /\ pc'[u] = "process" => u = th
                         /\ pc'[u] # "return_report"
                         /\ step'[u] # "prune"
  BY <1>1, <1>2, <1>3 DEF TypeOK, ReachInv
<1>6. old_delete_set'[th] = D
  BY <1>1, <1>2 DEF TypeOK
<1>7. ASSUME NEW C \in SUBSET Nodes, ClosedAcross(C, old_delete_set[th])' PROVE shielded' \subseteq C
  <2>. DEFINE Q == C \cup {d \in D : \E x \in C : d \in neighbours[x]}
  <2>1. Frozen \subseteq C /\ C \cap D = {} /\ \A x \in C : Across(x, D) \subseteq C
    BY <1>2, <1>6, <1>7 DEF ClosedAcross, Across
  <2>2. ASSUME NEW x \in Q PROVE g[x] \subseteq Q
    <3>1. x \in Nodes
      BY <1>1 DEF Nodes
    <3>2. CASE x \in C
      <4>1. g[x] = neighbours[x] /\ neighbours[x] \ D \subseteq C
        BY <2>1, <3>1, <3>2 DEF Across
      <4>. QED BY <3>2, <4>1
    <3>3. CASE x \notin C
      <4>1. PICK y \in C : x \in neighbours[y] /\ x \in D
        BY <3>3
      <4>2. neighbours[x] \ D \subseteq Across(y, D)
        BY <4>1 DEF Across
      <4>. QED BY <2>1, <3>1, <4>1, <4>2
    <3>. QED BY <3>2, <3>3
  <2>3. ReachableAcross(D) = Reachable(g, Frozen)
    BY DEF ReachableAcross
  <2>4. Reachable(g, Frozen) \subseteq Q
    <3>1. Frozen \subseteq Q
      BY <2>1
    <3>. HIDE DEF g, Q
    <3>. QED BY <2>2, <3>1, ReachWithin
  <2>. QED BY <1>1, <1>2, <2>3, <2>4
<1>8. ReachProcessing(th)'
  BY <1>2, <1>4, <1>6, <1>7 DEF ReachProcessing
<1>. QED BY <1>5, <1>8 DEF ReachInv, ReachProcessing, ReachReturning

\* process_delete leads from a location where its list, and the lists of its neighbours
\* in the old set, led before.
LEMMA WriteKeepsAcross ==
    ASSUME GraphTypeOK, NEW D, NEW loc \in Nodes \ D,
           neighbours' = [neighbours EXCEPT ![loc] = ExpandedNodes(loc, D)],
           NEW C \in SUBSET Nodes, ClosedAcross(C, D)'
    PROVE  ClosedAcross(C, D)
<1>1. neighbours \in [Nodes -> SUBSET Nodes]
  BY DEF GraphTypeOK
<1>2. Frozen \subseteq C /\ C \cap D = {}
  BY DEF ClosedAcross
<1>3. ASSUME NEW x \in C \ {loc} PROVE Across(x, D) \subseteq C
  <2>1. neighbours'[x] = neighbours[x] /\ \A d \in D : neighbours'[d] = neighbours[d]
    BY <1>1
  <2>2. Across(x, D)' = Across(x, D)
    BY <2>1 DEF Across
  <2>. QED BY <2>2 DEF ClosedAcross
<1>4. ASSUME loc \in C PROVE Across(loc, D) \subseteq C
  <2>1. neighbours'[loc] = ExpandedNodes(loc, D) /\ ExpandedNodes(loc, D) \cap D = {}
    BY <1>1 DEF ExpandedNodes
  <2>2. ExpandedNodes(loc, D) \subseteq C
    BY <1>4, <2>1 DEF ClosedAcross, Across
  <2>3. Across(loc, D) \subseteq ExpandedNodes(loc, D) \cup {loc}
    BY DEF Across, ExpandedNodes
  <2>. QED BY <1>4, <2>2, <2>3
<1>. QED BY <1>2, <1>3, <1>4 DEF ClosedAcross

\* The steps of a consolidation on one location.
LEMMA ProcessKeepsReach ==
    ASSUME Unpruned, IndexInv, StepInv, ReachInv, NEW th \in Threads, NEW loc \in Nodes,
           \/ ProcessSkip(th, loc) \/ ProcessUnmodified(th, loc)
           \/ ProcessRead(th, loc) \/ ProcessWrite(th, loc)
    PROVE  ReachInv'
<1>. DEFINE D == old_delete_set[th]
<1>1. /\ pc[th] = "process" /\ UNCHANGED <<pc, old_delete_set, step, shielded>>
  BY DEF ProcessSkip, ProcessUnmodified, ProcessRead, ProcessWrite, insertVars, vars, localVars
<1>2. /\ \A u \in Threads : pc[u] = "process" => u = th
      /\ \A u \in Threads : pc[u] # "return_report"
  BY <1>1, ProcessAlone, ParameterAssumption DEF IndexInv, LockInv, Unpruned
<1>3. /\ (to_process \cup DOMAIN expanded) \cap D = {}
      /\ \A x \in DOMAIN expanded : expanded[x] = ExpandedNodes(x, D)
      /\ \A C \in SUBSET Nodes : ClosedAcross(C, D) => shielded \subseteq C
      /\ \A u \in Threads : step[u] # "prune"
      /\ GraphTypeOK
  BY <1>1 DEF ReachInv, ReachProcessing, StepInv
<1>4. ReachProcessing(th)' => ReachInv'
  BY <1>1, <1>2, <1>3 DEF ReachInv, ReachProcessing, ReachReturning
<1>5. CASE ProcessSkip(th, loc) \/ ProcessUnmodified(th, loc)
  <2>1. UNCHANGED <<neighbours, expanded>> /\ to_process' = to_process \ {loc}
    BY <1>5 DEF ProcessSkip, ProcessUnmodified
  <2>2. ReachProcessing(th)'
    BY <1>1, <1>3, <2>1 DEF ReachProcessing, ClosedAcross, Across, ExpandedNodes
  <2>. QED BY <1>4, <2>2
<1>6. CASE ProcessRead(th, loc)
  <2>1. /\ neighbours' = neighbours /\ loc \in to_process /\ to_process' = to_process \ {loc}
        /\ expanded' = [x \in DOMAIN expanded \cup {loc} |->
                          IF x = loc THEN ExpandedNodes(loc, D) ELSE expanded[x]]
    BY <1>6 DEF ProcessRead, Turn
  <2>2. \A x \in DOMAIN expanded' : expanded'[x] = ExpandedNodes(x, D)
    BY <1>3, <2>1
  <2>3. ReachProcessing(th)'
    BY <1>1, <1>3, <2>1, <2>2 DEF ReachProcessing, ClosedAcross, Across, ExpandedNodes
  <2>. QED BY <1>4, <2>3
<1>7. CASE ProcessWrite(th, loc)
  <2>1. /\ loc \in DOMAIN expanded /\ to_process' = to_process
        /\ expanded' = [x \in DOMAIN expanded \ {loc} |-> expanded[x]]
    BY <1>7 DEF ProcessWrite
  <2>2. Cardinality(expanded[loc]) <= Degree
    <3>1. expanded[loc] \subseteq Nodes
      BY <1>3, <2>1 DEF GraphTypeOK
    <3>2. Cardinality(expanded[loc]) \in Nat /\ Cardinality(Nodes) \in Nat
          /\ Cardinality(expanded[loc]) <= Cardinality(Nodes)
      BY <3>1, NodeSets
    <3>3. Degree \in Nat
      BY GraphAssumption DEF StepInv, Degree
    <3>. QED BY <3>2, <3>3 DEF Unpruned
  <2>3. neighbours' = [neighbours EXCEPT ![loc] = ExpandedNodes(loc, D)]
    BY <1>3, <1>7, <2>1, <2>2 DEF ProcessWrite
  <2>4. loc \in Nodes \ D
    BY <1>3, <2>1
  <2>5. \A C \in SUBSET Nodes : ClosedAcross(C, D)' => shielded' \subseteq C
    BY <1>1, <1>3, <2>3, <2>4, WriteKeepsAcross
  <2>6. ASSUME NEW x \in DOMAIN expanded' PROVE expanded'[x] = ExpandedNodes(x, D)'
    <3>1. x # loc /\ x \in Nodes /\ expanded'[x] = ExpandedNodes(x, D)
      BY <1>3, <2>1 DEF GraphTypeOK
    <3>2. neighbours'[x] = neighbours[x] /\ \A d \in D : neighbours'[d] = neighbours[d]
      BY <1>3, <2>3, <2>4, <3>1 DEF GraphTypeOK
    <3>. QED BY <1>1, <3>1, <3>2 DEF ExpandedNodes
  <2>7. ReachProcessing(th)'
    BY <1>1, <1>3, <2>1, <2>5, <2>6 DEF ReachProcessing, ClosedAcross, Across, ExpandedNodes
  <2>. QED BY <1>4, <2>7
<1>. QED BY <1>5, <1>6, <1>7

\* The release of the locations: a set closed under the lists is, without the old set,
\* closed across it.
LEMMA ReleaseKeepsReach ==
    ASSUME Unpruned, IndexInv, StepInv, ReachInv, NEW th \in Threads, ReleaseProcessed(th)
    PROVE  ReachInv'
<1>. DEFINE D == old_delete_set[th]
<1>1. /\ pc[th] = "process" /\ pc' = [pc EXCEPT ![th] = "return_report"]
      /\ UNCHANGED <<neighbours, step, shielded>>
  BY DEF ReleaseProcessed, ConsolidateRelease, graphVars, insertVars, consolidateVars
<1>2. /\ \A u \in Threads : pc[u] = "process" => u = th
      /\ \A u \in Threads : pc[u] # "return_report"
  BY <1>1, ProcessAlone, ParameterAssumption DEF IndexInv, LockInv, Unpruned
<1>3. /\ \A C \in SUBSET Nodes : ClosedAcross(C, D) => shielded \subseteq C
      /\ \A u \in Threads : step[u] # "prune"
  BY <1>1 DEF ReachInv, ReachProcessing
<1>4. \A u \in Threads : pc'[u] # "process" /\ (pc'[u] = "return_report" => u = th)
  BY <1>1, <1>2 DEF IndexInv, SlotInv, TypeOK
<1>5. D \cap Frozen = {}
  BY ParameterAssumption DEF IndexInv, SlotInv, TypeOK, Slots, Frozen
<1>6. ASSUME NEW C \in SUBSET Nodes, ClosedLists(C) PROVE shielded \subseteq C
  <2>1. ClosedAcross(C \ D, D)
    BY <1>5, <1>6 DEF ClosedLists, ClosedAcross, Across
  <2>. QED BY <1>3, <2>1
<1>7. ReachReturning(th)'
  BY <1>1, <1>6 DEF ReachReturning, ClosedLists
<1>. QED BY <1>1, <1>3, <1>4, <1>7 DEF ReachInv, ReachProcessing, ReachReturning
\* No step takes a shielded point out of reach.
LEMMA ReachInvNext ==
    ASSUME IndexInv, StepInv, ~conc_consolidate => EdgeInv, ReachInv, [GraphNext]_allVars
    PROVE  ReachInv'
<1>. USE DEF insertVars, consolidateVars
<1>1. CASE UNCHANGED allVars
  <2>1. UNCHANGED <<conc_consolidate, setup, pc, old_delete_set, step, neighbours, to_process, expanded, shielded>>
    BY <1>1 DEF allVars, vars, localVars, graphVars
  <2>2. CASE Unpruned
    BY <2>1, <2>2, ReachUntouched DEF ReachInv
  <2>3. CASE ~Unpruned
    BY <2>1, <2>3 DEF Unpruned, Degree, ReachInv
  <2>. QED BY <2>2, <2>3
<1>2. ASSUME GraphNext, ~Unpruned PROVE ReachInv'
  <2>1. UNCHANGED <<conc_consolidate, setup>>
    BY <1>2 DEF GraphNext
  <2>. QED BY <1>2, <2>1 DEF Unpruned, Degree, ReachInv
<1>3. ASSUME GraphNext, Unpruned PROVE ReachInv'
  <2>0. /\ TypeOK /\ GraphTypeOK /\ EdgeInv /\ \A u \in Threads : InsertionInv(u)
        /\ \A u \in Threads : step[u] # "prune"
    BY <1>3 DEF IndexInv, SlotInv, StepInv, ReachInv, Unpruned
  <2>1. CASE SlotStep
    <3>1. \A u \in Threads : /\ pc'[u] = "process" <=> pc[u] = "process"
                             /\ pc'[u] = "return_report" <=> pc[u] = "return_report"
                             /\ old_delete_set'[u] = old_delete_set[u]
      BY <2>1, CallStep
    <3>2. UNCHANGED <<step, neighbours, to_process, expanded, shielded>>
      BY <2>1 DEF SlotStep, graphVars
    <3>3. old_delete_set' = old_delete_set
      BY <2>1 DEF SlotStep, Insert, InsertFull, InsertDuplicate, InsertReserve, RegisterPoint, InsertSetVector,
                  LazyDelete, LazyDeleteMany, ConsolidateRefused, ConsolidateCheck,
                  ConsolidateLockUpdate, ConsolidateLockFail, localVars
    <3>. QED BY <1>3, <2>0, <3>1, <3>2, <3>3, ReachUntouched
  <2>2. ASSUME NEW th \in Threads, NEW x \in Nodes, InsertExpand(th, x) PROVE ReachInv'
    BY <1>3, <2>0, <2>2, ReachUntouched DEF InsertExpand, vars, localVars
  <2>3. ASSUME NEW th \in Threads, InsertPrune(th) PROVE ReachInv'
    <3>1. /\ step' = [step EXCEPT ![th] = "set_neighbours"]
          /\ UNCHANGED <<pc, old_delete_set, neighbours, to_process, expanded, shielded>>
      BY <2>3 DEF InsertPrune, vars, localVars
    <3>2. \A u \in Threads : step'[u] # "prune"
      BY <2>0, <3>1 DEF GraphTypeOK
    <3>. QED BY <1>3, <3>1, <3>2, ReachUntouched
  <2>4. ASSUME NEW th \in Threads, InsertSetNeighbours(th) PROVE ReachInv'
    <3>1. /\ step[th] = "set_neighbours" /\ step' = [step EXCEPT ![th] = "inter_insert"]
          /\ UNCHANGED <<pc, shielded>>
      BY <2>4 DEF InsertSetNeighbours, vars
    <3>2. pc[th] = "link" /\ location[th] \in Slots
      BY <2>0, <3>1 DEF InsertionInv, InsertSteps
    <3>3. location[th] \in Hidden /\ location[th] \in Nodes
      BY <3>1, <3>2 DEF Hidden, Unlinked, Nodes
    <3>4. \A u \in Threads : step'[u] # "prune"
      BY <2>0, <3>1 DEF GraphTypeOK
    <3>5. PICK S : neighbours' = [neighbours EXCEPT ![location[th]] = S]
      BY <2>4 DEF InsertSetNeighbours
    <3>. QED BY <1>3, <2>0, <3>1, <3>2, <3>3, <3>4, <3>5, InsertionKeepsReach
  <2>5. ASSUME NEW th \in Threads, NEW d \in Nodes, InterInsertAdd(th, d) PROVE ReachInv'
    <3>1. /\ step[th] = "inter_insert" /\ UNCHANGED <<pc, shielded, step>>
          /\ neighbours' = [neighbours EXCEPT ![d] = neighbours[d] \cup {location[th]}]
      BY <2>5 DEF InterInsertAdd, vars
    <3>2. pc[th] = "link" /\ \A u \in Threads : step'[u] # "prune"
      BY <2>0, <3>1 DEF InsertionInv
    <3>. QED BY <1>3, <2>0, <3>1, <3>2, InsertionKeepsReach
  <2>6. ASSUME NEW th \in Threads, NEW d \in Nodes, InterInsertCopy(th, d) PROVE FALSE
    <3>1. /\ step[th] = "inter_insert" /\ location[th] \notin neighbours[d]
          /\ Cardinality(neighbours[d]) >= SlackDegree
      BY <2>6 DEF InterInsertCopy
    <3>2. location[th] \in Nodes
      BY <2>0, <3>1 DEF InsertionInv, InsertSteps, Nodes
    <3>3. neighbours[d] \subseteq Nodes /\ neighbours[d] # Nodes
      BY <2>0, <3>1, <3>2 DEF GraphTypeOK
    <3>4. /\ Cardinality(neighbours[d]) \in Nat /\ Cardinality(Nodes) \in Nat
          /\ Cardinality(neighbours[d]) <= Cardinality(Nodes)
          /\ Cardinality(neighbours[d]) # Cardinality(Nodes)
      BY <3>3, NodeSets, FS_Subset
    <3>5. Degree \in Nat /\ SlackDegree \in Nat /\ SlackDegree >= Degree
      BY GraphAssumption DEF StepInv, Degree, SlackDegree
    <3>. QED BY <1>3, <3>1, <3>4, <3>5 DEF Unpruned
  <2>7. ASSUME NEW th \in Threads, InterInsertPrune(th) PROVE FALSE
    BY <2>0, <2>7 DEF InterInsertPrune
  <2>8. ASSUME NEW th \in Threads, InsertDone(th) PROVE ReachInv'
    <3>1. /\ step' = [step EXCEPT ![th] = "search"] /\ pc' = [pc EXCEPT ![th] = "idle"]
          /\ UNCHANGED <<old_delete_set, neighbours, to_process, expanded, shielded>>
      BY <2>8 DEF InsertDone, InsertReturn
    <3>2. \A u \in Threads : /\ step'[u] # "prune"
                             /\ pc'[u] = "process" => pc[u] = "process"
                             /\ pc'[u] = "return_report" => pc[u] = "return_report"
      BY <2>0, <3>1 DEF GraphTypeOK, TypeOK
    <3>. QED BY <1>3, <3>1, <3>2, ReachUntouched
  <2>9. ASSUME NEW th \in Threads, StartProcessing(th) PROVE ReachInv'
    BY <1>3, <2>0, <2>9, StartShields
  <2>10. ASSUME NEW th \in Threads, ReleaseProcessed(th) PROVE ReachInv'
    BY <1>3, <2>10, ReleaseKeepsReach
  <2>11. ASSUME NEW th \in Threads, ReturnProcessed(th) PROVE ReachInv'
    <3>1. /\ pc[th] = "return_report" /\ pc' = [pc EXCEPT ![th] = "idle"]
          /\ UNCHANGED step
      BY <2>11 DEF ReturnProcessed, ConsolidateReturn
    <3>2. \A u \in Threads : pc'[u] \notin {"process", "return_report"}
      BY <2>0, <3>1, ParameterAssumption DEF TypeOK, IndexInv, LockInv
    <3>. QED BY <2>0, <3>1, <3>2 DEF ReachInv, ReachProcessing, ReachReturning
  <2>12. ASSUME NEW th \in Threads, NEW loc \in Nodes,
                \/ ProcessSkip(th, loc) \/ ProcessUnmodified(th, loc)
                \/ ProcessRead(th, loc) \/ ProcessWrite(th, loc)
         PROVE  ReachInv'
    BY <1>3, <2>12, ProcessKeepsReach
  <2>. QED BY <1>3, <2>1, <2>2, <2>3, <2>4, <2>5, <2>6, <2>7, <2>8, <2>9, <2>10, <2>11, <2>12 DEF GraphNext
<1>. QED BY <1>1, <1>2, <1>3

\* ConsolidationKeepsReach: when consolidate_deletes returns, each point that was live
\* and within reach without two deleted points in a row when it swapped the delete set
\* is still within reach, for an index of any size whose lists need no pruning, in
\* whatever order the locations are processed and whatever is inserted in between.
THEOREM ConsolidationAlwaysKeepsReach == GraphSpec => []ConsolidationKeepsReach
<1>. DEFINE Inv == StepInv /\ (~conc_consolidate => EdgeInv) /\ ReachInv
<1>1. GraphInit => Inv
  BY StepInvInit, EdgeInvInit, ReachInvInit
<1>2. IndexInv /\ IndexInv' /\ Inv /\ [GraphNext]_allVars => Inv'
  <2>. SUFFICES ASSUME IndexInv, IndexInv', Inv, [GraphNext]_allVars PROVE Inv'
    OBVIOUS
  <2>1. conc_consolidate' = conc_consolidate
    BY DEF GraphNext, allVars, vars
  <2>2. StepInv'
    BY StepInvNext
  <2>3. ~conc_consolidate => EdgeInv'
    BY EdgeInvNext
  <2>4. ReachInv'
    BY ReachInvNext
  <2>. QED BY <2>1, <2>2, <2>3, <2>4
<1>3. Inv => ConsolidationKeepsReach
  <2>. SUFFICES ASSUME Inv, NEW th \in Threads, Unpruned, pc[th] = "return_report"
                PROVE  shielded \subseteq Reachable(neighbours, Frozen)
    BY DEF ConsolidationKeepsReach, Unpruned
  <2>1. neighbours \in [Nodes -> SUBSET Nodes] /\ Frozen \in SUBSET Nodes
    BY DEF StepInv, GraphTypeOK, Nodes
  <2>2. /\ Frozen \subseteq Reachable(neighbours, Frozen) /\ Reachable(neighbours, Frozen) \subseteq Nodes
        /\ \A x \in Reachable(neighbours, Frozen) : neighbours[x] \subseteq Reachable(neighbours, Frozen)
    BY <2>1, ReachClosed
  <2>3. ClosedLists(Reachable(neighbours, Frozen))
    BY <2>2 DEF ClosedLists
  <2>. QED BY <2>2, <2>3 DEF ReachInv, ReachReturning
<1>. QED BY <1>1, <1>2, <1>3, GraphImplementsIndex, IndexInvAlways, PTL DEF GraphSpec
=============================================================================
