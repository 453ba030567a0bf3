------------------------------ MODULE TagStore ------------------------------
(***************************************************************************)
(* What a dynamic diskann::Index promises its callers, with no locations,  *)
(* maps or locks: a set of live tags in a store of fixed capacity, where a *)
(* deleted tag keeps its room until a consolidation that began after the   *)
(* deletion has finished.  DynamicIndex is shown to implement this module. *)
(***************************************************************************)
EXTENDS Integers, FiniteSets

CONSTANTS
    Tags,       \* the tags callers use (never 0, which insert_point refuses)
    Capacity,   \* _max_points
    NoTag       \* stands for "no tag" in a reply about a whole call

VARIABLES
    live,       \* tags present in the store
    dead,       \* rooms held by deleted tags no consolidation has picked up
    reclaiming, \* rooms a running consolidation is about to give back
    phase,      \* of the one consolidation that may run at a time
    outcome     \* the reply of the last call that took effect

vars == <<live, dead, reclaiming, phase, outcome>>

\* What a call answers.  0 and -1 are the codes of insert_point and lazy_delete;
\* a consolidation answers a status of consolidation_report.
Reply(op, tag, ret) == [op |-> op, tag |-> tag, ret |-> ret]

Used == Cardinality(live) + dead + reclaiming

Init ==
    /\ live = {}
    /\ dead = 0
    /\ reclaiming = 0
    /\ phase = "free"
    /\ outcome = Reply("none", NoTag, "0")

Insert(t) ==
    /\ t \notin live
    /\ Used < Capacity
    /\ live' = live \cup {t}
    /\ outcome' = Reply("insert", t, "0")
    /\ UNCHANGED <<dead, reclaiming, phase>>

RejectInsert(t) ==
    /\ t \in live \/ Used >= Capacity
    /\ outcome' = Reply("insert", t, "-1")
    /\ UNCHANGED <<live, dead, reclaiming, phase>>

Delete(t) ==
    /\ t \in live
    /\ live' = live \ {t}
    /\ dead' = dead + 1
    /\ outcome' = Reply("delete", t, "0")
    /\ UNCHANGED <<reclaiming, phase>>

RejectDelete(t) ==
    /\ t \notin live
    /\ outcome' = Reply("delete", t, "-1")
    /\ UNCHANGED <<live, dead, reclaiming, phase>>

DeleteMany(tags) ==
    /\ live' = live \ tags
    /\ dead' = dead + Cardinality(live \cap tags)
    /\ outcome' = Reply("delete_many", NoTag, "0")
    /\ UNCHANGED <<reclaiming, phase>>

\* A consolidation takes charge of every room that is dead when it begins.
BeginReclaim ==
    /\ phase = "free"
    /\ phase' = "marked"
    /\ reclaiming' = dead
    /\ dead' = 0
    /\ UNCHANGED <<live, outcome>>

FinishReclaim ==
    /\ phase = "marked"
    /\ phase' = "done"
    /\ reclaiming' = 0
    /\ outcome' = Reply("consolidate", NoTag, "SUCCESS")
    /\ UNCHANGED <<live, dead>>

EndReclaim ==
    /\ phase = "done"
    /\ phase' = "free"
    /\ UNCHANGED <<live, dead, reclaiming, outcome>>

\* A second consolidation is turned away, and only while another one runs.
RefuseReclaim(status) ==
    /\ \/ status = "LOCK_FAIL" /\ phase # "free"
       \/ status = "INCONSISTENT_COUNT_ERROR" /\ reclaiming > 0
    /\ outcome' = Reply("consolidate", NoTag, status)
    /\ UNCHANGED <<live, dead, reclaiming, phase>>

Next ==
    \/ \E t \in Tags : Insert(t) \/ RejectInsert(t) \/ Delete(t) \/ RejectDelete(t)
    \/ \E tags \in SUBSET Tags : DeleteMany(tags)
    \/ BeginReclaim \/ FinishReclaim \/ EndReclaim
    \/ \E status \in {"LOCK_FAIL", "INCONSISTENT_COUNT_ERROR"} : RefuseReclaim(status)

Spec == Init /\ [][Next]_vars
=============================================================================
