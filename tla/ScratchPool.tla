---------------------------- MODULE ScratchPool ----------------------------
(***************************************************************************)
(* The pool of scratch spaces of diskann::Index: ConcurrentQueue           *)
(* (src/include/concurrent_queue.h), its guard ScratchStoreManager         *)
(* (src/include/scratch.h), and the order in which search, insert_point    *)
(* and consolidate_deletes (src/src/index.cpp) take a space and            *)
(* _update_lock.  A search takes its space first and an insertion its lock *)
(* first; a consolidation that is not concurrent takes the lock            *)
(* exclusively, and spaces for each location it visits.                    *)
(*                                                                         *)
(* What a thread does with its space is one step.  The mutex of the queue  *)
(* is held within one action.  A waiting thread wakes at a notification    *)
(* sent while it waits, and at the end of wait_for's time.  The shared     *)
(* lock may prefer readers or a waiting writer: the actions allow both and *)
(* the fairness assumes neither.                                           *)
(***************************************************************************)
EXTENDS Integers, FiniteSets, Sequences

CONSTANTS
    Searchers,      \* threads that call search or search_with_tags
    Inserters,      \* threads that call insert_point
    Consolidators,  \* threads that call consolidate_deletes
    Team,           \* the OpenMP threads of its parallel loop
    Scratches,      \* num_search_threads + _indexingThreads spaces
    Locations,      \* bound: locations a consolidation visits in the loop
    Calls,          \* bound: calls each caller makes
    Modes,          \* values of _conc_consolidate
    NoScratch, NoThread

Callers == Searchers \cup Inserters \cup Consolidators
Threads == Callers \cup Team

ASSUME PoolAssumption ==
    /\ IsFiniteSet(Threads) /\ IsFiniteSet(Scratches)
    /\ Team # {}
    /\ Searchers \cap (Inserters \cup Consolidators \cup Team) = {}
    /\ Inserters \cap (Consolidators \cup Team) = {} /\ Consolidators \cap Team = {}
    /\ NoScratch \notin Scratches /\ NoThread \notin Threads
    /\ Locations \in Nat /\ Calls \in Nat
    /\ Modes \subseteq BOOLEAN

VARIABLES
    query_scratch, \* q of _query_scratch
    dirty,         \* spaces that hold what a call left in them
    scratch,       \* _scratch of each thread's ScratchStoreManager
    pc,            \* the step each thread is at
    readers,       \* threads that hold _update_lock shared
    writer,        \* the thread that holds it exclusively
    consolidating, \* the thread that holds _consolidate_lock
    left,          \* locations the parallel loop has yet to hand out
    calls,         \* calls each caller may still make
    conc           \* _conc_consolidate

pool == <<query_scratch, dirty, scratch>>
locks == <<readers, writer, consolidating>>
vars == <<pool, pc, locks, left, calls, conc>>

Steps == {"idle", "pop", "empty", "waiting", "work", "return", "notify",
          "shared", "unlock", "check", "exclusive", "try", "loop",
          "release", "finish"}

Available == {query_scratch[i] : i \in 1 .. Len(query_scratch)}
Distinct(s) == \A i, j \in 1 .. Len(s) : s[i] = s[j] => i = j
Held == {scratch[t] : t \in Threads} \ {NoScratch}

Goto(t, step) == pc' = [pc EXCEPT ![t] = step]

\* initialize_query_scratch pushes every space; no call has begun.
Init ==
    /\ query_scratch \in [1 .. Cardinality(Scratches) -> Scratches]
    /\ Available = Scratches /\ Distinct(query_scratch)
    /\ dirty = {}
    /\ scratch = [t \in Threads |-> NoScratch]
    /\ pc = [t \in Threads |-> "idle"]
    /\ readers = {} /\ writer = NoThread /\ consolidating = NoThread
    /\ left = 0
    /\ calls = [t \in Callers |-> Calls]
    /\ conc \in Modes

-----------------------------------------------------------------------------
\* ScratchStoreManager's constructor.

\* pop gives the front of the queue.  A search now waits for _update_lock.
Pop(t) ==
    /\ pc[t] = "pop" /\ query_scratch # <<>>
    /\ scratch' = [scratch EXCEPT ![t] = Head(query_scratch)]
    /\ query_scratch' = Tail(query_scratch)
    /\ Goto(t, IF t \in Searchers THEN "shared" ELSE "work")
    /\ UNCHANGED <<dirty, locks, left, calls, conc>>

\* pop finds the queue empty and returns null_T.
PopNull(t) ==
    /\ pc[t] = "pop" /\ query_scratch = <<>>
    /\ Goto(t, "empty")
    /\ UNCHANGED <<pool, locks, left, calls, conc>>

\* wait_for_push_notify begins to wait; what was notified before is lost.
Wait(t) ==
    /\ pc[t] = "empty"
    /\ Goto(t, "waiting")
    /\ UNCHANGED <<pool, locks, left, calls, conc>>

\* Faulty variant: the wait has no time limit.
TimeOutNever(t) ==
    /\ pc[t] = "waiting" /\ pc[t] = "pop"
    /\ UNCHANGED vars

\* wait_for ends after its time, and pop is tried again.
TimeOut(t) ==
    /\ pc[t] = "waiting"
    /\ Goto(t, "pop")
    /\ UNCHANGED <<pool, locks, left, calls, conc>>

-----------------------------------------------------------------------------
\* ~ScratchStoreManager.

\* Faulty variant: the space goes back as it is.
ReturnUncleared(t) ==
    /\ pc[t] = "return"
    /\ query_scratch' = Append(query_scratch, scratch[t])
    /\ scratch' = [scratch EXCEPT ![t] = NoScratch]
    /\ Goto(t, "notify")
    /\ UNCHANGED <<dirty, locks, left, calls, conc>>

\* The space is cleared and pushed.
Return(t) ==
    /\ pc[t] = "return"
    /\ dirty' = dirty \ {scratch[t]}
    /\ query_scratch' = Append(query_scratch, scratch[t])
    /\ scratch' = [scratch EXCEPT ![t] = NoScratch]
    /\ Goto(t, "notify")
    /\ UNCHANGED <<locks, left, calls, conc>>

\* push_notify_all wakes those that wait at this moment.
Notify(t) ==
    /\ pc[t] = "notify"
    /\ pc' = [u \in Threads |->
                CASE u = t -> IF t \in Inserters THEN "unlock"
                              ELSE IF t \in Consolidators THEN "release" ELSE "idle"
                  [] u # t /\ pc[u] = "waiting" -> "pop"
                  [] OTHER -> pc[u]]
    /\ UNCHANGED <<pool, locks, left, calls, conc>>

-----------------------------------------------------------------------------
\* search, insert_point, consolidate_deletes.

\* A call begins.  A search begins with the space, the others with the lock.
Begin(t) ==
    /\ t \in Callers /\ pc[t] = "idle" /\ calls[t] > 0
    /\ calls' = [calls EXCEPT ![t] = @ - 1]
    /\ Goto(t, CASE t \in Searchers -> "pop"
                 [] t \in Inserters -> "shared"
                 [] t \in Consolidators -> "check")
    /\ UNCHANGED <<pool, locks, left, conc>>

\* The shared _update_lock is granted.  An insertion that is refused gives it
\* up again without a space.
LockShared(t) ==
    /\ pc[t] = "shared" /\ writer = NoThread
    /\ readers' = readers \cup {t}
    /\ \/ t \in Searchers /\ Goto(t, "work")
       \/ t \in Inserters /\ \E step \in {"pop", "unlock"} : Goto(t, step)
    /\ UNCHANGED <<pool, writer, consolidating, left, calls, conc>>

\* The space is used.  A search then gives up its lock before the space; a
\* location of the loop and a frozen point hold no lock of their own.
Work(t) ==
    /\ pc[t] = "work"
    /\ dirty' = dirty \cup {scratch[t]}
    /\ readers' = IF t \in Searchers THEN readers \ {t} ELSE readers
    /\ Goto(t, "return")
    /\ UNCHANGED <<query_scratch, scratch, writer, consolidating, left, calls, conc>>

\* insert_point returns.
Unlock(t) ==
    /\ pc[t] = "unlock"
    /\ readers' = readers \ {t}
    /\ Goto(t, "idle")
    /\ UNCHANGED <<pool, writer, consolidating, left, calls, conc>>

\* The checks under the shared lock, which is given up again.
Check(t) ==
    /\ pc[t] = "check" /\ writer = NoThread
    /\ Goto(t, IF conc THEN "try" ELSE "exclusive")
    /\ UNCHANGED <<pool, locks, left, calls, conc>>

LockExclusive(t) ==
    /\ pc[t] = "exclusive" /\ writer = NoThread /\ readers = {}
    /\ writer' = t
    /\ Goto(t, "try")
    /\ UNCHANGED <<pool, readers, consolidating, left, calls, conc>>

\* try_lock fails: the call returns.
TryFail(t) ==
    /\ pc[t] = "try" /\ consolidating # NoThread
    /\ writer' = IF writer = t THEN NoThread ELSE writer
    /\ Goto(t, "idle")
    /\ UNCHANGED <<pool, readers, consolidating, left, calls, conc>>

\* Faulty variant: _update_lock is given up before the loop.
TrySucceedUnlocked(t) ==
    /\ pc[t] = "try" /\ consolidating = NoThread
    /\ consolidating' = t
    /\ writer' = IF writer = t THEN NoThread ELSE writer
    /\ left' \in 0 .. Locations
    /\ Goto(t, "loop")
    /\ UNCHANGED <<pool, readers, calls, conc>>

\* The parallel loop begins.
TrySucceed(t) ==
    /\ pc[t] = "try" /\ consolidating = NoThread
    /\ consolidating' = t
    /\ left' \in 0 .. Locations
    /\ Goto(t, "loop")
    /\ UNCHANGED <<pool, readers, writer, calls, conc>>

\* A thread of the team is given its next location.
NextLocation(w) ==
    /\ w \in Team /\ pc[w] = "idle" /\ left > 0
    /\ left' = left - 1
    /\ Goto(w, "pop")
    /\ UNCHANGED <<pool, locks, calls, conc>>

\* The loop ends when every thread of the team is done; then a frozen point.
LoopEnd(t) ==
    /\ pc[t] = "loop" /\ left = 0
    /\ \A w \in Team : pc[w] = "idle"
    /\ Goto(t, "pop")
    /\ UNCHANGED <<pool, locks, left, calls, conc>>

\* release_locations; _update_lock is given up before _consolidate_lock.
Release(t) ==
    /\ pc[t] = "release"
    /\ writer' = IF writer = t THEN NoThread ELSE writer
    /\ Goto(t, "finish")
    /\ UNCHANGED <<pool, readers, consolidating, left, calls, conc>>

Finish(t) ==
    /\ pc[t] = "finish"
    /\ consolidating' = NoThread
    /\ Goto(t, "idle")
    /\ UNCHANGED <<pool, readers, writer, left, calls, conc>>

-----------------------------------------------------------------------------
\* What a thread does by itself once its call has begun.
Step(t) ==
    \/ Pop(t) \/ PopNull(t) \/ Wait(t) \/ TimeOut(t) \/ Return(t) \/ Notify(t)
    \/ LockShared(t) \/ Work(t) \/ Unlock(t)
    \/ Check(t) \/ LockExclusive(t) \/ TryFail(t) \/ TrySucceed(t)
    \/ NextLocation(t) \/ LoopEnd(t) \/ Release(t) \/ Finish(t)

Next == \E t \in Threads : Begin(t) \/ Step(t)

Spec == Init /\ [][Next]_vars

\* A thread that can run does, but a lock may keep readers back while another
\* thread waits to have it exclusively.
PromisedStep(t) ==
    /\ pc[t] \in {"shared", "check"} => \A u \in Consolidators : pc[u] # "exclusive"
    /\ Step(t)

FairSpec == Spec /\ \A t \in Threads : WF_vars(PromisedStep(t))

-----------------------------------------------------------------------------
\* Every variable has the type the code declares for it.
TypeOK ==
    /\ query_scratch \in Seq(Scratches)
    /\ dirty \subseteq Scratches
    /\ scratch \in [Threads -> Scratches \cup {NoScratch}]
    /\ pc \in [Threads -> Steps]
    /\ readers \subseteq Threads
    /\ writer \in Consolidators \cup {NoThread}
    /\ consolidating \in Consolidators \cup {NoThread}
    /\ left \in 0 .. Locations
    /\ calls \in [Callers -> 0 .. Calls]
    /\ conc \in BOOLEAN

\* No space is lost, in the queue twice, with two threads, or in the queue and
\* with a thread; the ones in the queue hold nothing of an earlier call.
ScratchExclusive ==
    /\ Available \cup Held = Scratches
    /\ Available \cap Held = {}
    /\ Distinct(query_scratch)
    /\ \A t, u \in Threads : scratch[t] = scratch[u] /\ scratch[t] # NoScratch => t = u
    /\ Available \cap dirty = {}

\* Without concurrent consolidation no thread of the loop edits a list while a
\* search or an insertion works on the graph.
ConsolidationAlone ==
    ~conc => \A w \in Team \cup Consolidators, t \in Searchers \cup Inserters :
                ~(pc[w] = "work" /\ pc[t] = "work")

\* Every call that begins returns.
EveryCallReturns == \A t \in Callers : (pc[t] # "idle") ~> (pc[t] = "idle")

\* It does whenever consolidations are concurrent, and otherwise when there are
\* more spaces than threads that search.
CallsReturn ==
    (conc \/ Cardinality(Searchers) < Cardinality(Scratches)) => EveryCallReturns
=============================================================================
