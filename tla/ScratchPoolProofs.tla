------------------------- MODULE ScratchPoolProofs -------------------------
(***************************************************************************)
(* For any threads, any spaces and both modes: types are right, a space    *)
(* has one owner, and a consolidation that is not concurrent is alone.     *)
(***************************************************************************)
EXTENDS ScratchPool, FiniteSetTheorems, TLAPS

\* The steps each kind of thread takes.
Waiting == {"pop", "empty", "waiting"}
Visit == Waiting \cup {"idle", "work", "return", "notify"}
StepsOf(kind) ==
    CASE kind = "search" -> Visit \cup {"shared"}
      [] kind = "insert" -> Visit \cup {"shared", "unlock"}
      [] kind = "consolidate" -> Visit \cup {"check", "exclusive", "try", "loop", "release", "finish"}
      [] kind = "team" -> Visit
KindInv ==
    /\ \A t \in Searchers : pc[t] \in StepsOf("search")
    /\ \A t \in Inserters : pc[t] \in StepsOf("insert")
    /\ \A t \in Consolidators : pc[t] \in StepsOf("consolidate")
    /\ \A t \in Team : pc[t] \in StepsOf("team")

\* A thread has a space exactly from its pop to its return.
HasSpace(t) == pc[t] \in {"work", "return"} \/ (t \in Searchers /\ pc[t] = "shared")

PoolInv ==
    /\ TypeOK
    /\ ScratchExclusive
    /\ KindInv
    /\ \A t \in Threads : scratch[t] # NoScratch <=> HasSpace(t)

\* The steps of the holder of _consolidate_lock.
InLoop == Waiting \cup {"loop", "work", "return", "notify", "release", "finish"}
\* The steps at which a consolidation that is not concurrent has _update_lock.
Alone == Waiting \cup {"try", "loop", "work", "return", "notify", "release"}

LockInv ==
    /\ \A t \in Searchers : pc[t] = "work" => t \in readers
    /\ \A t \in Inserters : pc[t] \in Waiting \cup {"work", "return", "notify", "unlock"} => t \in readers
    /\ writer # NoThread => readers = {}
    /\ \A c \in Consolidators : pc[c] \in InLoop => consolidating = c
    /\ ~conc => \A c \in Consolidators : pc[c] \in Alone => writer = c
    /\ left > 0 \/ (\E w \in Team : pc[w] # "idle") =>
          consolidating # NoThread /\ pc[consolidating] = "loop"

-----------------------------------------------------------------------------
\* The queue after push: the same spaces and the one pushed, each once.
LEMMA AppendDistinct ==
    ASSUME NEW S, NEW s \in Seq(S), NEW e \in S, Distinct(s),
           \A i \in 1 .. Len(s) : s[i] # e
    PROVE  /\ Append(s, e) \in Seq(S)
           /\ Distinct(Append(s, e))
           /\ {Append(s, e)[i] : i \in 1 .. Len(Append(s, e))} = {s[i] : i \in 1 .. Len(s)} \cup {e}
<1> DEFINE q == Append(s, e)
<1>1. q \in Seq(S) /\ Len(q) = Len(s) + 1 /\ Len(s) \in Nat
  OBVIOUS
<1>2. \A i \in 1 .. Len(s) : q[i] = s[i]
  OBVIOUS
<1>3. q[Len(s) + 1] = e
  OBVIOUS
<1> HIDE DEF q
<1>4. Distinct(q)
  BY <1>1, <1>2, <1>3 DEF Distinct
<1>5. {q[i] : i \in 1 .. Len(q)} = {s[i] : i \in 1 .. Len(s)} \cup {e}
  BY <1>1, <1>2, <1>3
<1> QED
  BY <1>1, <1>4, <1>5 DEF q

\* The queue after pop: all spaces but the front, each once.
LEMMA TailDistinct ==
    ASSUME NEW S, NEW s \in Seq(S), s # <<>>, Distinct(s)
    PROVE  /\ Head(s) \in S
           /\ Tail(s) \in Seq(S)
           /\ Distinct(Tail(s))
           /\ {Tail(s)[i] : i \in 1 .. Len(Tail(s))} = {s[i] : i \in 1 .. Len(s)} \ {Head(s)}
           /\ Head(s) \in {s[i] : i \in 1 .. Len(s)}
<1> DEFINE q == Tail(s)
<1>1. Len(s) \in Nat \ {0} /\ Head(s) = s[1] /\ Head(s) \in S
  OBVIOUS
<1>2. q \in Seq(S) /\ Len(q) = Len(s) - 1
  OBVIOUS
<1>3. \A i \in 1 .. Len(q) : q[i] = s[i + 1]
  OBVIOUS
<1> HIDE DEF q
<1>4. Distinct(q)
  <2> SUFFICES ASSUME NEW i \in 1 .. Len(q), NEW j \in 1 .. Len(q), q[i] = q[j]
               PROVE  i = j
    BY DEF Distinct
  <2>1. i + 1 \in 1 .. Len(s) /\ j + 1 \in 1 .. Len(s) /\ s[i + 1] = s[j + 1]
    BY <1>1, <1>2, <1>3
  <2> QED
    BY <2>1 DEF Distinct
<1>5. ASSUME NEW i \in 1 .. Len(s), s[i] # s[1]
      PROVE  \E j \in 1 .. Len(q) : q[j] = s[i]
  <2>1. i - 1 \in 1 .. Len(q) /\ q[i - 1] = s[i]
    BY <1>1, <1>2, <1>3, <1>5
  <2> QED
    BY <2>1
<1>6. ASSUME NEW j \in 1 .. Len(q)
      PROVE  /\ j + 1 \in 1 .. Len(s)
             /\ q[j] = s[j + 1]
             /\ s[j + 1] # s[1]
  <2>1. j + 1 \in 1 .. Len(s) /\ 1 \in 1 .. Len(s) /\ j + 1 # 1
    BY <1>1, <1>2
  <2> QED
    BY <2>1, <1>3 DEF Distinct
<1>7. {q[j] : j \in 1 .. Len(q)} = {s[i] : i \in 1 .. Len(s)} \ {Head(s)}
  <2>1. ASSUME NEW x \in {q[j] : j \in 1 .. Len(q)}
        PROVE  x \in {s[i] : i \in 1 .. Len(s)} \ {Head(s)}
    BY <1>1, <1>6
  <2>2. ASSUME NEW x \in {s[i] : i \in 1 .. Len(s)} \ {Head(s)}
        PROVE  x \in {q[j] : j \in 1 .. Len(q)}
    BY <1>1, <1>5
  <2> QED
    BY <2>1, <2>2
<1>8. Head(s) \in {s[i] : i \in 1 .. Len(s)}
  BY <1>1
<1> QED
  BY <1>1, <1>2, <1>4, <1>7, <1>8 DEF q
-----------------------------------------------------------------------------
THEOREM PoolInit == Init => PoolInv
<1> SUFFICES ASSUME Init PROVE PoolInv
  OBVIOUS
<1> DEFINE n == Cardinality(Scratches)
<1>1. n \in Nat
  BY PoolAssumption, FS_CardinalityType
<1> HIDE DEF n
<1>2. query_scratch \in [1 .. n -> Scratches]
  BY DEF Init, n
<1>3. query_scratch \in Seq(Scratches)
  BY <1>1, <1>2
<1>4. TypeOK
  BY <1>3, PoolAssumption DEF Init, TypeOK, Steps, Callers
<1>5. ScratchExclusive
  BY PoolAssumption DEF Init, ScratchExclusive, Held
<1>6. KindInv
  BY DEF Init, KindInv, StepsOf, Visit, Waiting, Threads, Callers
<1>7. \A t \in Threads : scratch[t] # NoScratch <=> HasSpace(t)
  BY DEF Init, HasSpace, Threads, Callers
<1> QED
  BY <1>4, <1>5, <1>6, <1>7 DEF PoolInv

\* A step of one thread to another step of its kind, at which it has a space
\* or none as before, keeps what concerns the spaces.
LEMMA MoveKeepsPool ==
    ASSUME PoolInv, TypeOK', NEW t \in Threads, NEW step \in Steps,
           pc' = [pc EXCEPT ![t] = step],
           query_scratch' = query_scratch, scratch' = scratch, dirty' = dirty,
           t \in Searchers => step \in StepsOf("search"),
           t \in Inserters => step \in StepsOf("insert"),
           t \in Consolidators => step \in StepsOf("consolidate"),
           t \in Team => step \in StepsOf("team"),
           HasSpace(t) <=> (step \in {"work", "return"} \/ (t \in Searchers /\ step = "shared"))
    PROVE  PoolInv'
<1>1. ScratchExclusive'
  BY DEF PoolInv, ScratchExclusive, Available, Held, Distinct
<1>2. KindInv'
  BY DEF PoolInv, TypeOK, KindInv, Threads, Callers
<1>3. \A u \in Threads : (scratch[u] # NoScratch <=> HasSpace(u))'
  BY DEF PoolInv, TypeOK, HasSpace
<1> QED
  BY <1>1, <1>2, <1>3 DEF PoolInv

\* A space goes from the front of the queue to a thread that had none.
LEMMA PopKeepsPool == ASSUME PoolInv, NEW t \in Threads, Pop(t) PROVE PoolInv'
<1> DEFINE front == Head(query_scratch)
<1>1. /\ front \in Scratches
      /\ query_scratch' \in Seq(Scratches)
      /\ Distinct(query_scratch')
      /\ Available' = Available \ {front}
      /\ front \in Available
  <2>1. query_scratch \in Seq(Scratches) /\ query_scratch # <<>> /\ Distinct(query_scratch)
    BY DEF PoolInv, TypeOK, ScratchExclusive, Pop
  <2>2. query_scratch' = Tail(query_scratch)
    BY DEF Pop
  <2>3. /\ Head(query_scratch) \in Scratches
        /\ Tail(query_scratch) \in Seq(Scratches)
        /\ Distinct(Tail(query_scratch))
        /\ {Tail(query_scratch)[i] : i \in 1 .. Len(Tail(query_scratch))}
              = {query_scratch[i] : i \in 1 .. Len(query_scratch)} \ {Head(query_scratch)}
        /\ Head(query_scratch) \in {query_scratch[i] : i \in 1 .. Len(query_scratch)}
    BY <2>1, TailDistinct
  <2> QED
    BY <2>2, <2>3 DEF Available
<1>2. scratch' = [scratch EXCEPT ![t] = front] /\ scratch[t] = NoScratch
  BY DEF PoolInv, HasSpace, Pop
<1>3. pc' = [pc EXCEPT ![t] = IF t \in Searchers THEN "shared" ELSE "work"]
  BY DEF Pop, Goto
<1>4. TypeOK'
  BY <1>1, <1>2, <1>3 DEF Pop, PoolInv, TypeOK, Steps, locks
<1> HIDE DEF front
<1>5. Held' = Held \cup {front}
  BY <1>1, <1>2, PoolAssumption DEF Held, PoolInv, TypeOK
<1>6. ScratchExclusive'
  <2>1. (Available \cup Held = Scratches)' /\ (Available \cap Held = {})'
    BY <1>1, <1>5 DEF PoolInv, ScratchExclusive
  <2>2. (\A u, v \in Threads : scratch[u] = scratch[v] /\ scratch[u] # NoScratch => u = v)'
    BY <1>1, <1>2, PoolAssumption DEF PoolInv, TypeOK, ScratchExclusive, Held
  <2>3. (Available \cap dirty = {})'
    BY <1>1 DEF PoolInv, ScratchExclusive, Pop
  <2> QED
    BY <1>1, <2>1, <2>2, <2>3 DEF ScratchExclusive
<1>7. KindInv'
  BY <1>3, PoolAssumption DEF PoolInv, TypeOK, KindInv, StepsOf, Visit, Waiting, Threads, Callers
<1>8. \A u \in Threads : (scratch[u] # NoScratch <=> HasSpace(u))'
  BY <1>1, <1>2, <1>3, PoolAssumption DEF PoolInv, TypeOK, HasSpace
<1> QED
  BY <1>4, <1>6, <1>7, <1>8 DEF PoolInv

\* It goes back to the queue clear.
LEMMA ReturnKeepsPool == ASSUME PoolInv, NEW t \in Threads, Return(t) PROVE PoolInv'
<1> DEFINE s == scratch[t]
<1>1. s \in Scratches /\ s \in Held /\ s # NoScratch
  BY DEF PoolInv, TypeOK, HasSpace, Return, Held
<1>2. s \notin Available
  BY <1>1 DEF PoolInv, ScratchExclusive
<1>3. /\ query_scratch' \in Seq(Scratches)
      /\ Distinct(query_scratch')
      /\ Available' = Available \cup {s}
  <2>1. \A i \in 1 .. Len(query_scratch) : query_scratch[i] # s
    BY <1>2 DEF Available
  <2> QED
    BY <1>1, <2>1, AppendDistinct DEF PoolInv, TypeOK, ScratchExclusive, Return, Available
<1>4. scratch' = [scratch EXCEPT ![t] = NoScratch] /\ pc' = [pc EXCEPT ![t] = "notify"]
  BY DEF Return, Goto
<1>5. dirty' = dirty \ {s}
  BY DEF Return
<1>6. TypeOK'
  BY <1>3, <1>4, <1>5 DEF Return, PoolInv, TypeOK, Steps, locks
<1>7. Held' = Held \ {s}
  BY <1>1, <1>4 DEF Held, PoolInv, TypeOK, ScratchExclusive
<1> HIDE DEF s
<1>8. ScratchExclusive'
  <2>1. (Available \cup Held = Scratches)' /\ (Available \cap Held = {})'
    BY <1>1, <1>3, <1>7 DEF PoolInv, ScratchExclusive
  <2>2. (\A u, v \in Threads : scratch[u] = scratch[v] /\ scratch[u] # NoScratch => u = v)'
    BY <1>4 DEF PoolInv, TypeOK, ScratchExclusive
  <2>3. (Available \cap dirty = {})'
    BY <1>3, <1>5 DEF PoolInv, ScratchExclusive
  <2> QED
    BY <1>3, <2>1, <2>2, <2>3 DEF ScratchExclusive
<1>9. KindInv'
  BY <1>4, PoolAssumption DEF PoolInv, TypeOK, KindInv, StepsOf, Visit, Threads, Callers
<1>10. \A u \in Threads : (scratch[u] # NoScratch <=> HasSpace(u))'
  BY <1>4 DEF PoolInv, TypeOK, HasSpace
<1> QED
  BY <1>6, <1>8, <1>9, <1>10 DEF PoolInv

\* The space a thread works with is not in the queue.
LEMMA WorkKeepsPool == ASSUME PoolInv, NEW t \in Threads, Work(t) PROVE PoolInv'
<1>1. scratch[t] \in Scratches /\ scratch[t] \in Held
  BY DEF PoolInv, TypeOK, HasSpace, Work, Held
<1>2. pc' = [pc EXCEPT ![t] = "return"] /\ scratch' = scratch
  BY DEF Work, Goto
<1>3. TypeOK'
  BY <1>1, <1>2 DEF Work, PoolInv, TypeOK, Steps
<1>4. ScratchExclusive'
  <2>1. Available' = Available /\ Held' = Held /\ Distinct(query_scratch')
    BY <1>2 DEF PoolInv, ScratchExclusive, Work, Available, Held
  <2>2. (Available \cap dirty = {})'
    BY <1>1, <2>1 DEF PoolInv, ScratchExclusive, Work
  <2> QED
    BY <1>2, <2>1, <2>2 DEF PoolInv, ScratchExclusive
<1>5. KindInv'
  BY <1>2, PoolAssumption DEF PoolInv, TypeOK, KindInv, StepsOf, Visit, Threads, Callers
<1>6. \A u \in Threads : (scratch[u] # NoScratch <=> HasSpace(u))'
  BY <1>2 DEF Work, PoolInv, TypeOK, HasSpace
<1> QED
  BY <1>3, <1>4, <1>5, <1>6 DEF PoolInv

\* A notification moves waiting threads, which have no space.
LEMMA NotifyKeepsPool == ASSUME PoolInv, NEW t \in Threads, Notify(t) PROVE PoolInv'
<1>1. /\ pc' \in [Threads -> Steps]
      /\ pc'[t] = IF t \in Inserters THEN "unlock"
                  ELSE IF t \in Consolidators THEN "release" ELSE "idle"
      /\ \A u \in Threads \ {t} : pc'[u] = IF pc[u] = "waiting" THEN "pop" ELSE pc[u]
  BY DEF Notify, PoolInv, TypeOK, Steps
<1>2. UNCHANGED <<query_scratch, dirty, scratch, readers, writer, consolidating, left, calls, conc>>
  BY DEF Notify, pool, locks
<1>3. TypeOK'
  BY <1>1, <1>2 DEF PoolInv, TypeOK
<1>4. ScratchExclusive'
  BY <1>2 DEF PoolInv, ScratchExclusive, Available, Held, Distinct
<1>5. KindInv'
  BY <1>1, PoolAssumption DEF PoolInv, KindInv, StepsOf, Visit, Waiting, Threads, Callers
<1>6. \A u \in Threads : (scratch[u] # NoScratch <=> HasSpace(u))'
  BY <1>1, <1>2 DEF PoolInv, HasSpace, Notify
<1> QED
  BY <1>3, <1>4, <1>5, <1>6 DEF PoolInv

-----------------------------------------------------------------------------
\* The other steps go from one step of a thread's kind to another.
LEMMA CallKeepsPool ==
    ASSUME PoolInv, NEW t \in Threads,
           \/ Begin(t) \/ PopNull(t) \/ Wait(t) \/ TimeOut(t)
           \/ LockShared(t) \/ Unlock(t)
    PROVE  PoolInv'
<1> USE PoolAssumption DEF pool, locks, Goto
<1>1. CASE Begin(t)
  <2> DEFINE step == CASE t \in Searchers -> "pop"
                       [] t \in Inserters -> "shared"
                       [] t \in Consolidators -> "check"
  <2>1. /\ step \in Steps
        /\ t \notin Team
        /\ t \in Searchers => step \in StepsOf("search") /\ step # "shared"
        /\ t \in Inserters => step \in StepsOf("insert")
        /\ t \in Consolidators => step \in StepsOf("consolidate")
        /\ step \notin {"work", "return"} /\ ~HasSpace(t)
    BY <1>1 DEF Begin, Callers, Steps, StepsOf, Visit, Waiting, HasSpace
  <2>2. TypeOK'
    <3>1. calls' \in [Callers -> 0 .. Calls]
      BY <1>1 DEF Begin, PoolInv, TypeOK
    <3> QED
      BY <1>1, <2>1, <3>1 DEF Begin, PoolInv, TypeOK
  <2> HIDE DEF step
  <2>3. pc' = [pc EXCEPT ![t] = step]
    BY <1>1 DEF Begin, step
  <2> QED
    BY <1>1, <2>1, <2>2, <2>3, MoveKeepsPool DEF Begin
<1>2. CASE PopNull(t)
  <2>1. TypeOK'
    BY <1>2 DEF PopNull, PoolInv, TypeOK, Steps
  <2> QED
    BY <1>2, <2>1, MoveKeepsPool DEF PopNull, HasSpace, Steps, StepsOf, Visit, Waiting
<1>3. CASE Wait(t)
  <2>1. TypeOK'
    BY <1>3 DEF Wait, PoolInv, TypeOK, Steps
  <2> QED
    BY <1>3, <2>1, MoveKeepsPool DEF Wait, HasSpace, Steps, StepsOf, Visit, Waiting
<1>4. CASE TimeOut(t)
  <2>1. TypeOK'
    BY <1>4 DEF TimeOut, PoolInv, TypeOK, Steps
  <2> QED
    BY <1>4, <2>1, MoveKeepsPool DEF TimeOut, HasSpace, Steps, StepsOf, Visit, Waiting
<1>5. CASE LockShared(t)
  <2>1. PICK step \in {"work", "pop", "unlock"} :
            /\ pc' = [pc EXCEPT ![t] = step]
            /\ \/ t \in Searchers /\ step = "work"
               \/ t \in Inserters /\ step # "work"
    BY <1>5 DEF LockShared
  <2>2. TypeOK'
    BY <1>5, <2>1 DEF LockShared, PoolInv, TypeOK, Steps
  <2> QED
    BY <1>5, <2>1, <2>2, MoveKeepsPool
       DEF LockShared, HasSpace, Steps, StepsOf, Visit, Waiting
<1>6. CASE Unlock(t)
  <2>1. TypeOK'
    BY <1>6 DEF Unlock, PoolInv, TypeOK, Steps
  <2> QED
    BY <1>6, <2>1, MoveKeepsPool DEF Unlock, HasSpace, Steps, StepsOf, Visit, Waiting
<1> QED
  BY <1>1, <1>2, <1>3, <1>4, <1>5, <1>6

LEMMA ConsolidateKeepsPool ==
    ASSUME PoolInv, NEW t \in Threads,
           \/ Check(t) \/ LockExclusive(t) \/ TryFail(t) \/ TrySucceed(t)
           \/ NextLocation(t) \/ LoopEnd(t) \/ Release(t) \/ Finish(t)
    PROVE  PoolInv'
<1> USE PoolAssumption DEF pool, locks, Goto
<1>0. /\ pc[t] \in {"check", "exclusive", "try", "loop", "release", "finish"} => t \in Consolidators
      /\ pc[t] = "idle" => ~HasSpace(t)
  BY DEF PoolInv, KindInv, StepsOf, Visit, Waiting, Threads, Callers, HasSpace
<1>1. CASE Check(t)
  <2>1. TypeOK'
    BY <1>1 DEF Check, PoolInv, TypeOK, Steps
  <2>2. PICK step \in {"try", "exclusive"} : pc' = [pc EXCEPT ![t] = step]
    BY <1>1 DEF Check
  <2> QED
    BY <1>0, <1>1, <2>1, <2>2, MoveKeepsPool DEF Check, HasSpace, Steps, StepsOf
<1>2. CASE LockExclusive(t)
  <2>1. TypeOK'
    BY <1>0, <1>2 DEF LockExclusive, PoolInv, TypeOK, Steps
  <2> QED
    BY <1>0, <1>2, <2>1, MoveKeepsPool DEF LockExclusive, HasSpace, Steps, StepsOf
<1>3. CASE TryFail(t)
  <2>1. TypeOK'
    BY <1>3 DEF TryFail, PoolInv, TypeOK, Steps
  <2> QED
    BY <1>0, <1>3, <2>1, MoveKeepsPool DEF TryFail, HasSpace, Steps, StepsOf, Visit
<1>4. CASE TrySucceed(t)
  <2>1. TypeOK'
    BY <1>0, <1>4 DEF TrySucceed, PoolInv, TypeOK, Steps
  <2> QED
    BY <1>0, <1>4, <2>1, MoveKeepsPool DEF TrySucceed, HasSpace, Steps, StepsOf
<1>5. CASE NextLocation(t)
  <2>1. TypeOK'
    BY <1>5 DEF NextLocation, PoolInv, TypeOK, Steps
  <2> QED
    BY <1>0, <1>5, <2>1, MoveKeepsPool
       DEF NextLocation, HasSpace, Steps, StepsOf, Visit, Waiting, Threads, Callers
<1>6. CASE LoopEnd(t)
  <2>1. TypeOK'
    BY <1>6 DEF LoopEnd, PoolInv, TypeOK, Steps
  <2> QED
    BY <1>0, <1>6, <2>1, MoveKeepsPool DEF LoopEnd, HasSpace, Steps, StepsOf, Visit, Waiting
<1>7. CASE Release(t)
  <2>1. TypeOK'
    BY <1>7 DEF Release, PoolInv, TypeOK, Steps
  <2> QED
    BY <1>0, <1>7, <2>1, MoveKeepsPool DEF Release, HasSpace, Steps, StepsOf
<1>8. CASE Finish(t)
  <2>1. TypeOK'
    BY <1>8 DEF Finish, PoolInv, TypeOK, Steps
  <2> QED
    BY <1>0, <1>8, <2>1, MoveKeepsPool DEF Finish, HasSpace, Steps, StepsOf, Visit
<1> QED
  BY <1>1, <1>2, <1>3, <1>4, <1>5, <1>6, <1>7, <1>8

THEOREM PoolNext == PoolInv /\ [Next]_vars => PoolInv'
<1> SUFFICES ASSUME PoolInv, [Next]_vars PROVE PoolInv'
  OBVIOUS
<1>1. CASE Next
  <2> PICK t \in Threads : Begin(t) \/ Step(t)
    BY <1>1 DEF Next
  <2> QED
    BY PopKeepsPool, ReturnKeepsPool, WorkKeepsPool, NotifyKeepsPool, CallKeepsPool,
       ConsolidateKeepsPool DEF Step
<1>2. CASE UNCHANGED vars
  <2>1. TypeOK'
    BY <1>2 DEF PoolInv, TypeOK, vars, pool, locks
  <2>2. ScratchExclusive'
    BY <1>2 DEF PoolInv, ScratchExclusive, Available, Held, Distinct, vars, pool
  <2>3. KindInv' /\ (\A t \in Threads : scratch[t] # NoScratch <=> HasSpace(t))'
    BY <1>2 DEF PoolInv, KindInv, HasSpace, vars, pool
  <2> QED
    BY <2>1, <2>2, <2>3 DEF PoolInv
<1> QED
  BY <1>1, <1>2

THEOREM PoolInvAlways == Spec => []PoolInv
<1> QED
  BY PoolInit, PoolNext, PTL DEF Spec

\* Types are right, whatever the number of threads and spaces.
THEOREM PoolTypeCorrect == Spec => []TypeOK
<1>1. PoolInv => TypeOK
  BY DEF PoolInv
<1> QED
  BY <1>1, PoolInvAlways, PTL

\* A space is in the queue, clear, or with one thread: ConcurrentQueue and
\* ScratchStoreManager never lose or share one.
THEOREM ScratchAlwaysExclusive == Spec => []ScratchExclusive
<1>1. PoolInv => ScratchExclusive
  BY DEF PoolInv
<1> QED
  BY <1>1, PoolInvAlways, PTL

-----------------------------------------------------------------------------
THEOREM LockInit == Init => LockInv
  BY DEF Init, LockInv, InLoop, Alone, Waiting, Threads, Callers

\* What the locks have to do with a step that takes or gives up none of them.
LEMMA MoveKeepsLocks ==
    ASSUME PoolInv, LockInv, NEW t \in Threads, NEW step \in Steps,
           pc' = [pc EXCEPT ![t] = step],
           readers' = readers, writer' = writer, consolidating' = consolidating,
           left' = left, conc' = conc,
           t \in Searchers /\ step = "work" => pc[t] = "work",
           t \in Inserters /\ step \in Waiting \cup {"work", "return", "notify", "unlock"} =>
               pc[t] \in Waiting \cup {"work", "return", "notify", "unlock"},
           t \in Consolidators /\ step \in InLoop => pc[t] \in InLoop,
           t \in Consolidators /\ step \in Alone /\ ~conc => pc[t] \in Alone,
           t \in Consolidators /\ pc[t] = "loop" => step = "loop" \/ (left = 0 /\ \A w \in Team : pc[w] = "idle"),
           t \in Team /\ step # "idle" => pc[t] # "idle"
    PROVE  LockInv'
<1> USE PoolAssumption DEF Threads, Callers
<1>0. pc \in [Threads -> Steps] /\ consolidating \in Consolidators \cup {NoThread}
  BY DEF PoolInv, TypeOK
<1>1. (\A u \in Searchers : pc[u] = "work" => u \in readers)'
  BY <1>0 DEF LockInv
<1>2. (\A u \in Inserters :
          pc[u] \in Waiting \cup {"work", "return", "notify", "unlock"} => u \in readers)'
  BY <1>0 DEF LockInv
<1>3. (writer # NoThread => readers = {})'
  BY DEF LockInv
<1>4. (\A c \in Consolidators : pc[c] \in InLoop => consolidating = c)'
  BY <1>0 DEF LockInv
<1>5. (~conc => \A c \in Consolidators : pc[c] \in Alone => writer = c)'
  BY <1>0 DEF LockInv
<1>6. (left > 0 \/ (\E w \in Team : pc[w] # "idle") =>
          consolidating # NoThread /\ pc[consolidating] = "loop")'
  <2>1. left \in Nat
    BY DEF PoolInv, TypeOK
  <2>2. ASSUME left > 0 \/ \E w \in Team : pc'[w] # "idle"
        PROVE  left > 0 \/ \E w \in Team : pc[w] # "idle"
    BY <1>0, <2>2
  <2>3. CASE left > 0 \/ \E w \in Team : pc[w] # "idle"
    BY <1>0, <2>1, <2>3 DEF LockInv
  <2> QED
    BY <2>2, <2>3
<1> QED
  BY <1>1, <1>2, <1>3, <1>4, <1>5, <1>6 DEF LockInv

LEMMA VisitKeepsLocks ==
    ASSUME PoolInv, LockInv, NEW t \in Threads,
           \/ Begin(t) \/ Pop(t) \/ PopNull(t) \/ Wait(t) \/ TimeOut(t) \/ Return(t)
           \/ Check(t) \/ LoopEnd(t)
    PROVE  LockInv'
<1> USE PoolAssumption DEF locks, Goto, Steps, Waiting, InLoop, Alone, Threads, Callers
<1>1. CASE Begin(t)
  <2> DEFINE step == CASE t \in Searchers -> "pop"
                       [] t \in Inserters -> "shared"
                       [] t \in Consolidators -> "check"
  <2>1. /\ step \in Steps
        /\ t \in Inserters => step = "shared"
        /\ t \in Consolidators => step = "check"
        /\ t \in Searchers => step = "pop"
        /\ t \notin Team /\ pc[t] = "idle"
    BY <1>1 DEF Begin
  <2>2. pc' = [pc EXCEPT ![t] = step]
    BY <1>1 DEF Begin
  <2> HIDE DEF step
  <2> QED
    BY <1>1, <2>1, <2>2, MoveKeepsLocks DEF Begin
<1>2. CASE Pop(t)
  <2>1. PICK step \in {"shared", "work"} :
            /\ pc' = [pc EXCEPT ![t] = step]
            /\ step = "shared" <=> t \in Searchers
    BY <1>2 DEF Pop
  <2> QED
    BY <1>2, <2>1, MoveKeepsLocks DEF Pop
<1>3. CASE PopNull(t)
  BY <1>3, MoveKeepsLocks DEF PopNull
<1>4. CASE Wait(t)
  BY <1>4, MoveKeepsLocks DEF Wait
<1>5. CASE TimeOut(t)
  BY <1>5, MoveKeepsLocks DEF TimeOut
<1>6. CASE Return(t)
  BY <1>6, MoveKeepsLocks DEF Return
<1>7. CASE Check(t)
  <2>1. t \in Consolidators
    BY <1>7 DEF Check, PoolInv, KindInv, StepsOf, Visit
  <2>2. PICK step \in {"try", "exclusive"} :
            pc' = [pc EXCEPT ![t] = step] /\ (step = "try" => conc)
    BY <1>7 DEF Check
  <2> QED
    BY <1>7, <2>1, <2>2, MoveKeepsLocks DEF Check
<1>8. CASE LoopEnd(t)
  BY <1>8, MoveKeepsLocks DEF LoopEnd, PoolInv, KindInv, StepsOf, Visit
<1> QED
  BY <1>1, <1>2, <1>3, <1>4, <1>5, <1>6, <1>7, <1>8

\* A thread woken by a notification was waiting and still is in its visit.
LEMMA NotifyKeepsLocks == ASSUME PoolInv, LockInv, NEW t \in Threads, Notify(t) PROVE LockInv'
<1> USE PoolAssumption DEF Waiting, InLoop, Alone, Threads, Callers
<1>1. /\ pc[t] = "notify"
      /\ pc'[t] = IF t \in Inserters THEN "unlock"
                  ELSE IF t \in Consolidators THEN "release" ELSE "idle"
      /\ \A u \in Threads \ {t} : pc'[u] = IF pc[u] = "waiting" THEN "pop" ELSE pc[u]
      /\ UNCHANGED <<readers, writer, consolidating, left, conc>>
  BY DEF Notify, locks
<1>2. (\A u \in Searchers : pc[u] = "work" => u \in readers)'
  BY <1>1 DEF LockInv
<1>3. (\A u \in Inserters :
          pc[u] \in Waiting \cup {"work", "return", "notify", "unlock"} => u \in readers)'
  BY <1>1 DEF LockInv
<1>4. (writer # NoThread => readers = {})'
  BY <1>1 DEF LockInv
<1>5. (\A c \in Consolidators : pc[c] \in InLoop => consolidating = c)'
  BY <1>1 DEF LockInv
<1>6. (~conc => \A c \in Consolidators : pc[c] \in Alone => writer = c)'
  BY <1>1 DEF LockInv
<1>7. (left > 0 \/ (\E w \in Team : pc[w] # "idle") =>
          consolidating # NoThread /\ pc[consolidating] = "loop")'
  <2>1. consolidating \in Consolidators \cup {NoThread}
    BY DEF PoolInv, TypeOK
  <2>2. (\E w \in Team : pc'[w] # "idle") => \E w \in Team : pc[w] # "idle"
    BY <1>1
  <2> QED
    BY <1>1, <2>1, <2>2 DEF LockInv
<1> QED
  BY <1>2, <1>3, <1>4, <1>5, <1>6, <1>7 DEF LockInv

\* The steps of searches and insertions that take or give up the shared lock.
LEMMA SharedKeepsLocks ==
    ASSUME PoolInv, LockInv, NEW t \in Threads, LockShared(t) \/ Work(t) \/ Unlock(t)
    PROVE  LockInv'
<1> USE PoolAssumption DEF Goto, Waiting, InLoop, Alone, Threads, Callers
<1>0. pc \in [Threads -> Steps] /\ consolidating \in Consolidators \cup {NoThread}
  BY DEF PoolInv, TypeOK
<1>1. CASE LockShared(t)
  <2>1. PICK step \in {"work", "pop", "unlock"} :
            /\ pc' = [pc EXCEPT ![t] = step]
            /\ \/ t \in Searchers /\ step = "work"
               \/ t \in Inserters /\ step # "work"
    BY <1>1 DEF LockShared
  <2> QED
    BY <1>0, <1>1, <2>1 DEF LockShared, LockInv
<1>2. CASE Work(t)
  <2>1. pc' = [pc EXCEPT ![t] = "return"]
    BY <1>2 DEF Work
  <2>2. readers' = IF t \in Searchers THEN readers \ {t} ELSE readers
    BY <1>2 DEF Work
  <2>3. UNCHANGED <<writer, consolidating, left, conc>> /\ pc[t] = "work"
    BY <1>2 DEF Work
  <2> QED
    BY <1>0, <2>1, <2>2, <2>3 DEF LockInv
<1>3. CASE Unlock(t)
  <2>1. t \in Inserters
    BY <1>3 DEF Unlock, PoolInv, KindInv, StepsOf, Visit
  <2> QED
    BY <1>0, <1>3, <2>1 DEF Unlock, LockInv
<1> QED
  BY <1>1, <1>2, <1>3

\* The steps of a consolidation that take or give up a lock, or hand out work.
LEMMA ConsolidateKeepsLocks ==
    ASSUME PoolInv, LockInv, NEW t \in Threads,
           \/ LockExclusive(t) \/ TryFail(t) \/ TrySucceed(t) \/ NextLocation(t)
           \/ Release(t) \/ Finish(t)
    PROVE  LockInv'
<1> USE PoolAssumption DEF locks, Goto, Waiting, InLoop, Alone, Threads, Callers
<1>0. /\ pc \in [Threads -> Steps] /\ consolidating \in Consolidators \cup {NoThread}
      /\ left \in Nat
      /\ pc[t] \in {"exclusive", "try", "release", "finish"} => t \in Consolidators
  BY DEF PoolInv, TypeOK, KindInv, StepsOf, Visit
<1>1. CASE LockExclusive(t)
  BY <1>0, <1>1 DEF LockExclusive, LockInv
<1>2. CASE TryFail(t)
  BY <1>0, <1>2 DEF TryFail, LockInv
<1>3. CASE TrySucceed(t)
  BY <1>0, <1>3 DEF TrySucceed, LockInv
<1>4. CASE NextLocation(t)
  BY <1>0, <1>4 DEF NextLocation, LockInv
<1>5. CASE Release(t)
  BY <1>0, <1>5 DEF Release, LockInv
<1>6. CASE Finish(t)
  BY <1>0, <1>6 DEF Finish, LockInv
<1> QED
  BY <1>1, <1>2, <1>3, <1>4, <1>5, <1>6

THEOREM LockNext == PoolInv /\ LockInv /\ [Next]_vars => LockInv'
<1> SUFFICES ASSUME PoolInv, LockInv, [Next]_vars PROVE LockInv'
  OBVIOUS
<1>1. CASE Next
  <2> PICK t \in Threads : Begin(t) \/ Step(t)
    BY <1>1 DEF Next
  <2> QED
    BY VisitKeepsLocks, NotifyKeepsLocks, SharedKeepsLocks, ConsolidateKeepsLocks DEF Step
<1>2. CASE UNCHANGED vars
  BY <1>2 DEF LockInv, vars, locks
<1> QED
  BY <1>1, <1>2

THEOREM LockInvAlways == Spec => [](PoolInv /\ LockInv)
<1> QED
  BY PoolInvAlways, LockInit, LockNext, PTL DEF Spec

\* The exclusive lock is held from before the loop until after the frozen
\* points, by the consolidation the team works for, and excludes readers.
THEOREM ConsolidationAlwaysAlone == Spec => []ConsolidationAlone
<1>1. PoolInv /\ LockInv => ConsolidationAlone
  <2> SUFFICES ASSUME PoolInv, LockInv, ~conc,
                      NEW w \in Team \cup Consolidators, NEW t \in Searchers \cup Inserters,
                      pc[w] = "work", pc[t] = "work"
               PROVE  FALSE
    BY DEF ConsolidationAlone
  <2>1. t \in readers
    BY DEF LockInv
  <2>2. writer # NoThread
    <3>1. PICK c \in Consolidators : pc[c] \in {"work", "loop"}
      BY DEF PoolInv, TypeOK, LockInv
    <3> QED
      BY <3>1, PoolAssumption DEF LockInv, Alone, Threads, Callers
  <2> QED
    BY <2>1, <2>2 DEF LockInv
<1> QED
  BY <1>1, LockInvAlways, PTL
=============================================================================
