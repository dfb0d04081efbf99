---------------------------- MODULE MutexProofs -----------------------------
(***************************************************************************)
(* Safety of a Mutex shared by any number of threads and tasks, without    *)
(* unlock_fair(): timeouts, needless polls, dropped futures and closures   *)
(* that panic are all allowed.                                             *)
(*                                                                         *)
(* What RawMutexProofs shows for threads does not carry over: a task is    *)
(* the owner while it still drops its node, is woken with a flag that is   *)
(* up already, and leaves its place in the queue by itself.  The invariant *)
(* is built from the same parts, with those cases added.                   *)
(***************************************************************************)
EXTENDS Mutex, RawMutexProofs

USE RawMutexAssumption, MutexAssumption
-----------------------------------------------------------------------------
(* The steps                                                               *)

ThreadOnly(t) ==
  /\ t \notin Tasks
  /\ \/ CallLock(t) \/ CallTryLockFor(t) \/ CallTryLock(t) \/ CallBump(t) \/ LockTry(t)
     \/ Woken(t) \/ RemoveNode(t) \/ TryLock(t) \/ ParkTimeout(t)

Anybody(t) ==
  \/ EnterPush(t) \/ SleepAcquire(t) \/ SleepMark(t) \/ SleepPush(t)
  \/ Unlock(t) \/ BumpUnlock(t) \/ PopEmpty(t) \/ PopTail(t) \/ TakeData(t)
  \/ Wake(t) \/ ClearWait(t)

TaskOnly(t) ==
  CallLockAsync(t) \/ PollTry(t) \/ PollRemove(t) \/ PollAgain(t) \/ Cancel(t)

Inner(t) == ThreadOnly(t) \/ Anybody(t) \/ TaskOnly(t)

\* One step of t, with what it does to the history variables.
MutexStep(t) ==
  \/ Inner(t) /\ Watch(t)
  \/ ClosureEnds(t) /\ UNCHANGED <<wasted, unwound>>
  \/ CallUnlocked(t) /\ UNCHANGED <<wasted, unwound>>
  \/ ClosurePanics(t) /\ unwound' = TRUE /\ UNCHANGED wasted

\* Nothing of a handover; a task is the owner while it removes its node.
NeverFair ==
  /\ "FAIR" \notin state
  /\ \A t \in Threads :
       /\ pc[t] \notin {"take_fair", "fair_pop", "fair_take", "hand_over", "fair_wake"}
       /\ goal[t] = "own" => t \in Tasks /\ pc[t] = "remove"

LEMMA MutexSteps ==
  ASSUME NoUnlockFair, NeverFair, [MutexNext]_mutexVars
  PROVE  (\E t \in Threads : MutexStep(t)) \/ UNCHANGED mutexVars
<1>1. ASSUME NEW t \in Threads, Duty(t) PROVE MutexStep(t)
  BY <1>1 DEF NoUnlockFair, NeverFair, Duty, ThreadStep, TaskStep, Step, Contend, Release,
     MutexStep, Inner, ThreadOnly, Anybody, TaskOnly, TakeFair, CallUnlockFair, FairEmpty,
     FairPop, HandOver, FairWake
<1>2. ASSUME NEW t \in Threads, Whim(t), Watch(t) PROVE MutexStep(t)
  BY <1>2 DEF NeverFair, Whim, CallThread, Call, MutexStep, Inner, ThreadOnly, TaskOnly,
     SleepPanic
<1> QED
  BY <1>1, <1>2 DEF MutexNext, MutexStep, MutexUndefined
-----------------------------------------------------------------------------
(* Types and the shape of the list                                         *)

MutexVarsOK ==
  /\ VarsOK
  /\ open \subseteq Threads \ Tasks
  /\ wasted \in BOOLEAN /\ unwound \in BOOLEAN

\* A task starts its poll with its last node still queued.
MutexShape ==
  /\ Lists(queue, OnList, Threads)
  /\ \A t \in Threads : on_list[t] => pc[t] \in {"park", "remove", "poll"}

\* The types of the variables of RawMutex.
LEMMA InnerTypes ==
  ASSUME VarsOK, MutexShape, NEW t \in Threads,
         Inner(t) \/ ClosureEnds(t) \/ CallUnlocked(t) \/ ClosurePanics(t)
  PROVE  VarsOK'
<1>h. queue # <<>> => Head(queue) \in Threads
  BY ListsTail DEF MutexShape
<1> USE DEF VarsOK, Locations, Bits, Goto
<1>1. CASE CallLock(t) \/ CallTryLockFor(t) \/ CallTryLock(t) \/ CallBump(t) \/ LockTry(t)
  BY <1>1 DEF CallLock, CallTryLockFor, CallTryLock, CallBump, LockTry
<1>2. CASE EnterPush(t) \/ SleepAcquire(t) \/ SleepMark(t) \/ SleepPush(t) \/ TryLock(t)
  BY <1>2 DEF EnterPush, SleepAcquire, SleepMark, SleepPush, TryLock
<1>3. CASE Unlock(t) \/ BumpUnlock(t) \/ CallUnlocked(t) \/ ClosurePanics(t)
  BY <1>3 DEF Unlock, BumpUnlock, CallUnlocked, ClosurePanics, ClearLocked
<1>4. CASE Woken(t) \/ ParkTimeout(t)
  BY <1>4 DEF Woken, ParkTimeout, LeaveFrame
<1>5. CASE RemoveNode(t)
  BY <1>5 DEF RemoveNode
<1>6. CASE PopEmpty(t)
  BY <1>6 DEF PopEmpty
<1>12. CASE ClearWait(t)
  BY <1>12 DEF ClearWait
<1>7. CASE PopTail(t)
  BY <1>7, <1>h DEF PopTail, TakeTail
<1>15. CASE TakeData(t)
  BY <1>15 DEF TakeData
<1>8. CASE Wake(t)
  BY <1>8 DEF Wake, UseWaker
<1>9. CASE CallLockAsync(t)
  BY <1>9 DEF CallLockAsync
<1>14. CASE PollAgain(t)
  BY <1>14 DEF PollAgain
<1>13. CASE ClosureEnds(t)
  BY <1>13 DEF ClosureEnds
<1>10. CASE PollTry(t) \/ Cancel(t)
  BY <1>10 DEF PollTry, Cancel, DropOldNode
<1>11. CASE PollRemove(t)
  BY <1>11 DEF PollRemove
<1> QED
  BY <1>1, <1>2, <1>3, <1>4, <1>5, <1>6, <1>7, <1>8, <1>9, <1>10, <1>11, <1>12, <1>13,
     <1>14, <1>15 DEF Inner, ThreadOnly, Anybody, TaskOnly

\* Every step preserves them.
LEMMA MutexTypes ==
  ASSUME MutexVarsOK, MutexShape, NEW t \in Threads, MutexStep(t)
  PROVE  MutexVarsOK'
<1>1. VarsOK'
  BY InnerTypes DEF MutexVarsOK, MutexStep
<1>2. open' \subseteq Threads \ Tasks
  BY DEF MutexVarsOK, MutexStep, Watch, ClosureEnds, CallUnlocked, ClosurePanics
<1>3. wasted' \in BOOLEAN /\ unwound' \in BOOLEAN
  BY DEF MutexVarsOK, MutexStep, Watch
<1> QED
  BY <1>1, <1>2, <1>3 DEF MutexVarsOK

\* A step that leaves the list alone.
LEMMA MutexShapeFrame ==
  ASSUME MutexShape, NEW t \in Threads, UNCHANGED <<queue, on_list>>,
         \A u \in Threads \ {t} : pc'[u] = pc[u],
         on_list[t] => pc'[t] \in {"park", "remove", "poll"}
  PROVE  MutexShape'
BY DEF MutexShape, OnList

LEMMA MutexShapeStep ==
  ASSUME VarsOK, MutexShape, NeverFair, NEW t \in Threads,
         Inner(t) \/ ClosureEnds(t) \/ CallUnlocked(t) \/ ClosurePanics(t)
  PROVE  MutexShape'
<1>0. pc[t] \notin {"park", "remove", "poll"} => ~on_list[t]
  BY DEF MutexShape
<1> USE DEF VarsOK, Goto
<1>1. CASE ThreadOnly(t) /\ ~RemoveNode(t)
  <2>1. /\ UNCHANGED <<queue, on_list>>
        /\ \A u \in Threads \ {t} : pc'[u] = pc[u]
    BY <1>1 DEF ThreadOnly, CallLock, CallTryLockFor, CallTryLock, CallBump, LockTry, Woken,
       ParkTimeout, LeaveFrame, TryLock
  <2>2. on_list[t] => pc'[t] = "remove"
    BY <1>0, <1>1 DEF ThreadOnly, CallLock, CallTryLockFor, CallTryLock, CallBump, LockTry,
       Woken, ParkTimeout, LeaveFrame, TryLock, NeverFair
  <2> QED
    BY <2>1, <2>2, MutexShapeFrame
<1>2. CASE \/ EnterPush(t) \/ SleepAcquire(t) \/ SleepMark(t) \/ PopEmpty(t)
           \/ Unlock(t) \/ BumpUnlock(t) \/ TakeData(t) \/ Wake(t) \/ ClearWait(t)
           \/ ClosureEnds(t) \/ CallUnlocked(t) \/ ClosurePanics(t)
  <2>1. /\ UNCHANGED <<queue, on_list>> /\ ~on_list[t]
        /\ \A u \in Threads \ {t} : pc'[u] = pc[u]
    BY <1>0, <1>2 DEF EnterPush, SleepAcquire, SleepMark, PopEmpty, Unlock, BumpUnlock,
       TakeData, Taking, Wake, ClearWait, ClosureEnds, CallUnlocked, ClosurePanics,
       ClearLocked
  <2> QED
    BY <2>1, MutexShapeFrame
<1>3. CASE CallLockAsync(t) \/ PollTry(t) \/ PollAgain(t) \/ Cancel(t)
  <2>1. /\ UNCHANGED <<queue, on_list>>
        /\ \A u \in Threads \ {t} : pc'[u] = pc[u]
        /\ on_list[t] => pc'[t] \in {"remove", "poll"}
    BY <1>0, <1>3 DEF CallLockAsync, PollTry, PollAgain, Cancel, DropOldNode
  <2> QED
    BY <2>1, MutexShapeFrame
<1>4. CASE SleepPush(t)
  <2>1. t \notin OnList
    BY <1>0, <1>4 DEF SleepPush, OnList
  <2>2. Lists(queue', OnList \cup {t}, Threads)
    BY <2>1, <1>4, ListsAppend DEF SleepPush, MutexShape
  <2>3. OnList' = OnList \cup {t}
    BY <1>4 DEF SleepPush, OnList
  <2> QED
    BY <1>4, <2>2, <2>3 DEF SleepPush, MutexShape
<1>5. CASE RemoveNode(t) \/ PollRemove(t)
  <2>1. /\ queue' = (IF on_list[t] THEN Unlink(queue, t) ELSE queue)
        /\ on_list' = [on_list EXCEPT ![t] = FALSE]
        /\ \A u \in Threads \ {t} : pc'[u] = pc[u]
    BY <1>5 DEF RemoveNode, PollRemove
  <2>2. OnList' = OnList \ {t}
    BY <2>1 DEF OnList
  <2>3. Lists(queue', OnList \ {t}, Threads)
    <3>1. CASE on_list[t]
      <4>1. t \in OnList
        BY <3>1 DEF OnList
      <4> QED
        BY <2>1, <3>1, <4>1, ListsUnlink DEF MutexShape
    <3>2. CASE ~on_list[t]
      <4>1. OnList \ {t} = OnList
        BY <3>2 DEF OnList
      <4> QED
        BY <2>1, <3>2, <4>1 DEF MutexShape
    <3> QED
      BY <3>1, <3>2
  <2> QED
    BY <2>1, <2>2, <2>3 DEF MutexShape
<1>6. CASE PopTail(t)
  <2>1. /\ Head(queue) \in Threads
        /\ Lists(Tail(queue), OnList \ {Head(queue)}, Threads)
    BY <1>6, ListsTail DEF MutexShape, PopTail, TakeTail
  <2>2. OnList' = OnList \ {Head(queue)}
    BY <1>6, <2>1 DEF PopTail, TakeTail, OnList
  <2>3. /\ \A u \in Threads \ {t} : pc'[u] = pc[u]
        /\ \A u \in Threads : on_list'[u] => on_list[u] /\ u # t
    BY <1>0, <1>6, <2>1 DEF PopTail, TakeTail
  <2> QED
    BY <1>6, <2>1, <2>2, <2>3 DEF PopTail, TakeTail, MutexShape
<1> QED
  BY <1>1, <1>2, <1>3, <1>4, <1>5, <1>6 DEF Inner, ThreadOnly, Anybody, TaskOnly
-----------------------------------------------------------------------------
(* The owner                                                               *)

\* Where a thread or a task is the owner.
Inside(t) == pc[t] \in Holding \/ (pc[t] = "remove" /\ goal[t] = "own")

\* The LOCKED bit and the guards go together until a closure panics.
OneGuard ==
  ~unwound =>
    /\ "LOCKED" \in state <=> \E t \in Threads : Inside(t)
    /\ \A t, u \in Threads : Inside(t) /\ Inside(u) => t = u

\* A task is in no call but lock_async, which may give up.
TasksTimed ==
  /\ \A t \in Tasks : pc[t] \notin {"try", "bump"} /\ (pc[t] # "idle" => timed[t])
  /\ \A t \in Threads : pc[t] = "poll" => t \in Tasks

Core == NeverFair /\ OneGuard /\ ListLocked /\ BumpUntimed /\ TasksTimed

\* Whoever works under the list lock holds it; tasks do what threads do.
LEMMA MutexListLockStep ==
  ASSUME VarsOK, ListLocked, NEW t \in Threads,
         Inner(t) \/ ClosureEnds(t) \/ CallUnlocked(t) \/ ClosurePanics(t)
  PROVE  ListLocked'
<1> USE DEF UnderListLock, Goto, VarsOK
<1>1. CASE CallLock(t) \/ CallTryLockFor(t) \/ CallTryLock(t) \/ CallBump(t)
             \/ LockTry(t) \/ SleepMark(t) \/ TryLock(t)
  <2>1. /\ UNCHANGED list_lock /\ \A u \in Threads \ {t} : pc'[u] = pc[u]
        /\ pc'[t] \in UnderListLock <=> pc[t] \in UnderListLock
    BY <1>1 DEF CallLock, CallTryLockFor, CallTryLock, CallBump, LockTry, SleepMark, TryLock
  <2> QED
    BY <2>1, ListLockFrame
<1>2. ASSUME NEW l \in {"idle", "lock"}, pc[t] \in {"idle", "own", "bump"}, ClearLocked(t, l)
      PROVE  ListLocked'
  <2>1. /\ UNCHANGED list_lock /\ \A u \in Threads \ {t} : pc'[u] = pc[u]
        /\ pc'[t] \in UnderListLock <=> pc[t] \in UnderListLock
    BY <1>2 DEF ClearLocked
  <2> QED
    BY <2>1, ListLockFrame
<1>3. CASE Unlock(t) \/ BumpUnlock(t) \/ CallUnlocked(t) \/ ClosurePanics(t)
  BY <1>3, <1>2 DEF Unlock, BumpUnlock, CallUnlocked, ClosurePanics
<1>4. CASE Woken(t) \/ ParkTimeout(t) \/ RemoveNode(t) \/ PopEmpty(t) \/ TakeData(t)
             \/ Wake(t)
  <2>1. /\ UNCHANGED list_lock /\ \A u \in Threads \ {t} : pc'[u] = pc[u]
        /\ pc'[t] \in UnderListLock <=> pc[t] \in UnderListLock
    BY <1>4 DEF Woken, ParkTimeout, RemoveNode, LeaveFrame, PopEmpty, TakeData,
         Taking, Wake
  <2> QED
    BY <2>1, ListLockFrame
<1>5. CASE TaskOnly(t) \/ ClosureEnds(t)
  <2>1. /\ UNCHANGED list_lock /\ \A u \in Threads \ {t} : pc'[u] = pc[u]
        /\ pc'[t] \in UnderListLock <=> pc[t] \in UnderListLock
    BY <1>5 DEF TaskOnly, CallLockAsync, PollTry, PollRemove, PollAgain, Cancel, DropOldNode,
         ClosureEnds
  <2> QED
    BY <2>1, ListLockFrame
<1>6. CASE EnterPush(t) \/ PopTail(t)
  <2>1. /\ list_lock = Null /\ list_lock' = t
        /\ \A u \in Threads \ {t} : pc'[u] = pc[u]
        /\ pc'[t] \in UnderListLock
    BY <1>6 DEF EnterPush, PopTail, TakeTail
  <2> QED
    BY <2>1 DEF ListLocked
<1>7. CASE SleepAcquire(t) \/ SleepPush(t) \/ ClearWait(t)
  <2>1. /\ pc[t] \in UnderListLock /\ list_lock' = Null
        /\ \A u \in Threads \ {t} : pc'[u] = pc[u]
        /\ pc'[t] \notin UnderListLock
    BY <1>7 DEF SleepAcquire, SleepPush, ClearWait
  <2> QED
    BY <2>1 DEF ListLocked
<1> QED
  BY <1>1, <1>3, <1>4, <1>5, <1>6, <1>7 DEF Inner, ThreadOnly, Anybody

\* Every step preserves these parts.
LEMMA CoreStep ==
  ASSUME MutexVarsOK, Core, NEW t \in Threads, Inner(t), Watch(t)
  PROVE  Core'
<1> USE DEF Core, NeverFair, OneGuard, Inside, Holding, BumpUntimed, TasksTimed,
            Goto, MutexVarsOK, VarsOK
<1>w. unwound' = unwound
  BY DEF Watch
<1>l. ListLocked'
  BY MutexListLockStep
<1>1. CASE CallLock(t) /\ t \notin Tasks
  BY <1>w, <1>l, <1>1 DEF CallLock
<1>2. CASE CallTryLockFor(t) /\ t \notin Tasks
  BY <1>w, <1>l, <1>2 DEF CallTryLockFor
<1>3. CASE CallTryLock(t) /\ t \notin Tasks
  BY <1>w, <1>l, <1>3 DEF CallTryLock
<1>4. CASE CallBump(t) /\ t \notin Tasks
  BY <1>w, <1>l, <1>4 DEF CallBump
<1>5. CASE LockTry(t) /\ t \notin Tasks
  BY <1>w, <1>l, <1>5 DEF LockTry
<1>6. CASE EnterPush(t)
  BY <1>w, <1>l, <1>6 DEF EnterPush
<1>7. CASE SleepAcquire(t)
  BY <1>w, <1>l, <1>7 DEF SleepAcquire
<1>8. CASE SleepMark(t)
  BY <1>w, <1>l, <1>8 DEF SleepMark
<1>9. CASE SleepPush(t)
  BY <1>w, <1>l, <1>9 DEF SleepPush
<1>10. CASE Woken(t) /\ t \notin Tasks
  BY <1>w, <1>l, <1>10 DEF Woken, LeaveFrame
<1>11. CASE RemoveNode(t) /\ t \notin Tasks
  BY <1>w, <1>l, <1>11 DEF RemoveNode
<1>12. CASE TryLock(t) /\ t \notin Tasks
  BY <1>w, <1>l, <1>12 DEF TryLock
<1>13. CASE ParkTimeout(t) /\ t \notin Tasks
  BY <1>w, <1>l, <1>13 DEF ParkTimeout, LeaveFrame
<1>14. CASE Unlock(t)
  BY <1>w, <1>l, <1>14 DEF Unlock, ClearLocked
<1>15. CASE BumpUnlock(t)
  BY <1>w, <1>l, <1>15 DEF BumpUnlock, ClearLocked
<1>16. CASE PopEmpty(t)
  BY <1>w, <1>l, <1>16 DEF PopEmpty
<1>17. CASE PopTail(t)
  BY <1>w, <1>l, <1>17 DEF PopTail, TakeTail
<1>25. CASE TakeData(t)
  BY <1>w, <1>l, <1>25 DEF TakeData, Taking
<1>18. CASE Wake(t)
  BY <1>w, <1>l, <1>18 DEF Wake, UseWaker
<1>19. CASE ClearWait(t)
  BY <1>w, <1>l, <1>19 DEF ClearWait
<1>20. CASE CallLockAsync(t)
  BY <1>w, <1>l, <1>20 DEF CallLockAsync
<1>21. CASE PollTry(t)
  BY <1>w, <1>l, <1>21 DEF PollTry, DropOldNode
<1>22. CASE PollRemove(t)
  BY <1>w, <1>l, <1>22 DEF PollRemove
<1>23. CASE PollAgain(t)
  BY <1>w, <1>l, <1>23 DEF PollAgain
<1>24. CASE Cancel(t)
  BY <1>w, <1>l, <1>24 DEF Cancel, DropOldNode
<1> QED
  BY <1>1, <1>2, <1>3, <1>4, <1>5, <1>6, <1>7, <1>8, <1>9, <1>10, <1>11, <1>12,
     <1>13, <1>14, <1>15, <1>16, <1>17, <1>18, <1>19, <1>20, <1>21, <1>22, <1>23, <1>24,
     <1>25
  DEF Inner, ThreadOnly, Anybody, TaskOnly

LEMMA CoreClosure ==
  ASSUME MutexVarsOK, Core, NEW t \in Threads,
         \/ ClosureEnds(t) /\ UNCHANGED <<wasted, unwound>>
         \/ CallUnlocked(t) /\ UNCHANGED <<wasted, unwound>>
         \/ ClosurePanics(t) /\ unwound' = TRUE
  PROVE  Core'
<1> USE DEF Core, NeverFair, OneGuard, Inside, Holding, BumpUntimed, TasksTimed,
            Goto, MutexVarsOK, VarsOK
<1>l. ListLocked'
  BY MutexListLockStep
<1>1. CASE ClosureEnds(t) /\ UNCHANGED <<wasted, unwound>>
  BY <1>l, <1>1 DEF ClosureEnds
<1>2. CASE CallUnlocked(t) /\ UNCHANGED <<wasted, unwound>>
  BY <1>l, <1>2 DEF CallUnlocked, ClearLocked
<1>3. CASE ClosurePanics(t) /\ unwound' = TRUE
  BY <1>l, <1>3 DEF ClosurePanics, ClearLocked
<1> QED
  BY <1>1, <1>2, <1>3
-----------------------------------------------------------------------------
(* The WAIT bit                                                            *)

\* It covers whoever is queued, as in RawMutexProofs.
LEMMA MutexWaitStep ==
  ASSUME VarsOK, MutexShape, NeverFair, ListLocked, WaitBitCovers, NEW t \in Threads,
         Inner(t) \/ ClosureEnds(t) \/ CallUnlocked(t) \/ ClosurePanics(t)
  PROVE  WaitBitCovers'
<1> USE DEF WaitBitCovers, Taking
<1>1. ASSUME "WAIT" \in state => "WAIT" \in state',
             queue' # <<>> => queue # <<>> \/ "WAIT" \in state,
             \A u \in Threads \ {t} : pc'[u] = pc[u],
             pc'[t] \notin Taking \cup {"wake", "hand_over"}
      PROVE  WaitBitCovers'
  BY <1>1
<1> USE DEF Goto, VarsOK
<1>2. CASE CallLock(t) \/ CallTryLockFor(t) \/ CallTryLock(t) \/ CallBump(t)
             \/ LockTry(t) \/ EnterPush(t) \/ SleepAcquire(t) \/ SleepMark(t)
  BY <1>2, <1>1 DEF CallLock, CallTryLockFor, CallTryLock, CallBump, LockTry,
       EnterPush, SleepAcquire, SleepMark
<1>3. CASE Woken(t) \/ ParkTimeout(t) \/ TryLock(t) \/ SleepPush(t)
  BY <1>3, <1>1 DEF Woken, ParkTimeout, LeaveFrame, TryLock, SleepPush
<1>4. CASE \/ Unlock(t) \/ BumpUnlock(t) \/ CallUnlocked(t) \/ ClosurePanics(t)
           \/ PopEmpty(t) \/ Wake(t)
  BY <1>4, <1>1 DEF Unlock, BumpUnlock, CallUnlocked, ClosurePanics, ClearLocked,
       PopEmpty, Wake, NeverFair
<1>5. CASE RemoveNode(t) \/ PollRemove(t)
  <2>1. on_list[t] => queue # <<>>
    BY DEF MutexShape, Lists, OnList
  <2> QED
    BY <2>1, <1>5, <1>1 DEF RemoveNode, PollRemove
<1>6. CASE PopTail(t) \/ TakeData(t)
  BY <1>6 DEF PopTail, TakeTail, TakeData
<1>7. CASE CallLockAsync(t) \/ PollTry(t) \/ PollAgain(t) \/ Cancel(t) \/ ClosureEnds(t)
  BY <1>7, <1>1 DEF CallLockAsync, PollTry, PollAgain, Cancel, DropOldNode, ClosureEnds
<1>8. CASE ClearWait(t)
  <2>1. \A u \in Threads \ {t} : pc[u] \notin Taking \cup {"wake", "hand_over"}
    BY <1>8 DEF ClearWait, ListLocked, UnderListLock, NeverFair
  <2>2. /\ \A u \in Threads \ {t} : pc'[u] = pc[u]
        /\ pc'[t] \notin Taking \cup {"wake", "hand_over"}
        /\ queue' = queue
    BY <1>8 DEF ClearWait, NeverFair
  <2> QED
    BY <2>1, <2>2, <1>8 DEF ClearWait
<1> QED
  BY <1>2, <1>3, <1>4, <1>5, <1>6, <1>7, <1>8 DEF Inner, ThreadOnly, Anybody, TaskOnly
-----------------------------------------------------------------------------
(* Wakeups                                                                 *)

\* While no popped waiter has gone away: nobody points to a Parker that is
\* gone, the flag of a thread is up only when it has been popped, and who pops
\* a node and uses its Waker finds a thread asleep with its flag down, or a task
\* that has come by itself and not queued again: it would need the list lock.
WakeReaches ==
  ~wasted =>
    /\ stale = {}
    /\ \A u \in Threads \ Tasks : flag[u] => pc[u] \in {"park", "remove"} /\ ~on_list[u]
    /\ \A t \in Threads : pc[t] \in {"take", "wake"} =>
         /\ target[t] \in Threads /\ ~on_list[target[t]]
         /\ \/ /\ target[t] \in Tasks
               /\ pc[target[t]] \in {"park", "remove", "lock", "poll", "push", "own", "pop"}
            \/ /\ target[t] \notin Tasks
               /\ pc[target[t]] \in {"park", "remove"} /\ ~flag[target[t]]

LEMMA WakeReachesStep ==
  ASSUME MutexVarsOK, MutexShape, Core, WaitBitCovers, WakeReaches,
         NEW t \in Threads, Inner(t), Watch(t)
  PROVE  WakeReaches'
<1> SUFFICES ASSUME ~wasted' PROVE WakeReaches'
  BY DEF WakeReaches
<1>w. ~wasted /\ ~Waste(t)
  BY DEF Watch, MutexVarsOK
<1> USE DEF MutexVarsOK, VarsOK, Goto
<1>l. /\ \A u \in Threads : pc[u] \in {"take", "wake"} => list_lock = u /\ "WAIT" \in state
      /\ \A u \in Threads : pc[u] \in {"take", "wake"} => list_lock # Null
  BY DEF Core, ListLocked, UnderListLock, WaitBitCovers, Taking
\* A step that neither pops nor wakes, and leaves the others alone.
<1>f. ASSUME UNCHANGED <<stale, target, on_list>>,
             \A u \in Threads \ {t} : pc'[u] = pc[u] /\ flag'[u] = flag[u],
             pc'[t] \notin {"take", "wake"},
             t \notin Tasks => ~flag'[t],
             \A u \in Threads : pc[u] \in {"take", "wake"} /\ target[u] = t =>
               /\ t \in Tasks
               /\ pc'[t] \in {"park", "remove", "lock", "poll", "push", "own", "pop"}
      PROVE  WakeReaches'
  BY <1>w, <1>f DEF WakeReaches
<1>1. CASE t \notin Tasks /\ (CallLock(t) \/ CallTryLockFor(t) \/ CallTryLock(t)
             \/ CallBump(t) \/ LockTry(t) \/ TryLock(t))
  BY <1>1, <1>f, <1>w DEF CallLock, CallTryLockFor, CallTryLock, CallBump, LockTry, TryLock,
     WakeReaches
<1>2. CASE EnterPush(t) \/ SleepAcquire(t) \/ SleepMark(t)
  BY <1>2, <1>f, <1>w, <1>l DEF EnterPush, SleepAcquire, SleepMark, WakeReaches
<1>3. CASE Unlock(t) \/ BumpUnlock(t)
  BY <1>3, <1>f, <1>w, <1>l DEF Unlock, BumpUnlock, ClearLocked, WakeReaches
<1>4. CASE PopEmpty(t) \/ ClearWait(t)
  <2>1. \A u \in Threads : pc[u] \notin {"take", "wake"}
    BY <1>4, <1>l DEF PopEmpty, ClearWait, Core, ListLocked, UnderListLock
  <2> QED
    BY <1>4, <2>1, <1>f, <1>w DEF PopEmpty, ClearWait, WakeReaches, Core, NeverFair
<1>5. CASE SleepPush(t)
  <2>1. \A u \in Threads : pc[u] \notin {"take", "wake"}
    BY <1>5, <1>l DEF SleepPush, Core, ListLocked, UnderListLock
  <2> QED
    BY <1>5, <2>1, <1>w DEF SleepPush, WakeReaches
<1>6. CASE t \notin Tasks /\ Woken(t)
  <2>1. pc[t] = "park" /\ flag[t] /\ ~on_list[t]
    BY <1>6, <1>w DEF Woken, WakeReaches
  <2>2. \A p \in Threads : pc[p] \in Popping => target[p] # t
    BY <1>6, <1>w, <2>1 DEF Popping, Taking, WakeReaches, Core, NeverFair
  <2>3. stale' = {}
    BY <1>6, <1>w, <2>1, <2>2 DEF Woken, LeaveFrame, WakeReaches, Core, NeverFair
  <2>4. /\ UNCHANGED <<target, on_list>> /\ pc'[t] = "lock" /\ ~flag'[t]
        /\ \A u \in Threads \ {t} : pc'[u] = pc[u] /\ flag'[u] = flag[u]
    BY <1>6, <2>1 DEF Woken, LeaveFrame, Core, NeverFair
  <2> QED
    BY <1>6, <1>w, <2>2, <2>3, <2>4 DEF WakeReaches, Popping, Taking
<1>7. CASE t \notin Tasks /\ ParkTimeout(t)
  <2>1. on_list[t] /\ ~flag[t]
    BY <1>7, <1>w DEF ParkTimeout, LeaveFrame, Waste, WakeReaches
  <2> QED
    BY <1>7, <1>f, <1>w, <2>1 DEF ParkTimeout, LeaveFrame, WakeReaches
<1>8. CASE (t \notin Tasks /\ RemoveNode(t)) \/ PollRemove(t)
  <2>1. \A u \in Threads : pc[u] \notin {"take", "wake"}
    BY <1>8, <1>l DEF RemoveNode, PollRemove
  <2>2. /\ UNCHANGED <<stale, target>> /\ pc'[t] \notin {"take", "wake"}
        /\ \A u \in Threads \ {t} :
             pc'[u] = pc[u] /\ flag'[u] = flag[u] /\ on_list'[u] = on_list[u]
        /\ t \notin Tasks => ~flag'[t]
    BY <1>8 DEF RemoveNode, PollRemove
  <2> QED
    BY <1>w, <2>1, <2>2 DEF WakeReaches
<1>9. CASE PopTail(t)
  <2>1. Head(queue) \in Threads /\ on_list[Head(queue)]
    <3>1. Head(queue) \in Threads /\ Head(queue) \in OnList
      BY <1>9, ListsTail DEF PopTail, TakeTail, MutexShape
    <3> QED
      BY <3>1 DEF OnList
  <2>2. /\ Head(queue) # t
        /\ \/ pc[Head(queue)] \in {"park", "remove"}
           \/ Head(queue) \in Tasks /\ pc[Head(queue)] = "poll"
    BY <1>9, <2>1 DEF PopTail, MutexShape, Core, TasksTimed
  <2>3. Head(queue) \notin Tasks => ~flag[Head(queue)]
    BY <1>w, <2>1 DEF WakeReaches
  <2>4. \A p \in Threads : pc[p] \notin {"take", "wake"}
    BY <1>9, <1>l DEF PopTail, TakeTail
  <2>5. /\ UNCHANGED <<flag, stale>>
        /\ \A u \in Threads \ {t} : pc'[u] = pc[u]
        /\ pc[t] = "pop" /\ pc'[t] = "take" /\ target'[t] = Head(queue)
        /\ \A u \in Threads : on_list'[u] <=> on_list[u] /\ u # Head(queue)
    BY <1>9, <2>1 DEF PopTail, TakeTail
  <2> QED
    BY <1>w, <2>1, <2>2, <2>3, <2>4, <2>5 DEF WakeReaches
<1>10. CASE Wake(t)
  <2>1. \A p \in Threads : pc[p] \in {"take", "wake"} => p = t
    BY <1>10, <1>l DEF Wake
  <2>2. /\ UNCHANGED on_list
        /\ \A u \in Threads \ {t} : pc'[u] = pc[u]
        /\ pc[t] = "wake" /\ pc'[t] = "clear_wait"
        /\ flag' = [flag EXCEPT ![target[t]] = TRUE]
        /\ stale' = {}
    BY <1>10, <1>w DEF Wake, UseWaker, WakeReaches
  <2> QED
    BY <1>w, <2>1, <2>2 DEF WakeReaches
<1>13. CASE TakeData(t)
  <2>1. /\ UNCHANGED <<on_list, flag, stale, target>>
        /\ \A u \in Threads \ {t} : pc'[u] = pc[u]
        /\ pc[t] = "take" /\ pc'[t] = "wake"
    BY <1>13 DEF TakeData, Taking, Core, NeverFair
  <2> QED
    BY <1>w, <2>1 DEF WakeReaches
<1>11. CASE CallLockAsync(t) \/ PollTry(t) \/ PollAgain(t)
  BY <1>11, <1>f, <1>w DEF CallLockAsync, PollTry, PollAgain, DropOldNode, WakeReaches
<1>12. CASE Cancel(t)
  <2>1. on_list[t]
    BY <1>12, <1>w DEF Cancel, DropOldNode, Waste
  <2> QED
    BY <1>12, <1>f, <1>w, <2>1 DEF Cancel, DropOldNode, WakeReaches
<1> QED
  BY <1>1, <1>2, <1>3, <1>4, <1>5, <1>6, <1>7, <1>8, <1>9, <1>10, <1>11, <1>12, <1>13
  DEF Inner, ThreadOnly, Anybody, TaskOnly

LEMMA WakeReachesClosure ==
  ASSUME MutexVarsOK, WakeReaches, NEW t \in Threads, UNCHANGED wasted,
         ClosureEnds(t) \/ CallUnlocked(t) \/ ClosurePanics(t)
  PROVE  WakeReaches'
<1>1. /\ UNCHANGED <<stale, target, on_list, flag>>
      /\ \A u \in Threads \ {t} : pc'[u] = pc[u]
      /\ pc[t] \in {"idle", "own"} /\ t \notin Tasks
      /\ pc'[t] \notin {"take", "wake"}
  BY DEF MutexVarsOK, VarsOK, ClosureEnds, CallUnlocked, ClosurePanics, ClearLocked, Goto
<1> QED
  BY <1>1 DEF WakeReaches

\* Somebody who is up and will not go away without a trace.  SomebodyUp also
\* counts a task that is scheduled although its node is queued, which may be
\* dropped; such a task is never the only one.
Up(t) ==
  \/ pc[t] \in {"lock", "poll", "push", "sleep", "pop", "take", "wake"}
  \/ pc[t] = "park" /\ flag[t] /\ ~on_list[t]
  \/ pc[t] = "remove" /\ (goal[t] = "lock" \/ ~on_list[t])

NoneStranded ==
  ~wasted /\ ~unwound /\ queue # <<>> /\ "LOCKED" \notin state => \E t \in Threads : Up(t)

LEMMA NoneStrandedStep ==
  ASSUME MutexVarsOK, MutexShape, Core, WaitBitCovers, WakeReaches, NoneStranded,
         NEW t \in Threads, Inner(t), Watch(t)
  PROVE  NoneStranded'
<1> SUFFICES ASSUME ~wasted', ~unwound', queue' # <<>>, "LOCKED" \notin state'
             PROVE  \E u \in Threads : Up(u)'
  BY DEF NoneStranded
<1>w. ~wasted /\ ~unwound /\ ~Waste(t)
  BY DEF Watch, MutexVarsOK
<1> USE DEF MutexVarsOK, VarsOK, Goto
\* A step of somebody who was not up.
<1>f. ASSUME ~Up(t), queue # <<>>, "LOCKED" \notin state,
             \A u \in Threads \ {t} :
               /\ pc'[u] = pc[u] /\ goal'[u] = goal[u]
               /\ flag'[u] = flag[u] /\ on_list'[u] = on_list[u]
      PROVE  \E u \in Threads : Up(u)'
  BY <1>w, <1>f DEF NoneStranded, Up
<1>1. CASE \/ CallLock(t) \/ CallTryLockFor(t) \/ LockTry(t) \/ TryLock(t)
           \/ EnterPush(t) \/ SleepAcquire(t) \/ SleepMark(t) \/ SleepPush(t)
           \/ CallLockAsync(t) \/ PollTry(t) \/ PollAgain(t)
  <2>1. pc'[t] \in {"lock", "poll", "push", "sleep"} \/ "LOCKED" \in state'
    BY <1>1 DEF CallLock, CallTryLockFor, LockTry, TryLock, EnterPush, SleepAcquire,
       SleepMark, SleepPush, CallLockAsync, PollTry, PollAgain
  <2> QED
    BY <2>1 DEF Up
<1>2. CASE CallTryLock(t) \/ CallBump(t) \/ ClearWait(t)
  <2>1. /\ UNCHANGED <<queue, on_list, flag>> /\ "LOCKED" \notin state /\ ~Up(t)
        /\ \A u \in Threads \ {t} : pc'[u] = pc[u] /\ goal'[u] = goal[u]
    BY <1>2 DEF CallTryLock, CallBump, ClearWait, Up
  <2> QED
    BY <2>1, <1>f
<1>3. CASE Unlock(t) \/ BumpUnlock(t)
  <2>1. pc'[t] = "pop"
    BY <1>3 DEF Unlock, BumpUnlock, ClearLocked, WaitBitCovers
  <2> QED
    BY <2>1 DEF Up
<1>4. CASE PopEmpty(t)
  BY <1>4 DEF PopEmpty
<1>5. CASE PopTail(t) \/ TakeData(t)
  <2>1. pc'[t] \in {"take", "wake"}
    BY <1>5 DEF PopTail, TakeTail, TakeData, Taking, Core, NeverFair
  <2> QED
    BY <2>1 DEF Up
<1>6. CASE Woken(t)
  <2>1. pc'[t] = "lock" \/ (pc'[t] = "remove" /\ goal'[t] = "lock")
    BY <1>6 DEF Woken, LeaveFrame, Core, NeverFair
  <2> QED
    BY <2>1 DEF Up
<1>7. CASE ParkTimeout(t) \/ Cancel(t)
  <2>1. on_list[t]
    BY <1>7, <1>w DEF ParkTimeout, LeaveFrame, Cancel, DropOldNode, Waste
  <2>2. /\ UNCHANGED <<queue, on_list, state>> /\ pc[t] = "park"
        /\ \A u \in Threads \ {t} :
             pc'[u] = pc[u] /\ goal'[u] = goal[u] /\ flag'[u] = flag[u]
    BY <1>7, <2>1 DEF ParkTimeout, LeaveFrame, Cancel, DropOldNode
  <2>3. ~Up(t)
    BY <2>1, <2>2 DEF Up
  <2> QED
    BY <2>2, <2>3, <1>f
<1>8. CASE RemoveNode(t) \/ PollRemove(t)
  <2>1. /\ pc[t] = "remove" /\ UNCHANGED state
        /\ pc'[t] = goal[t] \/ (goal[t] = "lock" /\ pc'[t] = "push")
        /\ \A u \in Threads \ {t} :
             /\ pc'[u] = pc[u] /\ goal'[u] = goal[u]
             /\ flag'[u] = flag[u] /\ on_list'[u] = on_list[u]
        /\ ~on_list[t] => queue' = queue
    BY <1>8 DEF RemoveNode, PollRemove
  <2>2. CASE goal[t] = "lock"
    BY <2>1, <2>2 DEF Up
  <2>3. CASE goal[t] = "own"
    BY <2>1, <2>3, <1>w DEF Core, OneGuard, Inside
  <2>4. CASE goal[t] = "idle"
    <3>1. on_list[t]
      BY <2>1, <2>4, <1>w DEF Waste
    <3>2. queue # <<>> /\ ~Up(t)
      BY <2>1, <2>4, <3>1 DEF MutexShape, Lists, OnList, Up
    <3> QED
      BY <2>1, <3>2, <1>f
  <2> QED
    BY <2>2, <2>3, <2>4
<1>9. CASE Wake(t)
  <2>1. PICK x \in Threads : x = target[t]
    BY <1>9, <1>w DEF Wake, WakeReaches
  <2>2. /\ pc[t] = "wake" /\ UNCHANGED <<state, on_list, goal>>
        /\ \A u \in Threads \ {t} : pc'[u] = pc[u]
        /\ flag' = [flag EXCEPT ![x] = TRUE]
    BY <1>9, <1>w, <2>1 DEF Wake, UseWaker, WakeReaches
  <2>3. /\ x # t /\ ~on_list[x]
        /\ pc[x] \in {"park", "remove", "lock", "poll", "push", "own", "pop"}
    BY <2>1, <2>2, <1>w DEF WakeReaches
  <2>4. pc[x] # "own"
    BY <2>2, <1>w DEF Core, OneGuard, Inside, Holding
  <2>5. flag'[x] /\ ~on_list'[x]
        /\ pc'[x] \in {"park", "remove", "lock", "poll", "push", "pop"}
    BY <2>2, <2>3, <2>4
  <2>6. Up(x)'
    BY <2>5 DEF Up
  <2> QED
    BY <2>6
<1> QED
  BY <1>1, <1>2, <1>3, <1>4, <1>5, <1>6, <1>7, <1>8, <1>9
  DEF Inner, ThreadOnly, Anybody, TaskOnly

LEMMA NoneStrandedClosure ==
  ASSUME MutexVarsOK, WaitBitCovers, NEW t \in Threads, ClosureEnds(t) \/ CallUnlocked(t)
  PROVE  NoneStranded'
<1> SUFFICES ASSUME queue' # <<>> PROVE Up(t)'
  BY DEF NoneStranded
<1>1. pc'[t] \in {"lock", "pop"}
  BY DEF MutexVarsOK, VarsOK, Goto, ClosureEnds, CallUnlocked, ClearLocked, WaitBitCovers
<1> QED
  BY <1>1 DEF Up
-----------------------------------------------------------------------------
(* The inductive invariant                                                 *)

MutexInv ==
  /\ MutexVarsOK /\ MutexShape /\ Core /\ WaitBitCovers /\ WakeReaches /\ NoneStranded

LEMMA MutexInvInit == MutexInit => MutexInv
<1> SUFFICES ASSUME MutexInit PROVE MutexInv
  OBVIOUS
<1>1. MutexShape
  BY DEF MutexInit, Init, MutexShape, Lists, OnList
<1>2. MutexVarsOK
  BY DEF MutexInit, Init, MutexVarsOK, VarsOK, Locations, Bits
<1>3. Core
  BY DEF MutexInit, Init, Core, NeverFair, OneGuard, Inside, Holding, ListLocked, UnderListLock,
     BumpUntimed, TasksTimed
<1>4. WaitBitCovers /\ WakeReaches /\ NoneStranded
  BY DEF MutexInit, Init, Taking, WaitBitCovers, WakeReaches, NoneStranded
<1> QED
  BY <1>1, <1>2, <1>3, <1>4 DEF MutexInv

LEMMA MutexInvStep ==
  ASSUME NoUnlockFair
  PROVE  MutexInv /\ [MutexNext]_mutexVars => MutexInv'
<1> SUFFICES ASSUME MutexInv, [MutexNext]_mutexVars PROVE MutexInv'
  OBVIOUS
<1> USE DEF MutexInv
<1>1. CASE UNCHANGED mutexVars
  BY <1>1 DEF mutexVars, vars, MutexVarsOK, VarsOK, MutexShape, OnList, Core, NeverFair,
     OneGuard, Inside, ListLocked, BumpUntimed, TasksTimed, WaitBitCovers, WakeReaches,
     NoneStranded, Up
<1>2. ASSUME NEW t \in Threads, MutexStep(t) PROVE MutexInv'
  <2>1. MutexVarsOK'
    BY <1>2, MutexTypes
  <2>2. MutexShape' /\ WaitBitCovers'
    BY <1>2, MutexShapeStep, MutexWaitStep DEF MutexVarsOK, Core, MutexStep
  <2>3. CASE Inner(t) /\ Watch(t)
    BY <2>1, <2>2, <2>3, CoreStep, WakeReachesStep, NoneStrandedStep
  <2>4. CASE ClosureEnds(t) /\ UNCHANGED <<wasted, unwound>>
    BY <2>1, <2>2, <2>4, CoreClosure, WakeReachesClosure, NoneStrandedClosure
  <2>5. CASE CallUnlocked(t) /\ UNCHANGED <<wasted, unwound>>
    BY <2>1, <2>2, <2>5, CoreClosure, WakeReachesClosure, NoneStrandedClosure
  <2>6. CASE ClosurePanics(t) /\ unwound' = TRUE /\ UNCHANGED wasted
    <3>1. NoneStranded'
      BY <2>6 DEF NoneStranded
    <3> QED
      BY <2>1, <2>2, <2>6, <3>1, CoreClosure, WakeReachesClosure
  <2> QED
    BY <1>2, <2>3, <2>4, <2>5, <2>6 DEF MutexStep
<1> QED
  BY <1>1, <1>2, MutexSteps DEF Core

LEMMA MutexInvariant ==
  ASSUME NoUnlockFair
  PROVE  MutexSpec => []MutexInv
BY MutexInvInit, MutexInvStep, PTL DEF MutexSpec

\* Without unlock_fair(), every variable of the mutex keeps its type, with
\* threads and tasks; in particular the list never holds more nodes than there
\* are callers.
THEOREM MutexTypeCorrect ==
  ASSUME NoUnlockFair
  PROVE  MutexSpec => []MutexTypeOK
<1>1. MutexInv => MutexTypeOK
  <2> SUFFICES ASSUME MutexInv PROVE MutexTypeOK
    OBVIOUS
  <2>1. \E n \in 0..Cardinality(Threads) : queue \in [1..n -> Threads]
    BY ListsBound DEF MutexInv, MutexShape
  <2> QED
    BY <2>1 DEF MutexInv, MutexVarsOK, VarsOK, MutexTypeOK, TypeOK
<1> QED
  BY <1>1, MutexInvariant, PTL

\* Without unlock_fair(): the list holds each node that thinks it is on it
\* once, and only nodes of callers that wait, although tasks replace and drop
\* their nodes whenever they are polled or cancelled; and a pop is torn only by
\* a task, or by a waiter that goes away after it has been popped.
THEOREM MutexWaitersQueued ==
  ASSUME NoUnlockFair
  PROVE  MutexSpec => []WaitersQueued
<1>1. MutexInv => WaitersQueued
  <2> SUFFICES ASSUME MutexInv PROVE WaitersQueued
    OBVIOUS
  <2>1. DOMAIN queue = 1..Len(queue)
    BY DEF MutexInv, MutexShape, Lists
  <2>2. \A t \in Threads : on_list[t] => t \in MutexHasNode \ {u \in Threads : pc[u] = "take_fair"}
    BY DEF MutexInv, MutexShape, MutexHasNode, HasNode
  <2>3. ASSUME MutexTorn, ~wasted
        PROVE  \E t \in Threads : pc[t] \in Taking /\ target[t] \in Tasks \ MutexHasNode
    <3>1. PICK t \in Threads : pc[t] \in Taking /\ target[t] \notin MutexHasNode
      BY <2>3 DEF MutexTorn, TornWithout
    <3>2. target[t] \in Threads /\ (target[t] \notin Tasks => target[t] \in MutexHasNode)
      BY <2>3, <3>1 DEF MutexInv, WakeReaches, Core, NeverFair, Taking, MutexHasNode, HasNode
    <3> QED
      BY <3>1, <3>2
  <2> QED
    BY <2>1, <2>2, <2>3 DEF MutexInv, MutexShape, Lists, OnList, WaitersQueued
<1> QED
  BY <1>1, MutexInvariant, PTL

\* Without unlock_fair(): nobody is left in the queue beside a free mutex until
\* a waiter that was popped goes away or a closure panics.
THEOREM MutexNobodyStranded ==
  ASSUME NoUnlockFair
  PROVE  MutexSpec => []NobodyStranded
<1>1. MutexInv => NobodyStranded
  <2>1. \A t \in Threads : Up(t) =>
          \/ pc[t] \in {"lock", "poll", "push", "sleep", "pop", "take", "wake"}
          \/ pc[t] = "park" /\ flag[t]
          \/ pc[t] = "remove" /\ (goal[t] = "lock" \/ ~on_list[t])
    BY DEF Up
  <2> QED
    BY <2>1 DEF MutexInv, NoneStranded, NobodyStranded, SomebodyUp
<1> QED
  BY <1>1, MutexInvariant, PTL
-----------------------------------------------------------------------------
(* The queue is the list that AbstractList describes, for tasks as well,   *)
(* until a pop is torn.                                                    *)

Queued ==
  INSTANCE AbstractList
    WITH Nodes <- Threads, None <- <<>>, items <- Reversed(queue), given <- Given,
         there <- MutexHasNode

\* A node that is not on the list goes away.
LEMMA MutexDiscards ==
  ASSUME ListLocked, ListLocked', Lists(queue, OnList, Threads), NEW t \in Threads,
         ~on_list[t], UNCHANGED <<queue, target>>,
         \A u \in Threads \ {t} : pc'[u] = pc[u],
         pc[t] \in {"park", "remove", "poll"}, t \notin MutexHasNode',
         pc'[t] \notin Taking
  PROVE  Queued!Discard(t) \/ MutexTorn'
<1>1. Given' = Given
  BY GivenFrame DEF Taking
<1>2. MutexHasNode' = MutexHasNode \ {t}
  BY DEF MutexHasNode, HasNode
<1>3. t \notin Queued!Members
  BY NotListed DEF Queued!Members
<1>4. Given # <<>> /\ Given[2] = t => MutexTorn'
  BY DropTears DEF Taking, MutexTorn, TornWithout
<1> QED
  BY <1>1, <1>2, <1>3, <1>4 DEF Queued!Discard

LEMMA MutexUsesListStep ==
  ASSUME NoUnlockFair
  PROVE  MutexInv /\ MutexInv' /\ [MutexNext]_mutexVars
           => [Queued!AbsNext \/ MutexTorn']_(Queued!absVars)
<1> SUFFICES ASSUME MutexInv, MutexInv', [MutexNext]_mutexVars
             PROVE  \/ Queued!AbsNext \/ MutexTorn'
                    \/ UNCHANGED <<Reversed(queue), Given, MutexHasNode>>
  BY DEF Queued!absVars
<1>l. /\ ListLocked /\ ListLocked' /\ Lists(queue, OnList, Threads) /\ VarsOK
      /\ NeverFair
  BY DEF MutexInv, Core, MutexShape, MutexVarsOK
<1> USE DEF Goto, Taking
<1> DEFINE Owning == {"park", "take_fair", "remove", "poll"}
\* A step that neither changes the list nor pops, nor makes or drops a node.
<1>f. ASSUME NEW t \in Threads, UNCHANGED queue,
             \A u \in Threads : pc[u] \in Taking => target'[u] = target[u],
             \A u \in Threads \ {t} : pc'[u] = pc[u],
             pc'[t] \in Taking <=> pc[t] \in Taking,
             pc'[t] \in Owning <=> pc[t] \in Owning
      PROVE  UNCHANGED <<Reversed(queue), Given, MutexHasNode>>
  <2>1. Given' = Given
    BY <1>f, <1>l, GivenFrame
  <2> QED
    BY <1>f, <2>1 DEF MutexHasNode, HasNode
<1>1. ASSUME NEW t \in Threads,
             CallLock(t) \/ CallTryLockFor(t) \/ CallTryLock(t) \/ CallBump(t)
               \/ LockTry(t) \/ EnterPush(t) \/ SleepAcquire(t) \/ SleepMark(t)
               \/ TryLock(t) \/ PopEmpty(t) \/ ClearWait(t)
      PROVE  UNCHANGED <<Reversed(queue), Given, MutexHasNode>>
  <2>1. /\ UNCHANGED <<queue, target>> /\ \A u \in Threads \ {t} : pc'[u] = pc[u]
        /\ pc'[t] \notin Taking /\ pc[t] \notin Taking
        /\ pc'[t] \notin Owning /\ pc[t] \notin Owning
    BY <1>1, <1>l DEF CallLock, CallTryLockFor, CallTryLock, CallBump, LockTry, EnterPush,
       SleepAcquire, SleepMark, TryLock, PopEmpty, ClearWait, VarsOK
  <2> QED
    BY <2>1, <1>f
<1>2. ASSUME NEW t \in Threads,
             \/ Unlock(t) \/ BumpUnlock(t) \/ CallUnlocked(t) \/ ClosurePanics(t)
             \/ ClosureEnds(t) \/ CallLockAsync(t) \/ PollAgain(t) \/ Wake(t)
      PROVE  UNCHANGED <<Reversed(queue), Given, MutexHasNode>>
  <2>1. /\ UNCHANGED queue /\ \A u \in Threads \ {t} : pc'[u] = pc[u] /\ target'[u] = target[u]
        /\ pc'[t] \notin Taking /\ pc[t] \notin Taking
        /\ pc'[t] \in Owning <=> pc[t] \in Owning
    BY <1>2, <1>l DEF Unlock, BumpUnlock, CallUnlocked, ClosurePanics, ClearLocked,
       ClosureEnds, CallLockAsync, PollAgain, Wake, UseWaker, VarsOK
  <2> QED
    BY <2>1, <1>f
<1>3. ASSUME NEW t \in Threads, SleepPush(t) PROVE Queued!PushFront(t)
  <2>1. /\ pc[t] = "sleep" /\ pc'[t] = "park"
        /\ \A u \in Threads \ {t} : pc'[u] = pc[u]
    BY <1>3, <1>l DEF SleepPush, VarsOK
  <2>2. t \notin MutexHasNode /\ MutexHasNode' = MutexHasNode \cup {t}
    BY <2>1 DEF MutexHasNode, HasNode
  <2> QED
    BY <1>3, <1>l, <2>2, PushesFront DEF Queued!PushFront
<1>4. ASSUME NEW t \in Threads, PopTail(t) PROVE Queued!TakeBack
  <2>1. MutexHasNode' = MutexHasNode
    BY <1>4, <1>l DEF PopTail, TakeTail, VarsOK, MutexHasNode, HasNode
  <2> QED
    BY <1>4, <1>l, <2>1, TakesBack DEF Queued!TakeBack
<1>5. ASSUME NEW t \in Threads, TakeData(t) PROVE Queued!Deliver
  <2>1. MutexHasNode' = MutexHasNode
    BY <1>5, <1>l DEF TakeData, VarsOK, MutexHasNode, HasNode
  <2> QED
    BY <1>5, <1>l, <2>1, Delivers DEF Queued!Deliver
\* The node goes, unless it is still on the list: then it is removed first.
<1>6. ASSUME NEW t \in Threads,
             Woken(t) \/ ParkTimeout(t) \/ PollTry(t) \/ Cancel(t)
      PROVE  \/ Queued!AbsNext \/ MutexTorn'
             \/ UNCHANGED <<Reversed(queue), Given, MutexHasNode>>
  <2>1. /\ UNCHANGED <<queue, target>> /\ \A u \in Threads \ {t} : pc'[u] = pc[u]
        /\ pc[t] \in {"park", "poll", "lock"}
        /\ \/ pc[t] # "lock" /\ pc'[t] = "remove"
           \/ ~on_list[t] /\ pc'[t] \in {"lock", "push", "own", "idle"}
    BY <1>6, <1>l DEF MutexInv, MutexShape, NeverFair, Woken, ParkTimeout, LeaveFrame, PollTry,
       Cancel, DropOldNode, VarsOK
  <2>2. CASE pc'[t] = "remove" \/ pc[t] = "lock"
    BY <2>1, <2>2, <1>f
  <2>3. CASE pc'[t] # "remove" /\ pc[t] # "lock"
    <3>1. t \notin MutexHasNode'
      BY <2>1, <2>3 DEF MutexHasNode, HasNode
    <3>2. Queued!Discard(t) \/ MutexTorn'
      BY <1>l, <2>1, <2>3, <3>1, MutexDiscards
    <3> QED
      BY <3>2 DEF Queued!AbsNext
  <2> QED
    BY <2>2, <2>3
<1>7. ASSUME NEW t \in Threads, RemoveNode(t) \/ PollRemove(t)
      PROVE  Queued!AbsNext \/ MutexTorn'
  <2>1. /\ UNCHANGED target /\ \A u \in Threads \ {t} : pc'[u] = pc[u]
        /\ pc[t] = "remove" /\ pc'[t] \in {"idle", "lock", "push", "own"}
        /\ queue' = IF on_list[t] THEN Unlink(queue, t) ELSE queue
    BY <1>7, <1>l DEF RemoveNode, PollRemove, VarsOK
  <2>2. t \notin MutexHasNode' /\ MutexHasNode' = MutexHasNode \ {t}
    BY <2>1 DEF MutexHasNode, HasNode
  <2>3. CASE on_list[t]
    <3>1. Given' = Given
      BY <1>l, <2>1, GivenFrame
    <3>2. \E i \in DOMAIN Reversed(queue) : Queued!Withdraw(i)
      BY <1>l, <2>1, <2>2, <2>3, <3>1, Withdraws DEF Queued!Withdraw, Queued!Without
    <3> QED
      BY <3>2 DEF Queued!AbsNext
  <2>4. CASE ~on_list[t]
    <3>1. Queued!Discard(t) \/ MutexTorn'
      BY <1>l, <2>1, <2>2, <2>4, MutexDiscards
    <3> QED
      BY <3>1 DEF Queued!AbsNext
  <2> QED
    BY <2>3, <2>4
<1>8. CASE UNCHANGED mutexVars
  BY <1>8 DEF mutexVars, vars, Given, MutexHasNode, HasNode
<1>9. ASSUME NEW t \in Threads, MutexStep(t)
      PROVE  \/ Queued!AbsNext \/ MutexTorn'
             \/ UNCHANGED <<Reversed(queue), Given, MutexHasNode>>
  BY <1>1, <1>2, <1>3, <1>4, <1>5, <1>6, <1>7, <1>9
  DEF MutexStep, Inner, ThreadOnly, Anybody, TaskOnly, Queued!AbsNext
<1> QED
  BY <1>8, <1>9, <1>l, MutexSteps

\* Without unlock_fair(): although a poll puts its new node in the place of the
\* old one, no node is pushed that is still there, and one that is dropped takes
\* nobody else out of the list, until one is dropped that is being popped.
THEOREM MutexUsesList ==
  ASSUME NoUnlockFair
  PROVE  MutexSpec => Queued!AbsInit /\ [][Queued!AbsNext \/ MutexTorn']_(Queued!absVars)
<1>1. MutexInit => Queued!AbsInit
  BY DEF MutexInit, Init, Queued!AbsInit, Given, Taking, Reversed, MutexHasNode, HasNode
<1> QED
  BY <1>1, MutexUsesListStep, MutexInvariant, PTL DEF MutexSpec
-----------------------------------------------------------------------------
(* Nobody waits for ever because everybody does.                           *)

\* Whoever sleeps is queued, woken, or about to be, whatever the others do: a
\* timeout, a dropped future or a panic takes only its own wakeup along.
Attended ==
  \A t \in Threads : pc[t] = "park" =>
    on_list[t] \/ flag[t] \/ \E r \in Threads : pc[r] \in {"take", "wake"} /\ target[r] = t

\* The same with what makes it inductive: the Waker in somebody's hand is that
\* of the Parker the sleeper waits for, not of one he has left.
AttendedInv ==
  /\ \A r \in stale : pc[r] \in {"take", "wake"}
  /\ \A t \in Threads : pc[t] = "park" =>
       \/ on_list[t] \/ flag[t]
       \/ \E r \in Threads : pc[r] \in {"take", "wake"} /\ target[r] = t /\ r \notin stale

LEMMA AttendedFrame ==
  ASSUME AttendedInv, stale \subseteq Threads, NEW t \in Threads,
         UNCHANGED <<stale, target>>, pc[t] \notin {"take", "wake"},
         \A u \in Threads \ {t} :
           pc'[u] = pc[u] /\ flag'[u] = flag[u] /\ on_list'[u] = on_list[u],
         pc'[t] = "park" => on_list'[t]
  PROVE  AttendedInv'
BY DEF AttendedInv

LEMMA AttendedStep ==
  ASSUME MutexVarsOK, MutexShape, NeverFair, AttendedInv, NEW t \in Threads,
         Inner(t) \/ ClosureEnds(t) \/ CallUnlocked(t) \/ ClosurePanics(t)
  PROVE  AttendedInv'
<1> USE DEF MutexVarsOK, VarsOK, Goto
<1>1. CASE CallLock(t) \/ CallTryLockFor(t) \/ CallTryLock(t) \/ CallBump(t)
             \/ LockTry(t) \/ EnterPush(t) \/ SleepAcquire(t) \/ SleepMark(t)
             \/ SleepPush(t) \/ TryLock(t) \/ RemoveNode(t)
  <2>1. /\ UNCHANGED <<stale, target>> /\ pc[t] \notin {"take", "wake"}
        /\ \A u \in Threads \ {t} :
             pc'[u] = pc[u] /\ flag'[u] = flag[u] /\ on_list'[u] = on_list[u]
        /\ pc'[t] = "park" => on_list'[t]
    BY <1>1 DEF CallLock, CallTryLockFor, CallTryLock, CallBump, LockTry, EnterPush,
       SleepAcquire, SleepMark, SleepPush, TryLock, RemoveNode
  <2> QED
    BY <2>1, AttendedFrame
<1>2. ASSUME NEW l \in {"idle", "lock"}, pc[t] \in {"idle", "own", "bump"}, ClearLocked(t, l)
      PROVE  AttendedInv'
  <2>1. /\ UNCHANGED <<stale, target, flag, on_list>> /\ pc[t] \notin {"take", "wake"}
        /\ \A u \in Threads \ {t} : pc'[u] = pc[u]
        /\ pc'[t] # "park"
    BY <1>2 DEF ClearLocked
  <2> QED
    BY <2>1, AttendedFrame
<1>3. CASE Unlock(t) \/ BumpUnlock(t) \/ CallUnlocked(t) \/ ClosurePanics(t)
  BY <1>3, <1>2 DEF Unlock, BumpUnlock, CallUnlocked, ClosurePanics
<1>4. CASE PopEmpty(t) \/ ClearWait(t) \/ TaskOnly(t) \/ ClosureEnds(t)
  <2>1. /\ UNCHANGED <<stale, target>> /\ pc[t] \notin {"take", "wake"}
        /\ \A u \in Threads \ {t} :
             pc'[u] = pc[u] /\ flag'[u] = flag[u] /\ on_list'[u] = on_list[u]
        /\ pc'[t] # "park"
    BY <1>4 DEF PopEmpty, ClearWait, TaskOnly, CallLockAsync, PollTry, PollRemove, PollAgain,
       Cancel, DropOldNode, ClosureEnds
  <2> QED
    BY <2>1, AttendedFrame
<1>5. CASE PopTail(t)
  <2>1. Head(queue) \in Threads
    BY <1>5, ListsTail DEF MutexShape, PopTail, TakeTail
  <2>2. /\ pc[t] = "pop" /\ pc'[t] = "take" /\ target'[t] = Head(queue)
        /\ \A u \in Threads \ {t} : pc'[u] = pc[u] /\ target'[u] = target[u]
        /\ \A u \in Threads \ {Head(queue)} : on_list'[u] = on_list[u]
        /\ UNCHANGED <<stale, flag>>
    BY <1>5, <2>1 DEF PopTail, TakeTail
  <2>3. t \notin stale
    BY <2>2 DEF AttendedInv
  <2> QED
    BY <2>1, <2>2, <2>3 DEF AttendedInv
<1>8. CASE TakeData(t)
  <2>1. /\ pc[t] = "take" /\ pc'[t] = "wake"
        /\ \A u \in Threads \ {t} : pc'[u] = pc[u]
        /\ UNCHANGED <<target, on_list, stale, flag>>
    BY <1>8 DEF TakeData, Taking, NeverFair
  <2> QED
    BY <2>1 DEF AttendedInv
<1>6. CASE Wake(t)
  <2>1. /\ pc[t] = "wake" /\ pc'[t] = "clear_wait"
        /\ \A u \in Threads \ {t} : pc'[u] = pc[u] /\ target'[u] = target[u]
        /\ UNCHANGED on_list /\ stale' = stale \ {t}
        /\ \A u \in Threads : flag[u] => flag'[u]
        /\ target[t] \in Threads /\ t \notin stale => flag'[target[t]]
    BY <1>6 DEF Wake, UseWaker
  <2> QED
    BY <2>1 DEF AttendedInv
<1>7. CASE Woken(t) \/ ParkTimeout(t)
  <2>1. /\ pc[t] = "park" /\ pc'[t] # "park" /\ UNCHANGED <<target, on_list>>
        /\ \A u \in Threads \ {t} : pc'[u] = pc[u] /\ flag'[u] = flag[u]
        /\ stale' \subseteq stale \cup {p \in Threads : target[p] = t /\ pc[p] \in {"take", "wake"}}
    BY <1>7 DEF Woken, ParkTimeout, LeaveFrame, Popping, Taking, NeverFair
  <2> QED
    BY <2>1 DEF AttendedInv
<1> QED
  BY <1>1, <1>3, <1>4, <1>5, <1>6, <1>7, <1>8 DEF Inner, ThreadOnly, Anybody

LEMMA AttendedInvariant ==
  ASSUME NoUnlockFair
  PROVE  MutexSpec => []AttendedInv
<1>1. MutexInit => AttendedInv
  BY DEF MutexInit, Init, AttendedInv
<1>2. MutexInv /\ AttendedInv /\ [MutexNext]_mutexVars => AttendedInv'
  <2> SUFFICES ASSUME MutexInv, AttendedInv, [MutexNext]_mutexVars PROVE AttendedInv'
    OBVIOUS
  <2>1. CASE UNCHANGED mutexVars
    BY <2>1 DEF mutexVars, vars, AttendedInv
  <2>2. ASSUME NEW t \in Threads, MutexStep(t) PROVE AttendedInv'
    BY <2>2, AttendedStep DEF MutexStep, MutexInv, Core
  <2> QED
    BY <2>1, <2>2, MutexSteps DEF MutexInv, Core
<1> QED
  BY <1>1, <1>2, MutexInvariant, PTL DEF MutexSpec

\* Without unlock_fair(): no sleeper is lost sight of, with timeouts, dropped
\* futures and panics in whatever order.
THEOREM MutexAttended ==
  ASSUME NoUnlockFair
  PROVE  MutexSpec => []Attended
<1>1. AttendedInv => Attended
  BY DEF AttendedInv, Attended
<1> QED
  BY <1>1, AttendedInvariant, PTL

\* A thread or task whose next step waits for nobody: owners leave of their own
\* accord, closures return, and the executor polls whom it has been asked to.
Going(t) ==
  \/ pc[t] \in {"lock", "poll", "try", "own", "bump", "sleep", "take", "wake", "clear_wait"}
  \/ pc[t] \in {"push", "pop", "remove"} /\ list_lock = Null
  \/ pc[t] = "park" /\ flag[t]
  \/ pc[t] = "idle" /\ t \in open

\* Threads and tasks never all wait for each other, until a wakeup is wasted or
\* a closure panics.
NoneStuck ==
  ~wasted /\ ~unwound /\ (\E t \in Threads : pc[t] \notin {"idle", "panicked"}) =>
    \E t \in Threads : Going(t)

\* Without unlock_fair(), and without any help of a timeout or of a poll that
\* nobody asked for: as long as a call is under way somebody can go on.
THEOREM MutexNeverStuck ==
  ASSUME NoUnlockFair
  PROVE  MutexSpec => []NoneStuck
<1>1. MutexInv /\ Attended => NoneStuck
  <2> SUFFICES ASSUME MutexInv, Attended, ~wasted, ~unwound,
                      NEW t \in Threads, pc[t] \notin {"idle", "panicked"},
                      \A u \in Threads : ~Going(u)
               PROVE  FALSE
    BY DEF NoneStuck
  <2> USE DEF MutexInv, MutexVarsOK
  <2>1. list_lock = Null
    <3> SUFFICES ASSUME list_lock \in Threads PROVE FALSE
      BY DEF VarsOK
    <3>1. pc[list_lock] \in UnderListLock
      BY DEF Core, ListLocked
    <3> QED
      BY <3>1 DEF Core, NeverFair, UnderListLock, Going
  <2>2. \A u \in Threads : pc[u] \in {"idle", "panicked", "park"} /\ (pc[u] = "park" => ~flag[u])
    BY <2>1 DEF VarsOK, Locations, Going, Core, NeverFair
  <2>3. on_list[t]
    BY <2>2 DEF Attended
  <2>4. queue # <<>>
    BY <2>3 DEF MutexShape, Lists, OnList
  <2>5. "LOCKED" \in state
    BY <2>2, <2>4 DEF NoneStranded, Up
  <2> QED
    BY <2>2, <2>5 DEF Core, OneGuard, Inside, Holding
<1>2. MutexSpec => []Attended
  BY MutexAttended
<1> QED
  BY <1>1, <1>2, MutexInvariant, PTL
-----------------------------------------------------------------------------
(* The refinement of AbstractLock                                          *)

\* What the lemmas below use, before and after a step.
Facts == MutexVarsOK /\ Core /\ ~unwound

LEMMA GuardIs ==
  ASSUME Facts
  PROVE  /\ \A t \in Threads : Inside(t) => GuardOwner = t
         /\ (\A t \in Threads : ~Inside(t)) => GuardOwner = Null
         /\ Wish = [t \in Threads |-> WantOf(pc[t], goal[t], timed[t])]
<1>1. GuardOwners = {t \in Threads : Inside(t)}
  BY MutexAssumption
  DEF Facts, Core, NeverFair, GuardOwners, Owners, Handed, Inside, Holding
<1>2. Wish = [t \in Threads |-> WantOf(pc[t], goal[t], timed[t])]
  <2>1. Owners \subseteq GuardOwners
    BY DEF GuardOwners
  <2>2. \A t \in Threads : t \in GuardOwners => WantOf(pc[t], goal[t], timed[t]) = "none"
    BY <1>1 DEF Inside, Holding, Waiting, WantOf
  <2> QED
    BY <2>1, <2>2 DEF Wish, Want, WantOf, InLock
<1> QED
  BY <1>1, <1>2 DEF Facts, Core, OneGuard, GuardOwner

\* The same after the step.
LEMMA GuardIsNext ==
  ASSUME Facts'
  PROVE  /\ \A t \in Threads : Inside(t)' => GuardOwner' = t
         /\ (\A t \in Threads : ~Inside(t)') => GuardOwner' = Null
         /\ Wish' = [t \in Threads |-> WantOf(pc'[t], goal'[t], timed'[t])]
<1>1. GuardOwners' = {t \in Threads : Inside(t)'}
  BY MutexAssumption
  DEF Facts, Core, NeverFair, GuardOwners, Owners, Handed, Inside, Holding
<1>2. Wish' = [t \in Threads |-> WantOf(pc'[t], goal'[t], timed'[t])]
  <2>1. Owners' \subseteq GuardOwners'
    BY DEF GuardOwners
  <2>2. \A t \in Threads :
          t \in GuardOwners' => WantOf(pc'[t], goal'[t], timed'[t]) = "none"
    BY <1>1 DEF Inside, Holding, Waiting, WantOf
  <2> QED
    BY <2>1, <2>2 DEF Wish, Want, WantOf, InLock
<1> QED
  BY <1>1, <1>2 DEF Facts, Core, OneGuard, GuardOwner

\* The locals of everybody but t stay as they are.
Alone(t) ==
  \A u \in Threads \ {t} : pc'[u] = pc[u] /\ goal'[u] = goal[u] /\ timed'[u] = timed[u]

\* What t wants before and after.
Wanted(t) == WantOf(pc[t], goal[t], timed[t])

LEMMA GuardStep ==
  ASSUME Facts, Facts', NEW t \in Threads, Alone(t)
  PROVE  /\ Wish' = [Wish EXCEPT ![t] = Wanted(t)']
         /\ Wish[t] = Wanted(t)
         /\ (Wanted(t)' = Wanted(t)) => Wish' = Wish
         /\ (Inside(t)' <=> Inside(t)) => GuardOwner' = GuardOwner
         /\ ~Inside(t) /\ Inside(t)' /\ "LOCKED" \notin state =>
              GuardOwner = Null /\ GuardOwner' = t
         /\ Inside(t) /\ ~Inside(t)' => GuardOwner = t /\ GuardOwner' = Null
         /\ ~Inside(t) => GuardOwner # t
         /\ "LOCKED" \in state => GuardOwner # Null
<1>1. /\ Wish = [u \in Threads |-> WantOf(pc[u], goal[u], timed[u])]
      /\ Wish' = [u \in Threads |-> WantOf(pc'[u], goal'[u], timed'[u])]
  BY GuardIs, GuardIsNext
<1>2. /\ Wish' = [Wish EXCEPT ![t] = Wanted(t)']
      /\ Wish[t] = Wanted(t)
      /\ (Wanted(t)' = Wanted(t)) => Wish' = Wish
  BY <1>1 DEF Alone, Wanted
<1>3. /\ "LOCKED" \in state <=> \E u \in Threads : Inside(u)
      /\ \A u, v \in Threads : Inside(u) /\ Inside(v) => u = v
  BY DEF Facts, Core, OneGuard
<1>4. \A u \in Threads \ {t} : Inside(u)' <=> Inside(u)
  BY DEF Alone, Inside
<1>5. \A u \in Threads : Inside(u) => GuardOwner = u /\ u # Null
  BY GuardIs, RawMutexAssumption
<1> HIDE DEF Inside, Wanted
<1>6. (Inside(t)' <=> Inside(t)) => GuardOwner' = GuardOwner
  <2> SUFFICES ASSUME \A u \in Threads : Inside(u)' <=> Inside(u)
               PROVE  GuardOwner' = GuardOwner
    BY <1>4
  <2>1. CASE \E u \in Threads : Inside(u)
    BY <2>1, GuardIs, GuardIsNext
  <2>2. CASE \A u \in Threads : ~Inside(u)
    BY <2>2, GuardIs, GuardIsNext
  <2> QED
    BY <2>1, <2>2
<1>7. ~Inside(t) /\ Inside(t)' /\ "LOCKED" \notin state =>
        GuardOwner = Null /\ GuardOwner' = t
  BY <1>3, GuardIs, GuardIsNext
<1>8. Inside(t) /\ ~Inside(t)' => GuardOwner = t /\ GuardOwner' = Null
  BY <1>3, <1>4, GuardIs, GuardIsNext
<1>9. ~Inside(t) => GuardOwner # t
  BY <1>5, GuardIs, RawMutexAssumption
<1>10. "LOCKED" \in state => GuardOwner # Null
  BY <1>3, <1>5
<1> QED
  BY <1>2, <1>6, <1>7, <1>8, <1>9, <1>10

\* The kinds of steps that an abstract lock allows to t, told by t's locals.
Kept(t) == (Inside(t)' <=> Inside(t)) /\ Wanted(t)' = Wanted(t)
Asks(t) == ~Inside(t) /\ ~Inside(t)' /\ Wanted(t) = "none" /\ Wanted(t)' # "none"
Wins(t) == ~Inside(t) /\ Inside(t)' /\ Wanted(t) # "none" /\ "LOCKED" \notin state
GivesUp(t) ==
  /\ ~Inside(t) /\ ~Inside(t)' /\ Wanted(t)' = "none"
  /\ \/ Wanted(t) = "timed"
     \/ Wanted(t) = "try" /\ "LOCKED" \in state
Leaves(t) == Inside(t) /\ ~Inside(t)' /\ Wanted(t)' \in {"none", "lock"}

Allowed(t) == Kept(t) \/ Asks(t) \/ Wins(t) \/ GivesUp(t) \/ Leaves(t)

LEMMA GuardAllowed ==
  ASSUME Facts, Facts', NEW t \in Threads, Alone(t), Allowed(t)
  PROVE  Guards!AbsNext \/ UNCHANGED <<GuardOwner, Wish>>
<1>g. /\ Wish' = [Wish EXCEPT ![t] = Wanted(t)']
      /\ Wish[t] = Wanted(t)
      /\ (Wanted(t)' = Wanted(t)) => Wish' = Wish
      /\ (Inside(t)' <=> Inside(t)) => GuardOwner' = GuardOwner
      /\ ~Inside(t) /\ Inside(t)' /\ "LOCKED" \notin state =>
           GuardOwner = Null /\ GuardOwner' = t
      /\ Inside(t) /\ ~Inside(t)' => GuardOwner = t /\ GuardOwner' = Null
      /\ ~Inside(t) => GuardOwner # t
      /\ "LOCKED" \in state => GuardOwner # Null
  BY GuardStep
<1>h. /\ Inside(t) => Wanted(t) = "none"
      /\ Inside(t)' => Wanted(t)' = "none"
  BY DEF Inside, Holding, Waiting, Wanted, WantOf
<1>r. Wanted(t)' \in Guards!Requests \cup {"none"}
  BY DEF Wanted, WantOf, Guards!Requests
<1> HIDE DEF Inside, Wanted
<1>1. CASE Kept(t)
  BY <1>1, <1>g DEF Kept
<1>2. CASE Asks(t)
  <2>1. Guards!Request(t)
    BY <1>2, <1>g, <1>r DEF Asks, Guards!Request
  <2> QED
    BY <2>1 DEF Guards!AbsNext
<1>3. CASE Wins(t)
  <2>1. Guards!Grant(t)
    BY <1>3, <1>g, <1>h DEF Wins, Guards!Grant
  <2> QED
    BY <2>1 DEF Guards!AbsNext
<1>4. CASE GivesUp(t)
  <2>1. Guards!Expire(t) \/ Guards!Refuse(t)
    BY <1>4, <1>g DEF GivesUp, Guards!Expire, Guards!Refuse
  <2> QED
    BY <2>1 DEF Guards!AbsNext
<1>5. CASE Leaves(t)
  <2>1. Guards!Yield(t) \/ Guards!Bump(t)
    BY <1>5, <1>g, <1>h DEF Leaves, Guards!Yield, Guards!Bump
  <2> QED
    BY <2>1 DEF Guards!AbsNext
<1> QED
  BY <1>1, <1>2, <1>3, <1>4, <1>5 DEF Allowed

\* A step changes the locals of its own thread or task only.
LEMMA AloneStep ==
  ASSUME MutexVarsOK, Core, NEW t \in Threads,
         Inner(t) \/ ClosureEnds(t) \/ CallUnlocked(t)
  PROVE  Alone(t)
<1> USE DEF MutexVarsOK, VarsOK, Goto, Alone
<1>1. CASE CallLock(t) \/ CallTryLockFor(t) \/ CallTryLock(t) \/ CallBump(t)
             \/ LockTry(t) \/ EnterPush(t) \/ SleepAcquire(t) \/ SleepMark(t)
  BY <1>1 DEF CallLock, CallTryLockFor, CallTryLock, CallBump, LockTry, EnterPush,
       SleepAcquire, SleepMark
<1>2. CASE SleepPush(t) \/ Woken(t) \/ ParkTimeout(t) \/ RemoveNode(t) \/ TryLock(t)
  BY <1>2 DEF SleepPush, Woken, ParkTimeout, LeaveFrame, RemoveNode, TryLock
<1>3. CASE Unlock(t) \/ BumpUnlock(t) \/ PopEmpty(t) \/ PopTail(t) \/ TakeData(t)
             \/ Wake(t) \/ ClearWait(t)
  BY <1>3 DEF Unlock, BumpUnlock, ClearLocked, PopEmpty, PopTail, TakeTail, TakeData, Wake,
       ClearWait
<1>4. CASE CallLockAsync(t) \/ PollTry(t) \/ PollRemove(t) \/ PollAgain(t) \/ Cancel(t)
  BY <1>4 DEF CallLockAsync, PollTry, PollRemove, PollAgain, Cancel, DropOldNode
<1>5. CASE ClosureEnds(t) \/ CallUnlocked(t)
  BY <1>5 DEF ClosureEnds, CallUnlocked, ClearLocked
<1> QED
  BY <1>1, <1>2, <1>3, <1>4, <1>5 DEF Inner, ThreadOnly, Anybody, TaskOnly

\* Every step is of one of those kinds.
LEMMA AllowedStep ==
  ASSUME MutexVarsOK, Core, NEW t \in Threads,
         Inner(t) \/ ClosureEnds(t) \/ CallUnlocked(t)
  PROVE  Allowed(t)
<1> USE DEF MutexVarsOK, VarsOK, Goto, Core, NeverFair, BumpUntimed, TasksTimed,
            Inside, Holding, Waiting, Wanted, WantOf, Allowed
<1>g. goal[t] \in {"idle", "lock"} \/ (goal[t] = "own" /\ pc[t] = "remove")
  OBVIOUS
<1>1. CASE CallLock(t) \/ CallTryLockFor(t) \/ CallTryLock(t) \/ CallLockAsync(t)
             \/ ClosureEnds(t)
  <2>1. pc[t] = "idle" /\ pc'[t] \in {"lock", "try"}
    BY <1>1 DEF CallLock, CallTryLockFor, CallTryLock, CallLockAsync, ClosureEnds
  <2> QED
    BY <2>1 DEF Asks
<1>2. CASE LockTry(t) \/ SleepAcquire(t)
  <2>1. /\ pc[t] \in {"lock", "sleep"} /\ UNCHANGED <<goal, timed>>
        /\ \/ pc'[t] = "push"
           \/ pc'[t] = "own" /\ "LOCKED" \notin state
    BY <1>2 DEF LockTry, SleepAcquire
  <2> QED
    BY <2>1 DEF Kept, Wins
<1>3. CASE EnterPush(t) \/ SleepMark(t) \/ SleepPush(t) \/ Woken(t) \/ PollAgain(t)
  <2>1. /\ pc[t] \in Waiting /\ UNCHANGED timed
        /\ pc'[t] \in Waiting \/ (pc'[t] = "remove" /\ goal'[t] = "lock")
    BY <1>3 DEF EnterPush, SleepMark, SleepPush, Woken, LeaveFrame, PollAgain
  <2> QED
    BY <2>1 DEF Kept
<1>4. CASE ParkTimeout(t) \/ Cancel(t)
  <2>1. /\ pc[t] = "park" /\ timed[t]
        /\ pc'[t] = "idle" \/ (pc'[t] = "remove" /\ goal'[t] = "idle")
    BY <1>4 DEF ParkTimeout, LeaveFrame, Cancel, DropOldNode
  <2> QED
    BY <2>1 DEF GivesUp
<1>5. CASE RemoveNode(t) /\ t \notin Tasks
  <2>1. pc[t] = "remove" /\ pc'[t] = goal[t] /\ timed' = timed /\ goal[t] # "own"
    BY <1>5 DEF RemoveNode
  <2> QED
    BY <1>g, <2>1 DEF Kept
<1>6. CASE PollRemove(t)
  <2>1. /\ pc[t] = "remove" /\ UNCHANGED timed
        /\ pc'[t] = (IF goal[t] = "lock" THEN "push" ELSE goal[t])
    BY <1>6 DEF PollRemove
  <2> QED
    BY <1>g, <2>1 DEF Kept
<1>7. CASE PollTry(t)
  <2>1. /\ pc[t] \in {"lock", "poll"} /\ UNCHANGED timed
        /\ \/ /\ "LOCKED" \notin state
              /\ pc'[t] = "own" \/ (pc'[t] = "remove" /\ goal'[t] = "own")
           \/ pc'[t] = "push" \/ (pc'[t] = "remove" /\ goal'[t] = "lock")
    BY <1>7 DEF PollTry, DropOldNode
  <2> QED
    BY <2>1 DEF Kept, Wins
<1>8. CASE TryLock(t)
  <2>1. /\ pc[t] = "try"
        /\ \/ pc'[t] = "own" /\ "LOCKED" \notin state
           \/ pc'[t] = "idle" /\ "LOCKED" \in state
    BY <1>8 DEF TryLock
  <2> QED
    BY <2>1 DEF Wins, GivesUp
<1>9. CASE Unlock(t) \/ BumpUnlock(t) \/ CallUnlocked(t)
  <2>1. /\ pc[t] \in {"own", "bump"} /\ timed' = timed
        /\ pc'[t] \in {"pop", "idle"} \/ (pc'[t] = "lock" /\ ~timed[t])
    BY <1>9 DEF Unlock, BumpUnlock, CallUnlocked, ClearLocked
  <2> QED
    BY <2>1 DEF Leaves
<1>10. CASE CallBump(t) \/ PopTail(t) \/ TakeData(t) \/ Wake(t)
  <2>1. \/ pc[t] = "own" /\ pc'[t] = "bump"
        \/ pc[t] = "pop" /\ pc'[t] = "take"
        \/ pc[t] = "take" /\ pc'[t] = "wake"
        \/ pc[t] = "wake" /\ pc'[t] = "clear_wait"
    BY <1>10 DEF CallBump, PopTail, TakeTail, TakeData, Taking, Wake
  <2> QED
    BY <2>1 DEF Kept
<1>11. CASE PopEmpty(t) \/ ClearWait(t)
  <2>1. pc[t] \in {"pop", "clear_wait"} /\ pc'[t] \in {"idle", "lock"}
    BY <1>11, <1>g DEF PopEmpty, ClearWait
  <2> QED
    BY <2>1 DEF Kept, Asks
<1> QED
  BY <1>1, <1>2, <1>3, <1>4, <1>5, <1>6, <1>7, <1>8, <1>9, <1>10, <1>11
  DEF Inner, ThreadOnly, Anybody, TaskOnly

LEMMA GuardsStep ==
  ASSUME NoUnlockFair
  PROVE  MutexInv /\ MutexInv' /\ [MutexNext]_mutexVars =>
           [Guards!AbsNext \/ unwound']_(Guards!absVars)
<1> SUFFICES ASSUME MutexInv, MutexInv', [MutexNext]_mutexVars, ~unwound'
             PROVE  Guards!AbsNext \/ UNCHANGED <<GuardOwner, Wish>>
  BY DEF Guards!absVars
<1>i. MutexVarsOK /\ Core /\ MutexVarsOK' /\ Core'
  BY DEF MutexInv
<1>s. CASE UNCHANGED mutexVars
  BY <1>s DEF mutexVars, vars, GuardOwner, GuardOwners, Owners, Handed, Wish, Want, InLock
<1>t. ASSUME NEW t \in Threads, MutexStep(t)
      PROVE  Guards!AbsNext \/ UNCHANGED <<GuardOwner, Wish>>
  <2>1. /\ unwound' = unwound
        /\ Inner(t) \/ ClosureEnds(t) \/ CallUnlocked(t)
    BY <1>t DEF MutexStep, Watch
  <2>2. Facts /\ Facts'
    BY <1>i, <2>1 DEF Facts
  <2>3. Alone(t) /\ Allowed(t)
    BY <1>i, <2>1, AloneStep, AllowedStep
  <2> QED
    BY <2>2, <2>3, GuardAllowed
<1> QED
  BY <1>i, <1>s, <1>t, MutexSteps DEF Core

LEMMA GuardsInit == MutexInit => Guards!AbsInit
<1> SUFFICES ASSUME MutexInit PROVE Guards!AbsInit
  OBVIOUS
<1>1. GuardOwners = {} /\ Owners = {}
  BY DEF MutexInit, Init, GuardOwners, Owners, Handed, Holding
<1>2. \A t \in Threads : ~InLock(t) /\ pc[t] # "try"
  BY DEF MutexInit, Init, InLock, Waiting
<1> QED
  BY <1>1, <1>2 DEF Guards!AbsInit, GuardOwner, Wish, Want

\* Without unlock_fair(), a Mutex that threads and tasks share implements
\* AbstractLock until a closure panics: a poll is ready only for the one owner,
\* and a future that is dropped just gives up.
THEOREM MutexGuardsImplement ==
  ASSUME NoUnlockFair
  PROVE  MutexSpec => GuardsImplement
BY GuardsInit, GuardsStep, MutexInvariant, PTL DEF MutexSpec, GuardsImplement
=============================================================================
