--------------------------- MODULE RawMutexProofs ---------------------------
(* Safety of RawMutex for any number of threads.  Types, the list, the     *)
(* list lock and the WAIT bit are right for every mix of operations; the   *)
(* rest needs the restrictions on Calls that each theorem names.           *)
EXTENDS RawMutex, WaitQueueProofs

USE RawMutexAssumption
-----------------------------------------------------------------------------
(* Types, for every mix of operations.                                     *)

OnList == {t \in Threads : on_list[t]}

\* The list holds exactly the nodes that think they are on it.  A store of a
\* waker that is late may raise the flag of a node on the list, hence
\* "take_fair".
QueueShape ==
  /\ Lists(queue, OnList, Threads)
  /\ \A t \in Threads : on_list[t] => pc[t] \in {"park", "take_fair", "remove"}

\* A step that leaves the list alone.
LEMMA ShapeFrame ==
  ASSUME QueueShape, NEW t \in Threads, UNCHANGED <<queue, on_list>>,
         \A u \in Threads \ {t} : pc'[u] = pc[u],
         on_list[t] => pc'[t] \in {"park", "take_fair", "remove"}
  PROVE  QueueShape'
BY DEF QueueShape, OnList

\* Unlinking the tail.
LEMMA ShapeTake ==
  ASSUME TypeOK, QueueShape, NEW t \in Threads, NEW l \in Locations,
         TakeTail(t, l), ~on_list[t]
  PROVE  QueueShape'
<1>1. /\ Head(queue) \in Threads
      /\ Lists(Tail(queue), OnList \ {Head(queue)}, Threads)
  BY ListsTail DEF QueueShape, TakeTail
<1>2. OnList' = OnList \ {Head(queue)}
  BY <1>1 DEF TakeTail, OnList, TypeOK
<1>3. /\ \A u \in Threads \ {t} : pc'[u] = pc[u]
      /\ \A u \in Threads : on_list'[u] => on_list[u]
  BY <1>1 DEF TakeTail, Goto, TypeOK
<1>4. \A u \in Threads : on_list'[u] => pc'[u] \in {"park", "take_fair", "remove"}
  BY <1>3 DEF QueueShape
<1> QED
  BY <1>1, <1>2, <1>4 DEF QueueShape, TakeTail

\* Every step preserves the shape of the list.
LEMMA ShapeStep == TypeOK /\ QueueShape /\ [Next]_vars => QueueShape'
<1> SUFFICES ASSUME TypeOK, QueueShape, [Next]_vars PROVE QueueShape'
  OBVIOUS
<1>0. \A t \in Threads :
        pc[t] \notin {"park", "take_fair", "remove"} => ~on_list[t]
  BY DEF QueueShape
<1>1. ASSUME NEW t \in Threads,
             CallLock(t) \/ CallTryLockFor(t) \/ CallTryLock(t) \/ CallBump(t)
               \/ LockTry(t) \/ EnterPush(t) \/ SleepAcquire(t) \/ SleepMark(t)
               \/ SleepPanic(t) \/ TryLock(t) \/ CallUnlockFair(t) \/ PopEmpty(t)
               \/ FairEmpty(t) \/ HandOver(t) \/ TakeData(t)
      PROVE  QueueShape'
  <2>1. /\ UNCHANGED <<queue, on_list>> /\ ~on_list[t]
        /\ \A u \in Threads \ {t} : pc'[u] = pc[u]
    BY <1>1, <1>0 DEF CallLock, CallTryLockFor, CallTryLock, CallBump, LockTry,
         EnterPush, SleepAcquire, SleepMark, SleepPanic, TryLock, CallUnlockFair,
         PopEmpty, FairEmpty, HandOver, TakeData, Taking, Goto, TypeOK
  <2> QED
    BY <2>1, ShapeFrame
<1>2. ASSUME NEW t \in Threads,
             Unlock(t) \/ BumpUnlock(t) \/ Wake(t) \/ ClearWait(t) \/ FairWake(t)
      PROVE  QueueShape'
  <2>1. /\ UNCHANGED <<queue, on_list>> /\ ~on_list[t]
        /\ \A u \in Threads \ {t} : pc'[u] = pc[u]
    BY <1>2, <1>0 DEF Unlock, BumpUnlock, ClearLocked, Wake, ClearWait, FairWake,
         Goto, TypeOK
  <2> QED
    BY <2>1, ShapeFrame
<1>3. ASSUME NEW t \in Threads, Woken(t) \/ TakeFair(t) \/ ParkTimeout(t)
      PROVE  QueueShape'
  <2>1. /\ UNCHANGED <<queue, on_list>>
        /\ \A u \in Threads \ {t} : pc'[u] = pc[u]
        /\ on_list[t] => pc'[t] \in {"take_fair", "remove"}
    BY <1>3 DEF Woken, TakeFair, ParkTimeout, LeaveFrame, Goto, TypeOK
  <2> QED
    BY <2>1, ShapeFrame
<1>4. ASSUME NEW t \in Threads, SleepPush(t) PROVE QueueShape'
  <2>1. t \notin OnList
    BY <1>4, <1>0 DEF SleepPush, OnList
  <2>2. Lists(queue', OnList \cup {t}, Threads)
    BY <2>1, <1>4, ListsAppend DEF SleepPush, QueueShape
  <2>3. OnList' = OnList \cup {t}
    BY <1>4 DEF SleepPush, OnList, TypeOK
  <2>4. \A u \in Threads : on_list'[u] => pc'[u] \in {"park", "take_fair", "remove"}
    BY <1>4 DEF SleepPush, Goto, TypeOK, QueueShape
  <2> QED
    BY <2>2, <2>3, <2>4 DEF QueueShape
<1>5. ASSUME NEW t \in Threads, RemoveNode(t) PROVE QueueShape'
  <2>1. OnList' = OnList \ {t}
    BY <1>5 DEF RemoveNode, OnList, TypeOK
  <2>2. Lists(queue', OnList \ {t}, Threads)
    <3>1. CASE on_list[t]
      <4>1. queue' = Unlink(queue, t) /\ t \in OnList
        BY <3>1, <1>5 DEF RemoveNode, OnList
      <4> QED
        BY <4>1, ListsUnlink DEF QueueShape
    <3>2. CASE ~on_list[t]
      <4>1. queue' = queue /\ OnList \ {t} = OnList
        BY <3>2, <1>5 DEF RemoveNode, OnList
      <4> QED
        BY <4>1 DEF QueueShape
    <3> QED
      BY <3>1, <3>2
  <2>3. \A u \in Threads : on_list'[u] => pc'[u] \in {"park", "take_fair", "remove"}
    BY <1>5 DEF RemoveNode, Goto, TypeOK, QueueShape
  <2> QED
    BY <2>1, <2>2, <2>3 DEF QueueShape
<1>6. ASSUME NEW t \in Threads, PopTail(t) \/ FairPop(t) PROVE QueueShape'
  <2>1. ~on_list[t] /\ \E l \in Locations : TakeTail(t, l)
    BY <1>6, <1>0 DEF PopTail, FairPop, Locations
  <2> QED
    BY <2>1, ShapeTake
<1>7. CASE UNCHANGED vars
  BY <1>7 DEF vars, QueueShape, OnList
<1> QED
  BY <1>1, <1>2, <1>3, <1>4, <1>5, <1>6, <1>7 DEF Next, Call, Step, Contend, Release, Undefined

\* TypeOK but for the list, whose type follows from its shape.
VarsOK ==
  /\ state \subseteq Bits
  /\ list_lock \in Threads \cup {Null}
  /\ on_list \in [Threads -> BOOLEAN]
  /\ flag \in [Threads -> BOOLEAN]
  /\ timed \in [Threads -> BOOLEAN]
  /\ target \in [Threads -> Threads \cup {Null}]
  /\ stale \subseteq Threads
  /\ goal \in [Threads -> {"idle", "lock", "own"}]
  /\ pc \in [Threads -> Locations]

\* Every step preserves type correctness.
LEMMA TypeStep == TypeOK /\ QueueShape /\ [Next]_vars => TypeOK'
<1> SUFFICES ASSUME TypeOK, QueueShape, [Next]_vars PROVE TypeOK'
  OBVIOUS
<1>q. \E n \in 0..Cardinality(Threads) : queue' \in [1..n -> Threads]
  <2>1. Lists(queue', OnList', Threads)
    BY ShapeStep DEF QueueShape
  <2> QED
    BY <2>1, ListsBound
<1>h. queue # <<>> => Head(queue) \in Threads
  BY ListsTail DEF QueueShape
<1>v. VarsOK /\ (VarsOK' => TypeOK')
  BY <1>q DEF VarsOK, TypeOK
<1> SUFFICES VarsOK'
  BY <1>v
<1> USE DEF VarsOK, Locations, Bits, Goto
<1> USE <1>v
<1>1. ASSUME NEW t \in Threads,
             CallLock(t) \/ CallTryLockFor(t) \/ CallTryLock(t) \/ CallBump(t)
               \/ LockTry(t) \/ EnterPush(t) \/ SleepAcquire(t)
      PROVE  VarsOK'
  BY <1>1 DEF CallLock, CallTryLockFor, CallTryLock, CallBump, LockTry,
       EnterPush, SleepAcquire
<1>2. ASSUME NEW t \in Threads,
             SleepMark(t) \/ SleepPush(t) \/ SleepPanic(t) \/ TryLock(t)
               \/ CallUnlockFair(t) \/ FairEmpty(t) \/ HandOver(t) \/ TakeData(t)
      PROVE  VarsOK'
  BY <1>2 DEF SleepMark, SleepPush, SleepPanic, TryLock, CallUnlockFair,
       FairEmpty, HandOver, TakeData
<1>3. ASSUME NEW t \in Threads, Unlock(t) \/ BumpUnlock(t) PROVE VarsOK'
  BY <1>3 DEF Unlock, BumpUnlock, ClearLocked
<1>4. ASSUME NEW t \in Threads, Woken(t) \/ TakeFair(t) \/ ParkTimeout(t)
      PROVE  VarsOK'
  BY <1>4 DEF Woken, TakeFair, ParkTimeout, LeaveFrame
<1>5. ASSUME NEW t \in Threads, RemoveNode(t) \/ PopEmpty(t) \/ ClearWait(t)
      PROVE  VarsOK'
  <2>1. CASE RemoveNode(t)
    BY <2>1 DEF RemoveNode
  <2>2. CASE PopEmpty(t)
    BY <2>2 DEF PopEmpty
  <2>3. CASE ClearWait(t)
    BY <2>3 DEF ClearWait
  <2> QED
    BY <1>5, <2>1, <2>2, <2>3
<1>6. ASSUME NEW t \in Threads, PopTail(t) \/ FairPop(t) PROVE VarsOK'
  <2>1. CASE PopTail(t)
    BY <2>1, <1>h DEF PopTail, TakeTail
  <2>2. CASE FairPop(t)
    BY <2>2, <1>h DEF FairPop, TakeTail
  <2> QED
    BY <1>6, <2>1, <2>2
<1>7. ASSUME NEW t \in Threads, Wake(t) \/ FairWake(t) PROVE VarsOK'
  BY <1>7 DEF Wake, FairWake, UseWaker
<1>8. CASE UNCHANGED vars
  BY <1>8 DEF vars, VarsOK
<1> QED
  BY <1>1, <1>2, <1>3, <1>4, <1>5, <1>6, <1>7, <1>8 DEF Next, Call, Step, Contend, Release, Undefined

\* The first state.
LEMMA ShapeInit == Init => TypeOK /\ QueueShape
<1> SUFFICES ASSUME Init PROVE TypeOK /\ QueueShape
  OBVIOUS
<1>1. QueueShape
  BY DEF Init, QueueShape, Lists, OnList
<1>2. \E n \in 0..Cardinality(Threads) : queue \in [1..n -> Threads]
  BY <1>1, ListsBound DEF QueueShape
<1> QED
  BY <1>1, <1>2 DEF Init, TypeOK, Locations, Bits

\* Every variable keeps its type whatever operations are mixed: in
\* particular the list never holds more nodes than there are threads.
THEOREM RawMutexTypeCorrect == Spec => []TypeOK
BY ShapeInit, ShapeStep, TypeStep, PTL DEF Spec
-----------------------------------------------------------------------------
(* The list lock and the WAIT bit, for every mix of operations.            *)

UnderListLock ==
  {"sleep", "take", "wake", "clear_wait", "fair_take", "hand_over", "fair_wake"}

\* Who works under the list lock holds it, and its holder works under it.
ListLocked == \A t \in Threads : pc[t] \in UnderListLock <=> list_lock = t

\* A step that leaves the lock alone.
LEMMA ListLockFrame ==
  ASSUME ListLocked, NEW t \in Threads, UNCHANGED list_lock,
         \A u \in Threads \ {t} : pc'[u] = pc[u],
         pc'[t] \in UnderListLock <=> pc[t] \in UnderListLock
  PROVE  ListLocked'
BY DEF ListLocked

\* Every step preserves this.
LEMMA ListLockStep == TypeOK /\ ListLocked /\ [Next]_vars => ListLocked'
<1> SUFFICES ASSUME TypeOK, ListLocked, [Next]_vars PROVE ListLocked'
  OBVIOUS
<1> USE DEF UnderListLock, Goto, TypeOK
<1>1. ASSUME NEW t \in Threads,
             CallLock(t) \/ CallTryLockFor(t) \/ CallTryLock(t) \/ CallBump(t)
               \/ LockTry(t) \/ SleepMark(t) \/ TryLock(t) \/ CallUnlockFair(t)
               \/ FairEmpty(t) \/ HandOver(t) \/ TakeData(t)
      PROVE  ListLocked'
  <2>1. /\ UNCHANGED list_lock /\ \A u \in Threads \ {t} : pc'[u] = pc[u]
        /\ pc'[t] \in UnderListLock <=> pc[t] \in UnderListLock
    BY <1>1 DEF CallLock, CallTryLockFor, CallTryLock, CallBump, LockTry, SleepMark,
         TryLock, CallUnlockFair, FairEmpty, HandOver, TakeData, Taking
  <2> QED
    BY <2>1, ListLockFrame
<1>2. ASSUME NEW t \in Threads, Unlock(t) \/ BumpUnlock(t) \/ PopEmpty(t) \/ Wake(t)
      PROVE  ListLocked'
  <2>1. /\ UNCHANGED list_lock /\ \A u \in Threads \ {t} : pc'[u] = pc[u]
        /\ pc'[t] \in UnderListLock <=> pc[t] \in UnderListLock
    BY <1>2 DEF Unlock, BumpUnlock, ClearLocked, PopEmpty, Wake
  <2> QED
    BY <2>1, ListLockFrame
<1>3. ASSUME NEW t \in Threads,
             Woken(t) \/ TakeFair(t) \/ ParkTimeout(t) \/ RemoveNode(t)
      PROVE  ListLocked'
  <2>1. /\ UNCHANGED list_lock /\ \A u \in Threads \ {t} : pc'[u] = pc[u]
        /\ pc'[t] \in UnderListLock <=> pc[t] \in UnderListLock
    BY <1>3 DEF Woken, TakeFair, ParkTimeout, RemoveNode, LeaveFrame
  <2> QED
    BY <2>1, ListLockFrame
<1>4. ASSUME NEW t \in Threads, EnterPush(t) \/ PopTail(t) \/ FairPop(t)
      PROVE  ListLocked'
  <2>1. /\ list_lock = Null /\ list_lock' = t
        /\ \A u \in Threads \ {t} : pc'[u] = pc[u]
        /\ pc'[t] \in UnderListLock
    BY <1>4 DEF EnterPush, PopTail, FairPop, TakeTail
  <2> QED
    BY <2>1, RawMutexAssumption DEF ListLocked
<1>5. ASSUME NEW t \in Threads,
             SleepAcquire(t) \/ SleepPush(t) \/ SleepPanic(t) \/ ClearWait(t)
               \/ FairWake(t)
      PROVE  ListLocked'
  <2>1. /\ pc[t] \in UnderListLock /\ list_lock' = Null
        /\ \A u \in Threads \ {t} : pc'[u] = pc[u]
        /\ pc'[t] \notin UnderListLock
    BY <1>5 DEF SleepAcquire, SleepPush, SleepPanic, ClearWait, FairWake
  <2> QED
    BY <2>1, RawMutexAssumption DEF ListLocked
<1>6. CASE UNCHANGED vars
  BY <1>6 DEF vars, ListLocked
<1> QED
  BY <1>1, <1>2, <1>3, <1>4, <1>5, <1>6 DEF Next, Call, Step, Contend, Release, Undefined

\* A step that clears no WAIT bit and fills the list only under one.
LEMMA WaitFrame ==
  ASSUME WaitBitCovers, NEW t \in Threads,
         "WAIT" \in state => "WAIT" \in state',
         queue' # <<>> => queue # <<>> \/ "WAIT" \in state,
         \A u \in Threads \ {t} : pc'[u] = pc[u],
         pc'[t] \in Taking \cup {"wake", "hand_over"} => "WAIT" \in state
  PROVE  WaitBitCovers'
BY DEF WaitBitCovers

\* The WAIT bit is set before anybody is queued, under the list lock, and
\* cleared under it when nobody is left.
LEMMA WaitStep ==
  TypeOK /\ QueueShape /\ ListLocked /\ WaitBitCovers /\ [Next]_vars => WaitBitCovers'
<1> SUFFICES ASSUME TypeOK, QueueShape, ListLocked, WaitBitCovers, [Next]_vars
             PROVE  WaitBitCovers'
  OBVIOUS
<1> USE DEF Goto, TypeOK, Taking
<1>1. ASSUME NEW t \in Threads,
             CallLock(t) \/ CallTryLockFor(t) \/ CallTryLock(t) \/ CallBump(t)
               \/ LockTry(t) \/ EnterPush(t) \/ SleepAcquire(t) \/ SleepMark(t)
               \/ SleepPanic(t) \/ TryLock(t) \/ CallUnlockFair(t) \/ FairEmpty(t)
      PROVE  WaitBitCovers'
  <2>1. /\ "WAIT" \in state => "WAIT" \in state'
        /\ UNCHANGED queue /\ \A u \in Threads \ {t} : pc'[u] = pc[u]
        /\ pc'[t] \notin Taking \cup {"wake", "hand_over"}
    BY <1>1 DEF CallLock, CallTryLockFor, CallTryLock, CallBump, LockTry, EnterPush,
         SleepAcquire, SleepMark, SleepPanic, TryLock, CallUnlockFair, FairEmpty
  <2> QED
    BY <2>1, WaitFrame
<1>2. ASSUME NEW t \in Threads,
             Unlock(t) \/ BumpUnlock(t) \/ PopEmpty(t) \/ Wake(t) \/ FairWake(t)
               \/ Woken(t) \/ TakeFair(t) \/ ParkTimeout(t)
      PROVE  WaitBitCovers'
  <2>1. /\ "WAIT" \in state => "WAIT" \in state'
        /\ UNCHANGED queue /\ \A u \in Threads \ {t} : pc'[u] = pc[u]
        /\ pc'[t] \notin Taking \cup {"wake", "hand_over"}
    BY <1>2 DEF Unlock, BumpUnlock, ClearLocked, PopEmpty, Wake, FairWake, Woken,
         TakeFair, ParkTimeout, LeaveFrame
  <2> QED
    BY <2>1, WaitFrame
<1>3. ASSUME NEW t \in Threads, SleepPush(t) PROVE WaitBitCovers'
  BY <1>3, WaitFrame DEF SleepPush
<1>4. ASSUME NEW t \in Threads, RemoveNode(t) PROVE WaitBitCovers'
  <2>1. on_list[t] => queue # <<>>
    BY DEF QueueShape, Lists, OnList
  <2> QED
    BY <2>1, <1>4, WaitFrame DEF RemoveNode
<1>5. ASSUME NEW t \in Threads, PopTail(t) \/ FairPop(t) \/ TakeData(t) PROVE WaitBitCovers'
  <2>1. /\ UNCHANGED state
        /\ queue # <<>> \/ (pc[t] \in Taking /\ UNCHANGED queue)
        /\ \A u \in Threads \ {t} : pc'[u] = pc[u]
    BY <1>5 DEF PopTail, FairPop, TakeTail, TakeData
  <2>2. "WAIT" \in state
    BY <2>1 DEF WaitBitCovers
  <2> QED
    BY <2>1, <2>2, WaitFrame
<1>6. ASSUME NEW t \in Threads, ClearWait(t) \/ HandOver(t) PROVE WaitBitCovers'
  <2>1. \A u \in Threads \ {t} : pc[u] \notin Taking \cup {"wake", "hand_over"}
    BY <1>6 DEF ClearWait, HandOver, ListLocked, UnderListLock
  <2>2. /\ UNCHANGED queue /\ \A u \in Threads \ {t} : pc'[u] = pc[u]
        /\ pc'[t] \notin Taking \cup {"wake", "hand_over"}
    BY <1>6 DEF ClearWait, HandOver
  <2>3. queue # <<>> => "WAIT" \in state'
    BY <1>6 DEF ClearWait, HandOver, WaitBitCovers
  <2> QED
    BY <2>1, <2>2, <2>3 DEF WaitBitCovers
<1>7. CASE UNCHANGED vars
  BY <1>7 DEF vars, WaitBitCovers
<1> QED
  BY <1>1, <1>2, <1>3, <1>4, <1>5, <1>6, <1>7 DEF Next, Call, Step, Contend, Release, Undefined

\* Only tasks poll, and Mutex.tla brings them in.
NoPolls == \A t \in Threads : pc[t] # "poll"

LEMMA NoPollsStep == TypeOK /\ NoPolls /\ [Next]_vars => NoPolls'
<1> SUFFICES ASSUME TypeOK, NoPolls, [Next]_vars PROVE NoPolls'
  OBVIOUS
<1> USE DEF NoPolls, TypeOK, Goto
<1>1. ASSUME NEW t \in Threads,
             Call(t) \/ LockTry(t) \/ Contend(t) \/ TryLock(t) \/ SleepPanic(t)
      PROVE  NoPolls'
  BY <1>1 DEF Call, CallLock, CallTryLockFor, CallTryLock, CallBump, LockTry, Contend,
     EnterPush, SleepAcquire, SleepMark, SleepPush, TryLock, SleepPanic
<1>2. ASSUME NEW t \in Threads, Woken(t) \/ TakeFair(t) \/ RemoveNode(t) \/ ParkTimeout(t)
      PROVE  NoPolls'
  BY <1>2 DEF Woken, TakeFair, RemoveNode, ParkTimeout, LeaveFrame
<1>3. ASSUME NEW t \in Threads, Release(t) PROVE NoPolls'
  BY <1>3 DEF Release, Unlock, BumpUnlock, ClearLocked, PopEmpty, PopTail, TakeTail, TakeData,
     Wake, ClearWait, CallUnlockFair, FairEmpty, FairPop, HandOver, FairWake
<1>4. CASE UNCHANGED vars
  BY <1>4 DEF vars
<1> QED
  BY <1>1, <1>2, <1>3, <1>4 DEF Next, Step, Undefined

\* What holds whatever operations are mixed.
MixedInv == TypeOK /\ QueueShape /\ ListLocked /\ WaitBitCovers /\ NoPolls

LEMMA MixedInit == Init => MixedInv
BY ShapeInit, RawMutexAssumption
   DEF Init, MixedInv, ListLocked, UnderListLock, WaitBitCovers, Taking, NoPolls

LEMMA MixedStep == MixedInv /\ [Next]_vars => MixedInv'
BY ShapeStep, TypeStep, ListLockStep, WaitStep, NoPollsStep DEF MixedInv

LEMMA MixedInvariant == Spec => []MixedInv
BY MixedInit, MixedStep, PTL DEF Spec

\* Whatever operations are mixed, and although unlock() and unlock_fair() may
\* then meet: a list that is not empty is covered by the WAIT bit, so that no
\* unlock() passes over a waiter, and the bit is still set when the last waiter
\* is woken or handed the mutex, as the debug_assert of unlock_fair() says.
THEOREM RawMutexWaitBit == Spec => []WaitBitCovers
<1>1. MixedInv => WaitBitCovers
  BY DEF MixedInv
<1> QED
  BY <1>1, MixedInvariant, PTL
-----------------------------------------------------------------------------
(* The queue is the list that AbstractList describes and IntrusiveList is  *)
(* shown to implement: for every mix of operations, until a pop is torn.   *)

\* Whoever is in the middle of a pop is taking a node off the list.
Given ==
  IF \E t \in Threads : pc[t] \in Taking
    THEN <<"tail", target[CHOOSE t \in Threads : pc[t] \in Taking]>>
    ELSE <<>>

Sequence ==
  INSTANCE AbstractList
    WITH Nodes <- Threads, None <- <<>>, items <- Reversed(queue), given <- Given,
         there <- HasNode

\* Only one thread pops at a time.
LEMMA OnePopper ==
  ASSUME ListLocked
  PROVE  /\ \A t \in Threads : pc[t] \in Taking => Given = <<"tail", target[t]>>
         /\ (\A t \in Threads : pc[t] \notin Taking) => Given = <<>>
BY DEF ListLocked, UnderListLock, Taking, Given

LEMMA OnePopperNext ==
  ASSUME ListLocked'
  PROVE  /\ \A t \in Threads : pc'[t] \in Taking => Given' = <<"tail", target'[t]>>
         /\ (\A t \in Threads : pc'[t] \notin Taking) => Given' = <<>>
BY DEF ListLocked, UnderListLock, Taking, Given

\* A step that neither begins nor ends a pop.
LEMMA GivenFrame ==
  ASSUME ListLocked, ListLocked', NEW t \in Threads,
         \A u \in Threads \ {t} : pc'[u] = pc[u],
         \A u \in Threads : pc[u] \in Taking => target'[u] = target[u],
         pc'[t] \in Taking <=> pc[t] \in Taking
  PROVE  Given' = Given
<1>1. CASE \E u \in Threads : pc[u] \in Taking
  BY <1>1, OnePopper, OnePopperNext
<1>2. CASE \A u \in Threads : pc[u] \notin Taking
  BY <1>2, OnePopper, OnePopperNext
<1> QED
  BY <1>1, <1>2

\* Who is not on the list is not in the sequence either.
LEMMA NotListed ==
  ASSUME Lists(queue, OnList, Threads), NEW t \in Threads, ~on_list[t]
  PROVE  \A i \in DOMAIN Reversed(queue) : Reversed(queue)[i] # t
<1>1. queue \in Seq(Threads) /\ \A i \in 1..Len(queue) : queue[i] # t
  BY DEF Lists, OnList
<1>2. /\ DOMAIN Reversed(queue) = 1..Len(queue)
      /\ \A i \in 1..Len(queue) : Reversed(queue)[i] = queue[Len(queue) + 1 - i]
  BY <1>1, ReversedType
<1>3. \A i \in 1..Len(queue) : Len(queue) + 1 - i \in 1..Len(queue)
  BY <1>1
<1> QED
  BY <1>1, <1>2, <1>3

\* The steps that change the list, as the sequence has them.
LEMMA PushesFront ==
  ASSUME VarsOK, ListLocked, ListLocked', Lists(queue, OnList, Threads),
         NEW t \in Threads, SleepPush(t)
  PROVE  Reversed(queue') = <<t>> \o Reversed(queue) /\ Given' = Given
<1>1. queue \in Seq(Threads)
  BY DEF Lists
<1>2. Given' = Given
  BY GivenFrame DEF SleepPush, VarsOK, Goto, Taking
<1> QED
  BY <1>1, <1>2, ReversedAppend DEF SleepPush

LEMMA TakesBack ==
  ASSUME VarsOK, ListLocked, ListLocked', Lists(queue, OnList, Threads),
         NEW t \in Threads, PopTail(t) \/ FairPop(t)
  PROVE  LET r == Reversed(queue) IN
           /\ r # <<>> /\ Given = <<>> /\ Given' = <<"tail", r[Len(r)]>>
           /\ Reversed(queue') = SubSeq(r, 1, Len(r) - 1)
<1>1. /\ list_lock = Null /\ queue # <<>> /\ queue' = Tail(queue)
      /\ pc'[t] \in Taking /\ target'[t] = Head(queue)
  BY DEF PopTail, FairPop, TakeTail, VarsOK, Goto, Taking
<1>2. Given = <<>> /\ Given' = <<"tail", Head(queue)>>
  <2>1. \A u \in Threads : pc[u] \notin Taking
    BY <1>1, RawMutexAssumption DEF ListLocked, UnderListLock, Taking
  <2> QED
    BY <2>1, <1>1, OnePopper, OnePopperNext
<1> QED
  BY <1>1, <1>2, ReversedTail DEF Lists

LEMMA Delivers ==
  ASSUME VarsOK, ListLocked, ListLocked', NEW t \in Threads, TakeData(t)
  PROVE  Given # <<>> /\ Given' = <<>> /\ UNCHANGED queue
<1>1. /\ pc[t] \in Taking /\ pc'[t] \notin Taking /\ UNCHANGED queue
      /\ \A u \in Threads \ {t} : pc'[u] = pc[u]
  BY DEF TakeData, VarsOK, Goto, Taking
<1>2. Given = <<"tail", target[t]>> /\ \A u \in Threads : pc'[u] \notin Taking
  BY <1>1, OnePopper DEF ListLocked, UnderListLock, Taking
<1>3. Given' = <<>> /\ Len(Given) = 2
  BY <1>2, OnePopperNext
<1> QED
  BY <1>1, <1>3

LEMMA Withdraws ==
  ASSUME Lists(queue, OnList, Threads), NEW t \in Threads, on_list[t],
         queue' = Unlink(queue, t)
  PROVE  LET r == Reversed(queue) IN
           \E i \in DOMAIN r :
             /\ r[i] = t
             /\ Reversed(queue') =
                  [j \in 1..(Len(r) - 1) |-> IF j < i THEN r[j] ELSE r[j + 1]]
<1>1. t \in OnList
  BY DEF OnList
<1> QED
  BY <1>1, ReversedUnlink

\* Whose node is being taken off the list tears the pop if it goes away.
LEMMA DropTears ==
  ASSUME ListLocked, NEW t \in Threads, UNCHANGED target, pc[t] \notin Taking,
         \A u \in Threads \ {t} : pc'[u] = pc[u], Given # <<>>, Given[2] = t
  PROVE  \E p \in Threads : pc'[p] \in Taking /\ target'[p] = t
<1>1. PICK p \in Threads : pc[p] \in Taking
  BY OnePopper
<1>2. Given = <<"tail", target[p]>> /\ p # t
  BY <1>1, OnePopper
<1> QED
  BY <1>1, <1>2

\* A thread leaves that is not on the list.
LEMMA Discards ==
  ASSUME MixedInv, MixedInv', NEW t \in Threads, ~on_list[t], UNCHANGED <<queue, target>>,
         \A u \in Threads \ {t} : pc'[u] = pc[u],
         pc[t] \in {"park", "take_fair", "remove"}, t \notin HasNode',
         pc'[t] \notin Taking
  PROVE  Sequence!Discard(t) \/ Torn'
<1>l. ListLocked /\ ListLocked' /\ Lists(queue, OnList, Threads)
  BY DEF MixedInv, QueueShape
<1>1. Given' = Given
  BY <1>l, GivenFrame DEF Taking
<1>2. HasNode' = HasNode \ {t}
  BY DEF HasNode
<1>3. t \notin Sequence!Members
  BY <1>l, NotListed DEF Sequence!Members
<1>4. Given # <<>> /\ Given[2] = t => Torn'
  BY <1>l, DropTears DEF Taking, Torn, TornWithout
<1> QED
  BY <1>1, <1>2, <1>3, <1>4 DEF Sequence!Discard

\* Every step is a step of a sequence, or tears a pop.
LEMMA UsesListStep ==
  MixedInv /\ MixedInv' /\ [Next]_vars => [Sequence!AbsNext \/ Torn']_(Sequence!absVars)
<1> SUFFICES ASSUME MixedInv, MixedInv', [Next]_vars
             PROVE  \/ Sequence!AbsNext \/ Torn'
                    \/ UNCHANGED <<Reversed(queue), Given, HasNode>>
  BY DEF Sequence!absVars
<1>l. ListLocked /\ ListLocked' /\ Lists(queue, OnList, Threads)
  BY DEF MixedInv, QueueShape
<1> USE DEF Goto, Taking
<1>v. VarsOK
  BY DEF MixedInv, TypeOK, VarsOK
\* A step that neither changes the list nor pops, nor makes or drops a node.
<1>f. ASSUME NEW t \in Threads, UNCHANGED queue,
             \A u \in Threads : pc[u] \in Taking => target'[u] = target[u],
             \A u \in Threads \ {t} : pc'[u] = pc[u],
             pc'[t] \in Taking <=> pc[t] \in Taking,
             pc'[t] \in {"park", "take_fair", "remove"} <=>
               pc[t] \in {"park", "take_fair", "remove"}
      PROVE  UNCHANGED <<Reversed(queue), Given, HasNode>>
  <2>1. Given' = Given
    BY <1>f, <1>l, GivenFrame
  <2> QED
    BY <1>f, <2>1 DEF HasNode
<1>1. ASSUME NEW t \in Threads,
             CallLock(t) \/ CallTryLockFor(t) \/ CallTryLock(t) \/ CallBump(t)
               \/ LockTry(t) \/ EnterPush(t) \/ SleepAcquire(t) \/ SleepMark(t)
               \/ SleepPanic(t) \/ TryLock(t) \/ CallUnlockFair(t) \/ FairEmpty(t)
               \/ HandOver(t)
      PROVE  UNCHANGED <<Reversed(queue), Given, HasNode>>
  <2>1. /\ UNCHANGED <<queue, target>> /\ \A u \in Threads \ {t} : pc'[u] = pc[u]
        /\ pc'[t] \in Taking <=> pc[t] \in Taking
        /\ pc'[t] \notin {"park", "take_fair", "remove"}
        /\ pc[t] \notin {"park", "take_fair", "remove"}
    BY <1>1, <1>v DEF CallLock, CallTryLockFor, CallTryLock, CallBump, LockTry, EnterPush,
         SleepAcquire, SleepMark, SleepPanic, TryLock, CallUnlockFair, FairEmpty, HandOver,
         VarsOK
  <2> QED
    BY <2>1, <1>f
<1>2. ASSUME NEW t \in Threads,
             Unlock(t) \/ BumpUnlock(t) \/ Wake(t) \/ FairWake(t)
      PROVE  UNCHANGED <<Reversed(queue), Given, HasNode>>
  <2>1. /\ UNCHANGED queue /\ \A u \in Threads \ {t} : pc'[u] = pc[u]
        /\ \A u \in Threads \ {t} : target'[u] = target[u]
        /\ pc'[t] \notin Taking /\ pc[t] \notin Taking
        /\ pc'[t] \notin {"park", "take_fair", "remove"}
        /\ pc[t] \notin {"park", "take_fair", "remove"}
    BY <1>2, <1>v DEF Unlock, BumpUnlock, ClearLocked, Wake, FairWake, UseWaker, VarsOK
  <2> QED
    BY <2>1, <1>f
<1>3. ASSUME NEW t \in Threads, PopEmpty(t) \/ ClearWait(t)
      PROVE  UNCHANGED <<Reversed(queue), Given, HasNode>>
  <2>1. /\ UNCHANGED <<queue, target>> /\ \A u \in Threads \ {t} : pc'[u] = pc[u]
        /\ pc[t] \in {"pop", "clear_wait"} /\ pc'[t] \in {"idle", "lock", "own"}
    BY <1>3, <1>v DEF PopEmpty, ClearWait, VarsOK
  <2> QED
    BY <2>1, <1>f
<1>4. ASSUME NEW t \in Threads, Woken(t) \/ TakeFair(t) \/ ParkTimeout(t)
      PROVE  \/ Sequence!AbsNext \/ Torn'
             \/ UNCHANGED <<Reversed(queue), Given, HasNode>>
  <2>1. /\ UNCHANGED <<queue, target>> /\ \A u \in Threads \ {t} : pc'[u] = pc[u]
        /\ pc[t] \in {"park", "take_fair"}
        /\ \/ pc'[t] \in {"take_fair", "remove"}
           \/ pc'[t] \in {"lock", "own", "idle"} /\ ~on_list[t]
    BY <1>4, <1>v DEF Woken, TakeFair, ParkTimeout, LeaveFrame, VarsOK
  <2>2. CASE pc'[t] \in {"take_fair", "remove"}
    BY <2>1, <2>2, <1>f
  <2>3. CASE pc'[t] \in {"lock", "own", "idle"} /\ ~on_list[t]
    <3>1. t \notin HasNode'
      BY <2>3 DEF HasNode
    <3>2. Sequence!Discard(t) \/ Torn'
      BY <2>1, <2>3, <3>1, Discards
    <3> QED
      BY <3>2 DEF Sequence!AbsNext
  <2> QED
    BY <2>1, <2>2, <2>3
<1>5. ASSUME NEW t \in Threads, RemoveNode(t) PROVE Sequence!AbsNext \/ Torn'
  <2>1. /\ pc[t] = "remove" /\ pc'[t] \in {"idle", "lock", "own"}
        /\ UNCHANGED target /\ \A u \in Threads \ {t} : pc'[u] = pc[u]
        /\ queue' = IF on_list[t] THEN Unlink(queue, t) ELSE queue
    BY <1>5, <1>v DEF RemoveNode, VarsOK
  <2>2. HasNode' = HasNode \ {t} /\ t \notin HasNode'
    BY <2>1 DEF HasNode
  <2>3. CASE ~on_list[t]
    <3>1. Sequence!Discard(t) \/ Torn'
      BY <2>1, <2>2, <2>3, Discards
    <3> QED
      BY <3>1 DEF Sequence!AbsNext
  <2>4. CASE on_list[t]
    <3>1. PICK i \in DOMAIN Reversed(queue) :
            /\ Reversed(queue)[i] = t
            /\ Reversed(queue') = Sequence!Without(i)
      BY <2>1, <2>4, <1>l, Withdraws DEF Sequence!Without
    <3>2. Given' = Given
      BY <2>1, <1>l, GivenFrame
    <3>3. Sequence!Withdraw(i)
      BY <2>2, <3>1, <3>2 DEF Sequence!Withdraw
    <3> QED
      BY <3>3 DEF Sequence!AbsNext
  <2> QED
    BY <2>3, <2>4
<1>6. ASSUME NEW t \in Threads, SleepPush(t) PROVE Sequence!PushFront(t)
  <2>1. /\ pc[t] = "sleep" /\ pc'[t] = "park" /\ \A u \in Threads \ {t} : pc'[u] = pc[u]
    BY <1>6, <1>v DEF SleepPush, VarsOK
  <2>2. t \notin HasNode /\ HasNode' = HasNode \cup {t}
    BY <2>1 DEF HasNode
  <2> QED
    BY <1>6, <1>l, <1>v, <2>2, PushesFront DEF Sequence!PushFront
<1>7. ASSUME NEW t \in Threads, PopTail(t) \/ FairPop(t) PROVE Sequence!TakeBack
  <2>1. HasNode' = HasNode
    BY <1>7, <1>v DEF PopTail, FairPop, TakeTail, VarsOK, HasNode
  <2> QED
    BY <1>7, <1>l, <1>v, <2>1, TakesBack DEF Sequence!TakeBack
<1>8. ASSUME NEW t \in Threads, TakeData(t) PROVE Sequence!Deliver
  <2>1. HasNode' = HasNode
    BY <1>8, <1>v DEF TakeData, VarsOK, HasNode
  <2> QED
    BY <1>8, <1>l, <1>v, <2>1, Delivers DEF Sequence!Deliver
<1>9. CASE UNCHANGED vars
  BY <1>9 DEF vars, Given, HasNode
<1> QED
  BY <1>1, <1>2, <1>3, <1>4, <1>5, <1>6, <1>7, <1>8, <1>9
     DEF Next, Call, Step, Contend, Release, Undefined, Sequence!AbsNext

LEMMA UsesListInit == Init => Sequence!AbsInit
BY DEF Init, Sequence!AbsInit, Given, HasNode, Taking, Reversed

\* Whatever operations are mixed, RawMutex uses its list as AbstractList asks
\* until a pop is torn: it never pushes a node that is still there, pops only
\* one node at a time, who leaves takes himself and nobody else out, and nobody
\* drops the node that a pop is taking off.
THEOREM RawMutexUsesList ==
  Spec => Sequence!AbsInit /\ [][Sequence!AbsNext \/ Torn']_(Sequence!absVars)
BY UsesListInit, UsesListStep, MixedInvariant, PTL DEF Spec
-----------------------------------------------------------------------------
(* Without unlock_fair(): timeouts are allowed.                            *)

NoUnlockFair == "unlock_fair" \notin Calls

\* What only unlock_fair() brings about.
NoFair ==
  /\ "FAIR" \notin state
  /\ \A t \in Threads :
       /\ pc[t] \notin {"take_fair", "fair_pop", "fair_take", "hand_over", "fair_wake"}
       /\ goal[t] # "own"

\* The LOCKED bit and the threads inside of the mutex.
Excl ==
  /\ "LOCKED" \in state <=> \E t \in Threads : pc[t] \in Holding
  /\ MutualExclusion

\* The lock() of bump() has no deadline.
BumpUntimed == \A t \in Threads : pc[t] = "bump" => ~timed[t]

\* Nothing of the handover.
UnfairStep(t) ==
  \/ CallLock(t) \/ CallTryLockFor(t) \/ CallTryLock(t) \/ CallBump(t)
  \/ LockTry(t) \/ EnterPush(t) \/ SleepAcquire(t) \/ SleepMark(t) \/ SleepPush(t)
  \/ Woken(t) \/ RemoveNode(t) \/ TryLock(t) \/ Unlock(t) \/ BumpUnlock(t)
  \/ PopEmpty(t) \/ PopTail(t) \/ TakeData(t) \/ Wake(t) \/ ClearWait(t)
  \/ ParkTimeout(t)

LEMMA UnfairNext ==
  ASSUME NoUnlockFair, NoFair, [Next]_vars
  PROVE  (\E t \in Threads : UnfairStep(t)) \/ UNCHANGED vars
BY DEF NoUnlockFair, NoFair, Next, Call, Step, Contend, Release, Undefined, UnfairStep, SleepPanic,
       TakeFair, CallUnlockFair, FairEmpty, FairPop, HandOver, FairWake

\* The parts of the invariant that need only each other.
Basics == NoFair /\ Excl /\ BumpUntimed

\* Every step preserves them.
LEMMA BasicsStep ==
  ASSUME TypeOK, Basics, NEW t \in Threads, UnfairStep(t)
  PROVE  Basics'
<1> USE DEF Basics, NoFair, Excl, MutualExclusion, Holding, BumpUntimed, Goto, TypeOK
<1>1. CASE CallLock(t)
  BY <1>1 DEF CallLock
<1>2. CASE CallTryLockFor(t)
  BY <1>2 DEF CallTryLockFor
<1>3. CASE CallTryLock(t)
  BY <1>3 DEF CallTryLock
<1>4. CASE CallBump(t)
  BY <1>4 DEF CallBump
<1>5. CASE LockTry(t)
  BY <1>5 DEF LockTry
<1>6. CASE EnterPush(t)
  BY <1>6 DEF EnterPush
<1>7. CASE SleepAcquire(t)
  BY <1>7 DEF SleepAcquire
<1>8. CASE SleepMark(t)
  BY <1>8 DEF SleepMark
<1>9. CASE SleepPush(t)
  BY <1>9 DEF SleepPush
<1>10. CASE Woken(t)
  BY <1>10 DEF Woken, LeaveFrame
<1>11. CASE RemoveNode(t)
  BY <1>11 DEF RemoveNode
<1>12. CASE TryLock(t)
  BY <1>12 DEF TryLock
<1>13. CASE Unlock(t)
  BY <1>13 DEF Unlock, ClearLocked
<1>14. CASE BumpUnlock(t)
  BY <1>14 DEF BumpUnlock, ClearLocked
<1>15. CASE PopEmpty(t)
  BY <1>15 DEF PopEmpty
<1>16. CASE PopTail(t) \/ TakeData(t)
  BY <1>16 DEF PopTail, TakeTail, TakeData, Taking
<1>17. CASE Wake(t)
  BY <1>17 DEF Wake
<1>18. CASE ClearWait(t)
  BY <1>18 DEF ClearWait
<1>19. CASE ParkTimeout(t)
  BY <1>19 DEF ParkTimeout, LeaveFrame
<1> QED
  BY <1>1, <1>2, <1>3, <1>4, <1>5, <1>6, <1>7, <1>8, <1>9, <1>10, <1>11, <1>12,
     <1>13, <1>14, <1>15, <1>16, <1>17, <1>18, <1>19 DEF UnfairStep

\* The inductive invariant without unlock_fair().
UnfairInv == MixedInv /\ Basics

LEMMA UnfairInit == Init => UnfairInv
BY MixedInit DEF Init, UnfairInv, Basics, NoFair, Excl, MutualExclusion, Holding, BumpUntimed

LEMMA UnfairInvStep ==
  ASSUME NoUnlockFair
  PROVE  UnfairInv /\ [Next]_vars => UnfairInv'
<1> SUFFICES ASSUME UnfairInv, [Next]_vars PROVE UnfairInv'
  OBVIOUS
<1>1. MixedInv'
  BY MixedStep DEF UnfairInv
<1>2. CASE UNCHANGED vars
  BY <1>1, <1>2 DEF vars, UnfairInv, Basics, NoFair, Excl, MutualExclusion, BumpUntimed
<1>3. ASSUME NEW t \in Threads, UnfairStep(t) PROVE UnfairInv'
  BY <1>1, <1>3, BasicsStep DEF UnfairInv, MixedInv
<1> QED
  BY <1>2, <1>3, UnfairNext DEF UnfairInv, Basics

LEMMA UnfairInvariant ==
  ASSUME NoUnlockFair
  PROVE  Spec => []UnfairInv
BY UnfairInit, UnfairInvStep, PTL DEF Spec

\* Without unlock_fair(), with timeouts or not: at most one thread owns the
\* mutex, and the LOCKED bit is set exactly while one does.
THEOREM RawMutexUnfairExclusion ==
  ASSUME NoUnlockFair
  PROVE  Spec => [](MutualExclusion /\ LockedIffOwned)
<1>1. UnfairInv => MutualExclusion /\ LockedIffOwned
  <2> SUFFICES ASSUME UnfairInv PROVE MutualExclusion /\ LockedIffOwned
    OBVIOUS
  <2>1. Owners = {t \in Threads : pc[t] \in Holding}
    BY DEF UnfairInv, Basics, NoFair, Owners, Handed
  <2> QED
    BY <2>1 DEF UnfairInv, Basics, Excl, MutualExclusion, LockedIffOwned
<1> QED
  BY <1>1, UnfairInvariant, PTL

\* Without unlock_fair(), waiters that give up included: the list holds each
\* waiting node once and no node that has left.
THEOREM RawMutexUnfairQueue ==
  ASSUME NoUnlockFair
  PROVE  Spec => []QueueIntact
<1>1. UnfairInv => QueueIntact
  <2> SUFFICES ASSUME UnfairInv PROVE QueueIntact
    OBVIOUS
  <2>1. DOMAIN queue = 1..Len(queue)
    BY DEF UnfairInv, MixedInv, QueueShape, Lists
  <2>2. \A t \in Threads : on_list[t] => pc[t] \in {"park", "remove"}
    BY DEF UnfairInv, MixedInv, QueueShape, Basics, NoFair
  <2> QED
    BY <2>1, <2>2 DEF UnfairInv, MixedInv, QueueShape, Lists, OnList, QueueIntact
<1> QED
  BY <1>1, UnfairInvariant, PTL
-----------------------------------------------------------------------------
(* Without unlock_fair() and timeouts.                                     *)

NoTimeouts == "try_lock_for" \notin Calls

\* A flag is up only for a thread in park() that has been popped, and a
\* popped Waker is that of a thread in park() whose flag is down; who has been
\* popped is woken or about to be.
Sleepers ==
  /\ stale = {}
  /\ \A t \in Threads :
       /\ ~timed[t]
       /\ pc[t] # "remove"
       /\ flag[t] => pc[t] = "park" /\ ~on_list[t]
       /\ pc[t] \in {"take", "wake"} =>
            /\ target[t] \in Threads
            /\ pc[target[t]] = "park" /\ ~on_list[target[t]] /\ ~flag[target[t]]
       /\ pc[t] = "park" /\ ~on_list[t] /\ ~flag[t] =>
            \E r \in Threads : pc[r] \in {"take", "wake"} /\ target[r] = t

LEMMA SleepersStep ==
  ASSUME NoTimeouts, TypeOK, QueueShape, ListLocked, Basics, Sleepers,
         NEW t \in Threads, UnfairStep(t)
  PROVE  Sleepers'
<1> USE DEF Sleepers, Goto
<1> USE DEF TypeOK
<1>1. ASSUME UNCHANGED <<stale, target, on_list>>,
             \A u \in Threads \ {t} : pc'[u] = pc[u] /\ flag'[u] = flag[u],
             pc[t] \notin {"park", "take", "wake"},
             pc'[t] \notin {"park", "take", "wake", "remove"},
             ~flag'[t],
             \A u \in Threads : ~timed'[u]
      PROVE  Sleepers'
  BY <1>1
<1>2. CASE CallLock(t) \/ CallTryLock(t) \/ CallBump(t) \/ LockTry(t)
             \/ EnterPush(t) \/ SleepAcquire(t) \/ SleepMark(t)
  BY <1>2, <1>1 DEF CallLock, CallTryLock, CallBump, LockTry, EnterPush,
       SleepAcquire, SleepMark
<1>3. CASE TryLock(t) \/ Unlock(t) \/ BumpUnlock(t) \/ PopEmpty(t) \/ ClearWait(t)
  BY <1>3, <1>1 DEF TryLock, Unlock, BumpUnlock, ClearLocked, PopEmpty, ClearWait
<1>4. CASE CallTryLockFor(t) \/ ParkTimeout(t) \/ RemoveNode(t)
  BY <1>4 DEF NoTimeouts, CallTryLockFor, ParkTimeout, RemoveNode
<1>5. CASE SleepPush(t)
  BY <1>5 DEF SleepPush
<1>6. CASE Woken(t)
  <2>1. /\ UNCHANGED <<target, on_list, timed>>
        /\ pc[t] = "park" /\ pc'[t] = "lock"
        /\ stale' = stale \cup {p \in Threads : target[p] = t /\ pc[p] \in Popping}
        /\ \A u \in Threads \ {t} : pc'[u] = pc[u] /\ flag'[u] = flag[u]
        /\ flag[t] /\ ~flag'[t]
    BY <1>6 DEF Woken, LeaveFrame, Basics, NoFair
  <2>2. \A p \in Threads : pc[p] \in Popping => target[p] # t
    BY <2>1 DEF Popping, Taking, Basics, NoFair
  <2>3. stale' = {}
    BY <2>1, <2>2
  <2>4. \A p \in Threads : pc'[p] \in {"take", "wake"} =>
          p # t /\ pc[p] \in {"take", "wake"} /\ target[p] # t
    BY <2>1, <2>2 DEF Popping, Taking
  <2> QED
    BY <2>1, <2>3, <2>4
<1>7. CASE PopTail(t)
  <2>1. /\ Head(queue) \in Threads /\ on_list[Head(queue)]
    <3>1. Lists(queue, OnList, Threads) /\ queue # <<>>
      BY <1>7 DEF PopTail, TakeTail, QueueShape
    <3>2. Head(queue) \in Threads /\ Head(queue) \in OnList
      BY <3>1, ListsTail
    <3> QED
      BY <3>2 DEF OnList
  <2>2. pc[Head(queue)] = "park" /\ ~flag[Head(queue)] /\ Head(queue) # t
    BY <2>1, <1>7 DEF PopTail, QueueShape, Basics, NoFair
  <2>3. \A p \in Threads : pc[p] \notin {"take", "wake"}
    BY <1>7 DEF PopTail, TakeTail, ListLocked, UnderListLock
  <2>4. /\ UNCHANGED <<flag, timed, stale>>
        /\ \A u \in Threads \ {t} : pc'[u] = pc[u]
        /\ pc'[t] = "take" /\ target'[t] = Head(queue)
        /\ \A u \in Threads : on_list'[u] <=> on_list[u] /\ u # Head(queue)
        /\ pc[t] = "pop"
    BY <1>7, <2>1 DEF PopTail, TakeTail
  <2> QED
    BY <2>1, <2>2, <2>3, <2>4
<1>8. CASE Wake(t)
  <2>1. \A p \in Threads : pc[p] \in {"take", "wake"} => p = t
    BY <1>8 DEF Wake, ListLocked, UnderListLock
  <2>2. /\ UNCHANGED <<on_list, timed>>
        /\ \A u \in Threads \ {t} : pc'[u] = pc[u]
        /\ pc[t] = "wake" /\ pc'[t] = "clear_wait"
        /\ flag' = [flag EXCEPT ![target[t]] = TRUE]
        /\ stale' = {}
    BY <1>8 DEF Wake, UseWaker
  <2> QED
    BY <2>1, <2>2
<1>9. CASE TakeData(t)
  <2>1. /\ UNCHANGED <<flag, timed, stale, target, on_list>>
        /\ \A u \in Threads \ {t} : pc'[u] = pc[u]
        /\ pc[t] = "take" /\ pc'[t] = "wake"
    BY <1>9 DEF TakeData, Taking, Basics, NoFair
  <2> QED
    BY <2>1
<1> QED
  BY <1>2, <1>3, <1>4, <1>5, <1>6, <1>7, <1>8, <1>9 DEF UnfairStep

\* A thread that goes for the mutex or for the queue by itself, or has been
\* woken.
Awake(t) ==
  \/ pc[t] \in {"lock", "push", "sleep", "pop", "take", "wake"}
  \/ pc[t] = "park" /\ flag[t]

LEMMA StrandedStep ==
  ASSUME TypeOK, Basics, WaitBitCovers, Sleepers, NoStranded,
         NEW t \in Threads, UnfairStep(t)
  PROVE  NoStranded'
<1>0. (\E u \in Threads : Awake(u)') \/ "LOCKED" \in state' \/ queue' = <<>> => NoStranded'
  BY DEF NoStranded, Awake
<1>f. ASSUME ~Awake(t), UNCHANGED <<queue, flag>>,
             "LOCKED" \in state <=> "LOCKED" \in state',
             \A u \in Threads \ {t} : pc'[u] = pc[u]
      PROVE  NoStranded'
  BY <1>f DEF NoStranded, Awake
<1>1. CASE CallLock(t) \/ CallTryLockFor(t) \/ LockTry(t) \/ EnterPush(t) \/ SleepAcquire(t)
             \/ SleepMark(t) \/ SleepPush(t) \/ TryLock(t)
  <2>1. \/ pc'[t] \in {"lock", "push", "sleep"}
        \/ "LOCKED" \in state'
    BY <1>1 DEF CallLock, CallTryLockFor, LockTry, EnterPush, SleepAcquire, SleepMark,
         SleepPush, TryLock, Goto, TypeOK
  <2> QED
    BY <2>1, <1>0 DEF Awake
<1>2. CASE CallTryLock(t) \/ CallBump(t)
  BY <1>2, <1>f DEF CallTryLock, CallBump, Goto, TypeOK, Awake
<1>3. CASE Woken(t) \/ RemoveNode(t) \/ ParkTimeout(t)
  <2>1. pc'[t] = "lock"
    BY <1>3 DEF Woken, RemoveNode, ParkTimeout, LeaveFrame, Goto, TypeOK, Basics, NoFair,
         Sleepers
  <2> QED
    BY <2>1, <1>0 DEF Awake
<1>4. CASE Unlock(t) \/ BumpUnlock(t)
  <2>1. pc'[t] = "pop" \/ queue' = <<>>
    BY <1>4 DEF Unlock, BumpUnlock, ClearLocked, Goto, TypeOK, WaitBitCovers
  <2> QED
    BY <2>1, <1>0 DEF Awake
<1>5. CASE PopEmpty(t)
  BY <1>5, <1>0 DEF PopEmpty
<1>6. CASE PopTail(t) \/ TakeData(t)
  <2>1. pc'[t] \in {"take", "wake"}
    BY <1>6 DEF PopTail, TakeTail, TakeData, Taking, Goto, TypeOK, Basics, NoFair
  <2> QED
    BY <2>1, <1>0 DEF Awake
<1>7. CASE Wake(t)
  <2>1. target[t] \in Threads /\ pc[target[t]] = "park" /\ pc[t] = "wake"
    BY <1>7 DEF Wake, Sleepers
  <2>2. pc'[target[t]] = "park" /\ flag'[target[t]]
    BY <2>1, <1>7 DEF Wake, UseWaker, Sleepers, Goto, TypeOK
  <2> QED
    BY <2>1, <2>2, <1>0 DEF Awake
<1>8. CASE ClearWait(t)
  BY <1>8, <1>f DEF ClearWait, Goto, TypeOK, Awake
<1> QED
  BY <1>1, <1>2, <1>3, <1>4, <1>5, <1>6, <1>7, <1>8 DEF UnfairStep

\* The inductive invariant without unlock_fair() and timeouts.
PlainInv == UnfairInv /\ Sleepers /\ NoStranded

LEMMA PlainInvariant ==
  ASSUME NoUnlockFair, NoTimeouts
  PROVE  Spec => []PlainInv
<1>1. Init => PlainInv
  BY UnfairInit DEF Init, PlainInv, Sleepers, NoStranded
<1>2. PlainInv /\ [Next]_vars => PlainInv'
  <2> SUFFICES ASSUME PlainInv, [Next]_vars PROVE PlainInv'
    OBVIOUS
  <2>1. UnfairInv'
    BY UnfairInvStep DEF PlainInv
  <2>2. CASE UNCHANGED vars
    BY <2>1, <2>2 DEF vars, PlainInv, Sleepers, NoStranded
  <2>3. ASSUME NEW t \in Threads, UnfairStep(t) PROVE PlainInv'
    BY <2>1, <2>3, SleepersStep, StrandedStep DEF PlainInv, UnfairInv, MixedInv
  <2> QED
    BY <2>2, <2>3, UnfairNext DEF PlainInv, UnfairInv, Basics
<1> QED
  BY <1>1, <1>2, PTL DEF Spec

\* Without unlock_fair() and timeouts: no thread is left asleep in the queue
\* beside a free mutex, although unlock() releases first and pops later.
THEOREM RawMutexNoStranded ==
  ASSUME NoUnlockFair, NoTimeouts
  PROVE  Spec => []NoStranded
<1>1. PlainInv => NoStranded
  BY DEF PlainInv
<1> QED
  BY <1>1, PlainInvariant, PTL

\* Without unlock_fair() and timeouts: the node and the Parker of a popped
\* Waker are still there when it is used.
THEOREM RawMutexWakeTarget ==
  ASSUME NoUnlockFair, NoTimeouts
  PROVE  Spec => []WakeTargetAlive
<1>1. PlainInv => WakeTargetAlive
  BY DEF PlainInv, UnfairInv, Basics, NoFair, Sleepers, WakeTargetAlive, Popping, Taking
<1> QED
  BY <1>1, PlainInvariant, PTL

\* A thread whose next step waits for nobody; a thread inside of the mutex
\* leaves it of its own accord.  Only a timed park() ends by itself.
Ready(t) ==
  \/ pc[t] \in {"lock", "try", "own", "bump", "take_fair", "take",
                "wake", "clear_wait", "fair_take", "hand_over", "fair_wake"}
  \/ pc[t] \in {"push", "pop", "fair_pop", "remove"} /\ list_lock = Null
  \/ pc[t] = "sleep" /\ ("FAIR" \notin state \/ "LOCKED" \notin state)
  \/ pc[t] = "park" /\ (flag[t] \/ timed[t])

\* The threads never all wait for each other.
NeverStuck ==
  (\E t \in Threads : pc[t] \notin {"idle", "panicked"}) => \E t \in Threads : Ready(t)

\* If nobody is ready, either the holder of the list lock waits for the FAIR
\* bit, or everybody who has called the mutex sleeps with his flag down.
LEMMA AllAsleep ==
  ASSUME MixedInv, \A t \in Threads : ~Ready(t)
  PROVE  \/ \E t \in Threads : pc[t] = "sleep" /\ "FAIR" \in state
         \/ \A t \in Threads :
              /\ pc[t] \in {"idle", "panicked", "park"}
              /\ pc[t] = "park" => ~flag[t]
<1>1. CASE list_lock = Null
  <2>1. \A t \in Threads : pc[t] # "sleep"
    BY <1>1, RawMutexAssumption DEF MixedInv, ListLocked, UnderListLock
  <2> QED
    BY <1>1, <2>1 DEF MixedInv, NoPolls, TypeOK, Locations, Ready
<1>2. CASE list_lock # Null
  <2>1. list_lock \in Threads /\ pc[list_lock] \in UnderListLock
    BY <1>2 DEF MixedInv, TypeOK, ListLocked
  <2> QED
    BY <2>1 DEF UnderListLock, Ready
<1> QED
  BY <1>1, <1>2

\* Without unlock_fair() and timeouts: as long as anybody is inside of a call
\* or of the mutex, somebody's next step waits for nobody.
THEOREM RawMutexUnfairNeverStuck ==
  ASSUME NoUnlockFair, NoTimeouts
  PROVE  Spec => []NeverStuck
<1>1. PlainInv => NeverStuck
  <2> SUFFICES ASSUME PlainInv, NEW t \in Threads, pc[t] \notin {"idle", "panicked"},
                      \A u \in Threads : ~Ready(u)
               PROVE  FALSE
    BY DEF NeverStuck
  <2>1. /\ MixedInv /\ QueueShape /\ WaitBitCovers /\ Sleepers /\ NoStranded
        /\ "FAIR" \notin state /\ Excl
    BY DEF PlainInv, UnfairInv, MixedInv, Basics, NoFair
  <2>2. \A u \in Threads :
          pc[u] \in {"idle", "panicked", "park"} /\ (pc[u] = "park" => ~flag[u])
    BY <2>1, AllAsleep
  <2>3. on_list[t]
    BY <2>1, <2>2 DEF Sleepers
  <2>4. queue # <<>>
    BY <2>1, <2>3 DEF QueueShape, Lists, OnList
  <2>5. "LOCKED" \in state
    BY <2>1, <2>2, <2>4 DEF NoStranded
  <2> QED
    BY <2>1, <2>2, <2>5 DEF Excl, Holding
<1> QED
  BY <1>1, PlainInvariant, PTL
-----------------------------------------------------------------------------
(* The refinement of AbstractLock, without unlock_fair().                  *)

WantOf(l, g, d) ==
  IF l \in Waiting \/ (l = "remove" /\ g = "lock") THEN (IF d THEN "timed" ELSE "lock")
  ELSE IF l = "try" THEN "try"
  ELSE "none"

\* Without the FAIR bit the owners are the threads inside of the mutex.
LEMMA OwnerIs ==
  ASSUME Basics
  PROVE  /\ \A t \in Threads : pc[t] \in Holding => Owner = t
         /\ (\A t \in Threads : pc[t] \notin Holding) => Owner = Null
         /\ Want = [t \in Threads |-> WantOf(pc[t], goal[t], timed[t])]
<1>1. Owners = {t \in Threads : pc[t] \in Holding}
  BY DEF Basics, NoFair, Owners, Handed
<1>2. Want = [t \in Threads |-> WantOf(pc[t], goal[t], timed[t])]
  <2>1. \A t \in Threads : t \in Owners =>
          pc[t] \notin Waiting /\ pc[t] \notin {"remove", "try"}
    BY <1>1 DEF Holding, Waiting
  <2> QED
    BY <2>1 DEF Want, WantOf, InLock
<1> QED
  BY <1>1, <1>2 DEF Basics, Excl, MutualExclusion, Owner

\* The same after the step.
LEMMA OwnerIsNext ==
  ASSUME Basics'
  PROVE  /\ \A t \in Threads : pc'[t] \in Holding => Owner' = t
         /\ (\A t \in Threads : pc'[t] \notin Holding) => Owner' = Null
         /\ Want' = [t \in Threads |-> WantOf(pc'[t], goal'[t], timed'[t])]
<1>1. Owners' = {t \in Threads : pc'[t] \in Holding}
  BY DEF Basics, NoFair, Owners, Handed
<1>2. Want' = [t \in Threads |-> WantOf(pc'[t], goal'[t], timed'[t])]
  <2>1. \A t \in Threads : t \in Owners' =>
          pc'[t] \notin Waiting /\ pc'[t] \notin {"remove", "try"}
    BY <1>1 DEF Holding, Waiting
  <2> QED
    BY <2>1 DEF Want, WantOf, InLock
<1> QED
  BY <1>1, <1>2 DEF Basics, Excl, MutualExclusion, Owner

\* What a step of t, and of t alone, is in the abstract lock.
LEMMA MappedStep ==
  ASSUME Basics, Basics', NEW t \in Threads,
         \A u \in Threads \ {t} :
           pc'[u] = pc[u] /\ goal'[u] = goal[u] /\ timed'[u] = timed[u]
  PROVE  /\ Want' = [Want EXCEPT ![t] = WantOf(pc'[t], goal'[t], timed'[t])]
         /\ Want[t] = WantOf(pc[t], goal[t], timed[t])
         /\ (pc'[t] \in Holding <=> pc[t] \in Holding) => Owner' = Owner
         /\ pc[t] \notin Holding /\ pc'[t] \in Holding /\ "LOCKED" \notin state =>
              Owner = Null /\ Owner' = t
         /\ pc[t] \in Holding /\ pc'[t] \notin Holding => Owner = t /\ Owner' = Null
         /\ pc[t] \notin Holding => Owner # t
         /\ "LOCKED" \in state => Owner # Null
<1>1. /\ Want' = [Want EXCEPT ![t] = WantOf(pc'[t], goal'[t], timed'[t])]
      /\ Want[t] = WantOf(pc[t], goal[t], timed[t])
  <2>1. /\ Want = [u \in Threads |-> WantOf(pc[u], goal[u], timed[u])]
        /\ Want' = [u \in Threads |-> WantOf(pc'[u], goal'[u], timed'[u])]
    BY OwnerIs, OwnerIsNext
  <2> QED
    BY <2>1
<1>2. /\ "LOCKED" \in state <=> \E u \in Threads : pc[u] \in Holding
      /\ MutualExclusion
  BY DEF Basics, Excl
<1>3. (pc'[t] \in Holding <=> pc[t] \in Holding) => Owner' = Owner
  <2> SUFFICES ASSUME \A u \in Threads : pc'[u] \in Holding <=> pc[u] \in Holding
               PROVE  Owner' = Owner
    OBVIOUS
  <2>1. CASE \E u \in Threads : pc[u] \in Holding
    BY <2>1, OwnerIs, OwnerIsNext
  <2>2. CASE \A u \in Threads : pc[u] \notin Holding
    BY <2>2, OwnerIs, OwnerIsNext
  <2> QED
    BY <2>1, <2>2
<1>4. \A u \in Threads : pc[u] \in Holding => Owner = u /\ u # Null
  BY OwnerIs DEF RawMutexAssumption
<1>5. pc[t] \notin Holding /\ pc'[t] \in Holding /\ "LOCKED" \notin state =>
        Owner = Null /\ Owner' = t
  BY <1>2, OwnerIs, OwnerIsNext
<1>6. pc[t] \in Holding /\ pc'[t] \notin Holding => Owner = t /\ Owner' = Null
  BY <1>2, OwnerIs, OwnerIsNext DEF MutualExclusion
<1>7. pc[t] \notin Holding => Owner # t
  BY <1>4, OwnerIs DEF RawMutexAssumption
<1>8. "LOCKED" \in state => Owner # Null
  BY <1>2, <1>4
<1> QED
  BY <1>1, <1>3, <1>5, <1>6, <1>7, <1>8

\* A step that leaves the owner and the wishes alone stutters.
LEMMA MappedSilent ==
  ASSUME Basics, Basics', NEW t \in Threads,
         \A u \in Threads \ {t} :
           pc'[u] = pc[u] /\ goal'[u] = goal[u] /\ timed'[u] = timed[u],
         pc'[t] \in Holding <=> pc[t] \in Holding,
         WantOf(pc'[t], goal'[t], timed'[t]) = WantOf(pc[t], goal[t], timed[t])
  PROVE  UNCHANGED <<Owner, Want>>
<1>1. /\ Want' = [Want EXCEPT ![t] = Want[t]]
      /\ Owner' = Owner
  BY MappedStep
<1>2. Want = [u \in Threads |-> WantOf(pc[u], goal[u], timed[u])]
  BY OwnerIs
<1>3. Want' = Want
  BY <1>1, <1>2
<1> QED
  BY <1>1, <1>3

\* A thread that goes from no call into one asks for the lock.
LEMMA MappedRequest ==
  ASSUME Basics, Basics', NEW t \in Threads,
         \A u \in Threads \ {t} :
           pc'[u] = pc[u] /\ goal'[u] = goal[u] /\ timed'[u] = timed[u],
         pc[t] \notin Holding, pc'[t] \notin Holding,
         WantOf(pc[t], goal[t], timed[t]) = "none",
         WantOf(pc'[t], goal'[t], timed'[t]) # "none"
  PROVE  Lock!AbsNext
<1>1. /\ Want[t] = "none" /\ Owner # t /\ Owner' = Owner
      /\ Want' = [Want EXCEPT ![t] = WantOf(pc'[t], goal'[t], timed'[t])]
  BY MappedStep
<1>2. WantOf(pc'[t], goal'[t], timed'[t]) \in Lock!Requests
  BY DEF WantOf, Lock!Requests
<1>3. Lock!Request(t)
  BY <1>1, <1>2 DEF Lock!Request
<1> QED
  BY <1>3 DEF Lock!AbsNext

\* Winning the LOCKED bit is the Grant of the abstract lock.
LEMMA MappedGrant ==
  ASSUME Basics, Basics', NEW t \in Threads,
         \A u \in Threads \ {t} :
           pc'[u] = pc[u] /\ goal'[u] = goal[u] /\ timed'[u] = timed[u],
         pc[t] \in {"lock", "sleep", "try"}, pc'[t] = "own", "LOCKED" \notin state
  PROVE  Lock!AbsNext
<1>1. /\ pc[t] \notin Holding /\ pc'[t] \in Holding
      /\ WantOf(pc[t], goal[t], timed[t]) # "none"
      /\ WantOf(pc'[t], goal'[t], timed'[t]) = "none"
  BY DEF Holding, WantOf, Waiting
<1>2. /\ Owner = Null /\ Owner' = t
      /\ Want[t] # "none" /\ Want' = [Want EXCEPT ![t] = "none"]
  BY <1>1, MappedStep
<1>3. Lock!Grant(t)
  BY <1>2 DEF Lock!Grant
<1> QED
  BY <1>3 DEF Lock!AbsNext

\* A step changes the locals of its own thread only.
LEMMA OnlyOwnLocals ==
  ASSUME TypeOK, NEW t \in Threads, UnfairStep(t)
  PROVE  \A u \in Threads \ {t} :
           pc'[u] = pc[u] /\ goal'[u] = goal[u] /\ timed'[u] = timed[u]
<1> USE DEF TypeOK, Goto
<1>1. CASE CallLock(t) \/ CallTryLockFor(t) \/ CallTryLock(t) \/ CallBump(t)
             \/ LockTry(t) \/ EnterPush(t) \/ SleepAcquire(t) \/ SleepMark(t)
  BY <1>1 DEF CallLock, CallTryLockFor, CallTryLock, CallBump, LockTry, EnterPush,
       SleepAcquire, SleepMark
<1>2. CASE SleepPush(t) \/ Woken(t) \/ ParkTimeout(t) \/ RemoveNode(t) \/ TryLock(t)
  BY <1>2 DEF SleepPush, Woken, ParkTimeout, LeaveFrame, RemoveNode, TryLock
<1>3. CASE Unlock(t) \/ BumpUnlock(t) \/ PopEmpty(t) \/ PopTail(t) \/ TakeData(t)
             \/ Wake(t) \/ ClearWait(t)
  BY <1>3 DEF Unlock, BumpUnlock, ClearLocked, PopEmpty, PopTail, TakeTail, TakeData, Wake,
       ClearWait
<1> QED
  BY <1>1, <1>2, <1>3 DEF UnfairStep

\* Every step is a step of the abstract lock or a stutter.
LEMMA RefinementStep ==
  ASSUME NoUnlockFair
  PROVE  UnfairInv /\ UnfairInv' /\ [Next]_vars => [Lock!AbsNext]_(Lock!absVars)
<1> SUFFICES ASSUME UnfairInv, UnfairInv', [Next]_vars
             PROVE  Lock!AbsNext \/ UNCHANGED <<Owner, Want>>
  BY DEF Lock!absVars
<1>i. TypeOK /\ Basics /\ Basics'
  BY DEF UnfairInv, MixedInv
<1>s. CASE UNCHANGED vars
  BY <1>s DEF vars, Owner, Owners, Handed, Want, InLock
<1>t. ASSUME NEW t \in Threads, UnfairStep(t)
      PROVE  Lock!AbsNext \/ UNCHANGED <<Owner, Want>>
  <2>o. \A u \in Threads \ {t} :
          pc'[u] = pc[u] /\ goal'[u] = goal[u] /\ timed'[u] = timed[u]
    BY <1>t, <1>i, OnlyOwnLocals
  <2>g. goal[t] \in {"idle", "lock"}
    BY <1>i DEF TypeOK, Basics, NoFair
  <2>1. CASE CallLock(t) \/ CallTryLockFor(t) \/ CallTryLock(t)
    <3>1. pc[t] = "idle" /\ pc'[t] \in {"lock", "try"}
      BY <2>1, <1>i DEF CallLock, CallTryLockFor, CallTryLock, Goto, TypeOK
    <3>2. /\ pc[t] \notin Holding /\ pc'[t] \notin Holding
          /\ WantOf(pc[t], goal[t], timed[t]) = "none"
          /\ WantOf(pc'[t], goal'[t], timed'[t]) # "none"
      BY <3>1 DEF Holding, Waiting, WantOf
    <3> QED
      BY <3>2, <2>o, <1>i, MappedRequest
  <2>2. CASE LockTry(t) \/ SleepAcquire(t)
    <3>1. /\ pc[t] \in {"lock", "sleep"} /\ UNCHANGED <<goal, timed>>
          /\ \/ pc'[t] = "push"
             \/ pc'[t] = "own" /\ "LOCKED" \notin state
      BY <2>2, <1>i DEF LockTry, SleepAcquire, Goto, TypeOK
    <3>2. CASE pc'[t] = "push"
      <4>1. /\ pc'[t] \in Holding <=> pc[t] \in Holding
            /\ WantOf(pc'[t], goal'[t], timed'[t]) = WantOf(pc[t], goal[t], timed[t])
        BY <3>1, <3>2 DEF Holding, Waiting, WantOf
      <4> QED
        BY <4>1, <2>o, <1>i, MappedSilent
    <3>3. CASE pc'[t] = "own" /\ "LOCKED" \notin state
      BY <3>1, <3>3, <2>o, <1>i, MappedGrant
    <3> QED
      BY <3>1, <3>2, <3>3
  <2>3. CASE EnterPush(t) \/ SleepMark(t) \/ SleepPush(t) \/ Woken(t)
    <3>1. /\ pc[t] \in Waiting /\ UNCHANGED timed
          /\ pc'[t] \in Waiting \/ (pc'[t] = "remove" /\ goal'[t] = "lock")
      BY <2>3, <1>i DEF EnterPush, SleepMark, SleepPush, Woken, LeaveFrame, Goto, TypeOK,
           Basics, NoFair, Waiting
    <3>2. /\ pc'[t] \in Holding <=> pc[t] \in Holding
          /\ WantOf(pc'[t], goal'[t], timed'[t]) = WantOf(pc[t], goal[t], timed[t])
      BY <3>1 DEF Holding, Waiting, WantOf
    <3> QED
      BY <3>2, <2>o, <1>i, MappedSilent
  <2>4. CASE ParkTimeout(t)
    <3>1. /\ pc[t] = "park" /\ timed[t]
          /\ pc'[t] = "idle" \/ (pc'[t] = "remove" /\ goal'[t] = "idle")
      BY <2>4, <1>i DEF ParkTimeout, LeaveFrame, Goto, TypeOK
    <3>2. /\ pc[t] \notin Holding /\ pc'[t] \notin Holding
          /\ WantOf(pc[t], goal[t], timed[t]) = "timed"
          /\ WantOf(pc'[t], goal'[t], timed'[t]) = "none"
      BY <3>1 DEF Holding, Waiting, WantOf
    <3>3. /\ Want[t] = "timed" /\ Owner' = Owner
          /\ Want' = [Want EXCEPT ![t] = "none"]
      BY <3>2, <2>o, <1>i, MappedStep
    <3>4. Lock!Expire(t)
      BY <3>3 DEF Lock!Expire
    <3> QED
      BY <3>4 DEF Lock!AbsNext
  <2>5. CASE RemoveNode(t)
    <3>1. pc[t] = "remove" /\ pc'[t] = goal[t] /\ timed' = timed
      BY <2>5, <1>i DEF RemoveNode, Goto, TypeOK
    <3>2. /\ pc'[t] \in Holding <=> pc[t] \in Holding
          /\ WantOf(pc'[t], goal'[t], timed'[t]) = WantOf(pc[t], goal[t], timed[t])
      BY <3>1, <2>g DEF Holding, Waiting, WantOf
    <3> QED
      BY <3>2, <2>o, <1>i, MappedSilent
  <2>6. CASE TryLock(t)
    <3>1. /\ pc[t] = "try"
          /\ \/ pc'[t] = "own" /\ "LOCKED" \notin state
             \/ pc'[t] = "idle" /\ "LOCKED" \in state
      BY <2>6, <1>i DEF TryLock, Goto, TypeOK
    <3>2. CASE pc'[t] = "own" /\ "LOCKED" \notin state
      BY <3>1, <3>2, <2>o, <1>i, MappedGrant
    <3>3. CASE pc'[t] = "idle" /\ "LOCKED" \in state
      <4>1. /\ pc[t] \notin Holding /\ pc'[t] \notin Holding
            /\ WantOf(pc[t], goal[t], timed[t]) = "try"
            /\ WantOf(pc'[t], goal'[t], timed'[t]) = "none"
        BY <3>1, <3>3 DEF Holding, Waiting, WantOf
      <4>2. /\ Want[t] = "try" /\ Owner # Null /\ Owner' = Owner
            /\ Want' = [Want EXCEPT ![t] = "none"]
        BY <4>1, <3>3, <2>o, <1>i, MappedStep
      <4>3. Lock!Refuse(t)
        BY <4>2 DEF Lock!Refuse
      <4> QED
        BY <4>3 DEF Lock!AbsNext
    <3> QED
      BY <3>1, <3>2, <3>3
  <2>7. CASE Unlock(t) \/ BumpUnlock(t)
    <3>1. /\ pc[t] \in {"own", "bump"} /\ timed' = timed
          /\ pc'[t] \in {"pop", "idle"} \/ (pc'[t] = "lock" /\ ~timed[t])
      BY <2>7, <1>i DEF Unlock, BumpUnlock, ClearLocked, Goto, TypeOK, Basics, BumpUntimed
    <3>2. /\ pc[t] \in Holding /\ pc'[t] \notin Holding
          /\ WantOf(pc[t], goal[t], timed[t]) = "none"
          /\ WantOf(pc'[t], goal'[t], timed'[t]) \in {"none", "lock"}
      BY <3>1 DEF Holding, Waiting, WantOf
    <3>3. /\ Owner = t /\ Owner' = Null /\ Want[t] = "none"
          /\ Want' = [Want EXCEPT ![t] = WantOf(pc'[t], goal'[t], timed'[t])]
      BY <3>2, <2>o, <1>i, MappedStep
    <3>4. Want = [u \in Threads |-> WantOf(pc[u], goal[u], timed[u])]
      BY <1>i, OwnerIs
    <3>5. CASE WantOf(pc'[t], goal'[t], timed'[t]) = "none"
      <4>1. Want' = Want
        BY <3>3, <3>4, <3>5
      <4>2. Lock!Yield(t)
        BY <3>3, <4>1 DEF Lock!Yield
      <4> QED
        BY <4>2 DEF Lock!AbsNext
    <3>6. CASE WantOf(pc'[t], goal'[t], timed'[t]) = "lock"
      <4>1. Lock!Bump(t)
        BY <3>3, <3>6 DEF Lock!Bump
      <4> QED
        BY <4>1 DEF Lock!AbsNext
    <3> QED
      BY <3>2, <3>5, <3>6
  <2>8. CASE CallBump(t) \/ PopTail(t) \/ TakeData(t) \/ Wake(t)
    <3>1. \/ pc[t] = "own" /\ pc'[t] = "bump"
          \/ pc[t] = "pop" /\ pc'[t] = "take"
          \/ pc[t] = "take" /\ pc'[t] = "wake"
          \/ pc[t] = "wake" /\ pc'[t] = "clear_wait"
      BY <2>8, <1>i DEF CallBump, PopTail, TakeTail, TakeData, Taking, Wake, Goto, TypeOK,
           Basics, NoFair
    <3>2. /\ pc'[t] \in Holding <=> pc[t] \in Holding
          /\ WantOf(pc'[t], goal'[t], timed'[t]) = WantOf(pc[t], goal[t], timed[t])
      BY <3>1 DEF Holding, Waiting, WantOf
    <3> QED
      BY <3>2, <2>o, <1>i, MappedSilent
  <2>9. CASE PopEmpty(t) \/ ClearWait(t)
    <3>1. pc[t] \in {"pop", "clear_wait"} /\ pc'[t] \in {"idle", "lock"}
      BY <2>9, <2>g, <1>i DEF PopEmpty, ClearWait, Goto, TypeOK
    <3>2. /\ pc[t] \notin Holding /\ pc'[t] \notin Holding
          /\ WantOf(pc[t], goal[t], timed[t]) = "none"
      BY <3>1 DEF Holding, Waiting, WantOf
    <3>3. CASE WantOf(pc'[t], goal'[t], timed'[t]) = "none"
      BY <3>2, <3>3, <2>o, <1>i, MappedSilent
    <3>4. CASE WantOf(pc'[t], goal'[t], timed'[t]) # "none"
      BY <3>2, <3>4, <2>o, <1>i, MappedRequest
    <3> QED
      BY <3>3, <3>4
  <2> QED
    BY <1>t, <2>1, <2>2, <2>3, <2>4, <2>5, <2>6, <2>7, <2>8, <2>9 DEF UnfairStep
<1> QED
  BY <1>i, <1>s, <1>t, UnfairNext DEF Basics

\* The first states.
LEMMA MappedInit == Init => Lock!AbsInit
<1> SUFFICES ASSUME Init PROVE Lock!AbsInit
  OBVIOUS
<1>1. Owners = {}
  BY DEF Init, Owners, Handed, Holding
<1>2. \A t \in Threads : ~InLock(t)
  BY DEF Init, InLock, Waiting
<1> QED
  BY <1>1, <1>2 DEF Init, Lock!AbsInit, Owner, Want

\* Without unlock_fair(), RawMutex implements the safety of AbstractLock, with
\* calls that time out and the bump() of an owner.
THEOREM RawMutexUnfairRefinement ==
  ASSUME NoUnlockFair
  PROVE  Spec => ImplementsSafely
BY MappedInit, RefinementStep, UnfairInvariant, PTL DEF Spec, ImplementsSafely, Lock!AbsSpec
-----------------------------------------------------------------------------
(* With unlock_fair() as the only way to unlock, in builds with and without *)
(* debug assertions: timeouts are allowed.                                  *)

NoUnlock == Calls \cap {"unlock", "bump"} = {}

\* A thread that has been popped and has not come back from park().
Popped(t) == pc[t] \in {"park", "take_fair"} /\ ~on_list[t]

\* The LOCKED bit is set for the thread inside of the mutex or together with
\* FAIR, when nobody is inside.
Place ==
  /\ MutualExclusion
  /\ "LOCKED" \in state <=> "FAIR" \in state \/ \E t \in Threads : pc[t] \in Holding
  /\ "FAIR" \in state => \A t \in Threads : pc[t] \notin Holding

\* At most one thread is popped and has not left, the one that is or will be
\* woken; a flag is up only after the handover, and on no thread but that one
\* unless it has left.
Handover ==
  \A t \in Threads :
    /\ pc[t] \notin {"bump", "pop", "take", "wake", "clear_wait"}
    /\ pc[t] = "remove" => goal[t] = "idle"
    /\ pc[t] \in {"fair_take", "hand_over", "fair_wake"} =>
         /\ target[t] \in Threads /\ ~on_list[target[t]]
         /\ \A u \in Threads : Popped(u) => u = target[t]
    /\ pc[t] = "fair_wake" => "FAIR" \in state /\ \A u \in Threads : ~flag[u]
    /\ pc[t] = "take_fair" => flag[t]
    /\ flag[t] => "FAIR" \in state /\ ~on_list[t]
    /\ Popped(t) =>
         /\ \A u \in Threads : Popped(u) \/ flag[u] => u = t
         /\ "FAIR" \in state \/ \E r \in Threads : pc[r] \in {"fair_take", "hand_over"}

\* Nothing of unlock() and bump().
FairStep(t) ==
  \/ CallLock(t) \/ CallTryLockFor(t) \/ CallTryLock(t) \/ LockTry(t) \/ EnterPush(t)
  \/ SleepAcquire(t) \/ SleepMark(t) \/ SleepPush(t) \/ SleepPanic(t)
  \/ Woken(t) \/ TakeFair(t) \/ ParkTimeout(t) \/ RemoveNode(t) \/ TryLock(t)
  \/ CallUnlockFair(t) \/ FairEmpty(t) \/ FairPop(t) \/ TakeData(t) \/ HandOver(t)
  \/ FairWake(t)

LEMMA FairNext ==
  ASSUME NoUnlock, Handover, [Next]_vars
  PROVE  (\E t \in Threads : FairStep(t)) \/ UNCHANGED vars
BY DEF NoUnlock, Handover, Next, Call, Step, Contend, Release, Undefined, FairStep, CallBump,
       Unlock, BumpUnlock, PopEmpty, PopTail, Wake, ClearWait

\* The inductive invariant, but for what holds whatever is mixed.
FairVars == Place /\ Handover /\ FairNeverFree

LEMMA FairVarsStep ==
  ASSUME MixedInv, FairVars, NEW t \in Threads, FairStep(t)
  PROVE  FairVars'
<1> USE DEF FairVars, Place, Handover, FairNeverFree, MutualExclusion, Holding, Popped, Goto
<1>v. VarsOK /\ ListLocked /\ WaitBitCovers
  BY DEF MixedInv, TypeOK, VarsOK
<1> USE <1>v DEF VarsOK
<1>n. \A u \in Threads : on_list[u] => pc[u] \in {"park", "remove"} /\ ~flag[u]
  BY DEF MixedInv, QueueShape
<1>l. \A u \in Threads : pc[u] \in {"sleep", "fair_take", "hand_over", "fair_wake"} => list_lock = u
  BY DEF ListLocked, UnderListLock
<1>1. CASE CallLock(t)
  BY <1>1 DEF CallLock
<1>2. CASE CallTryLockFor(t) \/ CallTryLock(t)
  <2>1. CASE CallTryLockFor(t)
    BY <2>1 DEF CallTryLockFor
  <2>2. CASE CallTryLock(t)
    BY <2>2 DEF CallTryLock
  <2> QED
    BY <1>2, <2>1, <2>2
<1>3. CASE LockTry(t)
  BY <1>3 DEF LockTry
<1>4. CASE EnterPush(t)
  BY <1>4 DEF EnterPush
<1>5. CASE SleepAcquire(t)
  BY <1>5 DEF SleepAcquire
<1>6. CASE SleepMark(t)
  BY <1>6 DEF SleepMark
<1>7. CASE SleepPush(t)
  <2>1. \A u \in Threads \ {t} : pc[u] \notin {"sleep", "fair_take", "hand_over", "fair_wake"}
    BY <1>7, <1>l DEF SleepPush
  <2>2. \A u \in Threads : ~Popped(u) /\ ~flag[u]
    BY <1>7, <2>1 DEF SleepPush
  <2>3. /\ \A u \in Threads \ {t} : pc'[u] = pc[u] /\ on_list'[u] = on_list[u]
        /\ pc[t] = "sleep" /\ pc'[t] = "park" /\ on_list'[t]
        /\ state = {"LOCKED", "WAIT"}
        /\ UNCHANGED <<state, flag, target, goal>>
    BY <1>7 DEF SleepPush
  <2> QED
    BY <2>1, <2>2, <2>3
<1>8. CASE SleepPanic(t)
  BY <1>8 DEF SleepPanic
<1>9. CASE Woken(t)
  BY <1>9 DEF Woken
<1>10. CASE TakeFair(t)
  <2>1. /\ flag[t] /\ ~on_list[t] /\ Popped(t) /\ "FAIR" \in state /\ "LOCKED" \in state
        /\ \A u \in Threads : Popped(u) \/ flag[u] => u = t
        /\ \A u \in Threads : pc[u] \notin Holding
    BY <1>10 DEF TakeFair
  <2>2. \A u \in Threads : pc[u] # "fair_wake"
    BY <2>1, <1>10 DEF TakeFair
  <2> QED
    BY <2>1, <1>10 DEF TakeFair, LeaveFrame
<1>11. CASE ParkTimeout(t)
  BY <1>11 DEF ParkTimeout, LeaveFrame
<1>12. CASE RemoveNode(t)
  <2>1. on_list[t] => queue # <<>>
    BY DEF MixedInv, QueueShape, Lists, OnList
  <2>2. /\ \A u \in Threads \ {t} : pc'[u] = pc[u] /\ on_list'[u] = on_list[u]
        /\ \A u \in Threads \ {t} : flag'[u] = flag[u] /\ goal'[u] = goal[u]
        /\ pc[t] = "remove" /\ pc'[t] = "idle" /\ ~on_list'[t] /\ ~flag'[t]
        /\ queue' # <<>> => queue # <<>>
        /\ UNCHANGED <<state, target>>
    BY <1>12, <2>1 DEF RemoveNode
  <2> QED
    BY <2>2
<1>13. CASE TryLock(t)
  BY <1>13 DEF TryLock
<1>14. CASE CallUnlockFair(t)
  BY <1>14 DEF CallUnlockFair
<1>15. CASE FairEmpty(t)
  BY <1>15 DEF FairEmpty
<1>16. CASE FairPop(t)
  <2>1. Head(queue) \in Threads /\ on_list[Head(queue)]
    <3>1. Lists(queue, OnList, Threads) /\ queue # <<>>
      BY <1>16 DEF FairPop, TakeTail, MixedInv, QueueShape
    <3>2. Head(queue) \in Threads /\ Head(queue) \in OnList
      BY <3>1, ListsTail
    <3> QED
      BY <3>2 DEF OnList
  <2>2. pc[Head(queue)] \in {"park", "remove"} /\ ~flag[Head(queue)] /\ Head(queue) # t
    BY <2>1, <1>16, <1>n DEF FairPop
  <2>3. /\ pc[t] = "fair_pop" /\ "FAIR" \notin state
        /\ \A u \in Threads \ {t} : pc[u] \notin Holding
        /\ \A u \in Threads : ~flag[u] /\ ~Popped(u)
    BY <1>16 DEF FairPop
  <2>4. \A u \in Threads : pc[u] \notin {"fair_take", "hand_over", "fair_wake"}
    BY <1>16, <1>l, RawMutexAssumption DEF FairPop, TakeTail
  <2>5. /\ \A u \in Threads \ {t} : pc'[u] = pc[u]
        /\ pc'[t] = "fair_take" /\ target'[t] = Head(queue)
        /\ \A u \in Threads : on_list'[u] <=> on_list[u] /\ u # Head(queue)
        /\ queue # <<>>
        /\ UNCHANGED <<state, flag, goal>>
    BY <1>16, <2>1 DEF FairPop, TakeTail
  <2> QED
    BY <2>1, <2>2, <2>3, <2>4, <2>5
<1>17. CASE HandOver(t)
  BY <1>17 DEF HandOver
<1>18. CASE FairWake(t)
  <2>1. /\ target[t] \in Threads /\ ~on_list[target[t]] /\ "FAIR" \in state
        /\ \A u \in Threads : ~flag[u] /\ (Popped(u) => u = target[t])
        /\ \A u \in Threads : pc[u] \notin Holding
    BY <1>18 DEF FairWake
  <2>2. \A u \in Threads \ {t} : pc[u] \notin {"fair_take", "hand_over", "fair_wake"}
    BY <1>18, <1>l DEF FairWake
  <2>3. /\ \A u \in Threads \ {t} : pc'[u] = pc[u] /\ target'[u] = target[u]
        /\ pc[t] = "fair_wake" /\ pc'[t] = "idle"
        /\ \A u \in Threads : flag'[u] => u = target[t]
        /\ UNCHANGED <<state, queue, on_list, goal>>
    BY <1>18, <2>1 DEF FairWake, UseWaker
  <2> QED
    BY <2>1, <2>2, <2>3
<1>19. CASE TakeData(t)
  <2>1. /\ \A u \in Threads \ {t} : pc'[u] = pc[u]
        /\ pc[t] = "fair_take" /\ pc'[t] = "hand_over"
        /\ UNCHANGED <<state, queue, on_list, flag, target, goal>>
    BY <1>19 DEF TakeData, Taking
  <2> QED
    BY <2>1
<1> QED
  BY <1>1, <1>2, <1>3, <1>4, <1>5, <1>6, <1>7, <1>8, <1>9, <1>10, <1>11, <1>12,
     <1>13, <1>14, <1>15, <1>16, <1>17, <1>18, <1>19 DEF FairStep

\* The inductive invariant with unlock_fair() as the only way to unlock.
FairInv == MixedInv /\ FairVars

LEMMA FairInvariant ==
  ASSUME NoUnlock
  PROVE  Spec => []FairInv
<1>1. Init => FairInv
  BY MixedInit DEF Init, FairInv, FairVars, Place, Handover, FairNeverFree, MutualExclusion,
       Holding, Popped
<1>2. FairInv /\ [Next]_vars => FairInv'
  <2> SUFFICES ASSUME FairInv, [Next]_vars PROVE FairInv'
    OBVIOUS
  <2>1. MixedInv'
    BY MixedStep DEF FairInv
  <2>2. CASE UNCHANGED vars
    BY <2>1, <2>2 DEF vars, FairInv, FairVars, Place, Handover, FairNeverFree,
         MutualExclusion, Popped
  <2>3. ASSUME NEW t \in Threads, FairStep(t) PROVE FairInv'
    BY <2>1, <2>3, FairVarsStep DEF FairInv
  <2> QED
    BY <2>2, <2>3, FairNext DEF FairInv, FairVars
<1> QED
  BY <1>1, <1>2, PTL DEF Spec

\* The owner, in terms of the state and of where the threads are.
LEMMA FairOwners ==
  ASSUME FairInv
  PROVE  /\ Owners = {t \in Threads : pc[t] \in Holding \/ ("FAIR" \in state /\ Popped(t))}
         /\ \A t, u \in Owners : t = u
         /\ Owners # {} => "LOCKED" \in state
<1>1. Owners = {t \in Threads : pc[t] \in Holding \/ ("FAIR" \in state /\ Popped(t))}
  BY DEF Owners, Handed, Popped
<1> QED
  BY <1>1 DEF FairInv, FairVars, Place, Handover, MutualExclusion

\* With unlock_fair() as the only way to unlock, and although a timeout may
\* race the handover: nobody but one thread ever owns the mutex or is given
\* it, and nobody else can take it meanwhile.  A handover to a thread that has
\* left loses the mutex; it does not double it.
THEOREM RawMutexFairOnce ==
  ASSUME NoUnlock
  PROVE  Spec => [](MutualExclusion /\ HandedOnce)
<1>1. FairInv => MutualExclusion /\ HandedOnce
  BY FairOwners DEF FairInv, FairVars, Place, HandedOnce
<1> QED
  BY <1>1, FairInvariant, PTL

\* With unlock_fair() as the only way to unlock, timeouts or not: the mutex is
\* never free while somebody is queued, and the list holds each of those who
\* are once, and no node that has left.
THEOREM RawMutexFairNeverFree ==
  ASSUME NoUnlock
  PROVE  Spec => [](FairNeverFree /\ QueueIntact)
<1>1. FairInv => FairNeverFree /\ QueueIntact
  <2> SUFFICES ASSUME FairInv PROVE QueueIntact
    BY DEF FairInv, FairVars
  <2>1. DOMAIN queue = 1..Len(queue)
    BY DEF FairInv, MixedInv, QueueShape, Lists
  <2>2. \A t \in Threads : on_list[t] => pc[t] \in {"park", "remove"}
    BY DEF FairInv, FairVars, Handover, MixedInv, QueueShape
  <2> QED
    BY <2>1, <2>2 DEF FairInv, MixedInv, QueueShape, Lists, OnList, QueueIntact
<1> QED
  BY <1>1, FairInvariant, PTL
-----------------------------------------------------------------------------
(* With unlock_fair() as the only way to unlock, and without timeouts.     *)

\* A popped thread stays until it is woken, and FAIR is set for such a thread,
\* which has been woken or is about to be.
Awaited ==
  /\ stale = {}
  /\ \A t \in Threads :
       /\ pc[t] # "remove" /\ ~timed[t]
       /\ pc[t] \in {"fair_take", "hand_over", "fair_wake"} =>
            pc[target[t]] = "park" /\ ~flag[target[t]]
  /\ "FAIR" \in state =>
       \E t \in Threads :
         /\ Popped(t)
         /\ flag[t] \/ \E r \in Threads : pc[r] = "fair_wake"

LEMMA AwaitedStep ==
  ASSUME NoTimeouts, FairInv, Awaited, NEW t \in Threads, FairStep(t)
  PROVE  Awaited'
<1> USE DEF FairVars, Place, Handover, Holding, Popped, Awaited, Goto
<1>v. VarsOK /\ ListLocked /\ FairVars
  BY DEF FairInv, MixedInv, TypeOK, VarsOK
<1> USE <1>v DEF VarsOK
<1>n. \A u \in Threads : on_list[u] => pc[u] = "park" /\ ~flag[u]
  BY DEF FairInv, MixedInv, QueueShape
<1>l. \A u \in Threads : pc[u] \in {"sleep", "fair_take", "hand_over", "fair_wake"} => list_lock = u
  BY DEF ListLocked, UnderListLock
<1>1. CASE CallLock(t) \/ CallTryLockFor(t) \/ CallTryLock(t)
  BY <1>1 DEF CallLock, CallTryLockFor, CallTryLock, NoTimeouts
<1>2. CASE LockTry(t)
  BY <1>2 DEF LockTry
<1>3. CASE EnterPush(t)
  BY <1>3 DEF EnterPush
<1>4. CASE SleepAcquire(t)
  BY <1>4 DEF SleepAcquire
<1>5. CASE SleepMark(t) \/ SleepPanic(t)
  BY <1>5 DEF SleepMark, SleepPanic
<1>6. CASE SleepPush(t)
  <2>1. \A u \in Threads \ {t} : pc[u] \notin {"sleep", "fair_take", "hand_over", "fair_wake"}
    BY <1>6, <1>l DEF SleepPush
  <2>2. /\ \A u \in Threads \ {t} : pc'[u] = pc[u] /\ on_list'[u] = on_list[u]
        /\ pc[t] = "sleep" /\ pc'[t] = "park"
        /\ "FAIR" \notin state' /\ UNCHANGED <<flag, timed, target, stale>>
    BY <1>6 DEF SleepPush
  <2> QED
    BY <2>1, <2>2
<1>7. CASE Woken(t)
  BY <1>7 DEF Woken
<1>8. CASE TakeFair(t)
  <2>1. /\ flag[t] /\ ~on_list[t] /\ \A u \in Threads : pc[u] # "fair_wake"
        /\ \A u \in Threads : pc[u] \notin Holding
    BY <1>8 DEF TakeFair
  <2>2. /\ \A u \in Threads \ {t} : pc'[u] = pc[u]
        /\ pc'[t] = "own" /\ "FAIR" \notin state' /\ stale' = {}
        /\ UNCHANGED timed
    BY <2>1, <1>8 DEF TakeFair, LeaveFrame, Popping, Taking
  <2> QED
    BY <2>1, <2>2
<1>9. CASE ParkTimeout(t) \/ RemoveNode(t)
  BY <1>9 DEF ParkTimeout, RemoveNode
<1>10. CASE TryLock(t) \/ CallUnlockFair(t) \/ FairEmpty(t)
  BY <1>10 DEF TryLock, CallUnlockFair, FairEmpty
<1>11. CASE FairPop(t)
  <2>1. Head(queue) \in Threads /\ on_list[Head(queue)]
    <3>1. Lists(queue, OnList, Threads) /\ queue # <<>>
      BY <1>11 DEF FairPop, TakeTail, FairInv, MixedInv, QueueShape
    <3>2. Head(queue) \in Threads /\ Head(queue) \in OnList
      BY <3>1, ListsTail
    <3> QED
      BY <3>2 DEF OnList
  <2>2. pc[Head(queue)] = "park" /\ ~flag[Head(queue)] /\ Head(queue) # t
    BY <2>1, <1>11, <1>n DEF FairPop
  <2>3. /\ \A u \in Threads \ {t} : pc'[u] = pc[u] /\ target'[u] = target[u]
        /\ pc[t] = "fair_pop" /\ pc'[t] = "fair_take" /\ target'[t] = Head(queue)
        /\ UNCHANGED <<state, flag, timed, stale>>
    BY <1>11, <2>1 DEF FairPop, TakeTail
  <2>4. "FAIR" \notin state /\ \A u \in Threads : pc[u] \notin {"fair_take", "hand_over", "fair_wake"}
    BY <1>11, <1>l, RawMutexAssumption DEF FairPop, TakeTail
  <2> QED
    BY <2>1, <2>2, <2>3, <2>4
<1>12. CASE HandOver(t)
  <2>1. /\ \A u \in Threads \ {t} : pc'[u] = pc[u]
        /\ pc[t] = "hand_over" /\ pc'[t] = "fair_wake"
        /\ UNCHANGED <<on_list, flag, timed, target, stale>>
    BY <1>12 DEF HandOver
  <2>2. target[t] \in Threads /\ Popped(target[t]) /\ target[t] # t
    BY <2>1
  <2> QED
    BY <2>1, <2>2
<1>13. CASE FairWake(t)
  <2>1. /\ target[t] \in Threads /\ pc[target[t]] = "park" /\ ~on_list[target[t]]
        /\ target[t] # t
    BY <1>13 DEF FairWake
  <2>2. \A u \in Threads \ {t} : pc[u] \notin {"fair_take", "hand_over", "fair_wake"}
    BY <1>13, <1>l DEF FairWake
  <2>3. /\ \A u \in Threads \ {t} : pc'[u] = pc[u]
        /\ pc'[t] = "idle" /\ flag'[target[t]] /\ stale' = {}
        /\ UNCHANGED <<state, on_list, timed>>
    BY <1>13, <2>1 DEF FairWake, UseWaker
  <2> QED
    BY <2>1, <2>2, <2>3
<1>14. CASE TakeData(t)
  <2>1. /\ \A u \in Threads \ {t} : pc'[u] = pc[u]
        /\ pc[t] = "fair_take" /\ pc'[t] = "hand_over"
        /\ UNCHANGED <<state, on_list, flag, timed, target, stale>>
    BY <1>14 DEF TakeData, Taking
  <2> QED
    BY <2>1
<1> QED
  BY <1>1, <1>2, <1>3, <1>4, <1>5, <1>6, <1>7, <1>8, <1>9, <1>10, <1>11, <1>12,
     <1>13, <1>14 DEF FairStep

\* The inductive invariant with unlock_fair() alone.
HandedInv == FairInv /\ Awaited

LEMMA HandedInvariant ==
  ASSUME NoUnlock, NoTimeouts
  PROVE  Spec => []HandedInv
<1>1. Init => Awaited
  BY DEF Init, Awaited
<1>2. HandedInv /\ [Next]_vars => Awaited'
  <2> SUFFICES ASSUME HandedInv, [Next]_vars PROVE Awaited'
    OBVIOUS
  <2>1. CASE UNCHANGED vars
    BY <2>1 DEF vars, HandedInv, Awaited, Popped
  <2>2. ASSUME NEW t \in Threads, FairStep(t) PROVE Awaited'
    BY <2>2, AwaitedStep DEF HandedInv
  <2> QED
    BY <2>1, <2>2, FairNext DEF HandedInv, FairInv, FairVars
<1> QED
  BY <1>1, <1>2, FairInvariant, PTL DEF Spec, HandedInv

\* The LOCKED bit is set exactly while there is an owner.
LEMMA HandedLocked ==
  ASSUME HandedInv
  PROVE  "LOCKED" \in state <=> Owners # {}
BY FairOwners DEF HandedInv, FairInv, FairVars, Place, Awaited

\* With unlock_fair() alone, whatever debug assertions do to a locker: at most
\* one thread owns the mutex, and the LOCKED bit is set exactly while a thread
\* owns it or has been handed it.
THEOREM RawMutexFairExclusion ==
  ASSUME NoUnlock, NoTimeouts
  PROVE  Spec => []LockedIffOwned
<1>1. HandedInv => LockedIffOwned
  BY HandedLocked, FairOwners DEF HandedInv, LockedIffOwned
<1> QED
  BY <1>1, HandedInvariant, PTL

\* With unlock_fair() alone: nobody who has popped a Waker finds its node or
\* Parker gone, and nobody else raises its flag.
THEOREM RawMutexFairWakeTarget ==
  ASSUME NoUnlock, NoTimeouts
  PROVE  Spec => []WakeTargetAlive
<1>1. HandedInv => WakeTargetAlive
  BY DEF HandedInv, FairInv, FairVars, Handover, Awaited, WakeTargetAlive, Popping, Taking
<1> QED
  BY <1>1, HandedInvariant, PTL

\* A locker that meets a handover under the list lock, where a release build
\* goes round in should_sleep until the FAIR bit is gone, does not wait for
\* anybody who needs that lock: the popped thread has been woken.
SpinEnds ==
  \A t \in Threads : pc[t] = "sleep" /\ "FAIR" \in state =>
    \E u \in Threads : flag[u] /\ pc[u] \in {"park", "take_fair"}

\* With unlock_fair() alone, the loop of should_sleep ends in release builds.
THEOREM RawMutexFairSpinEnds ==
  ASSUME NoUnlock, NoTimeouts
  PROVE  Spec => []SpinEnds
<1>1. HandedInv => SpinEnds
  <2> SUFFICES ASSUME HandedInv, NEW t \in Threads, pc[t] = "sleep", "FAIR" \in state
               PROVE  \E u \in Threads : flag[u] /\ pc[u] \in {"park", "take_fair"}
    BY DEF SpinEnds
  <2>1. \A r \in Threads : pc[r] # "fair_wake"
    BY DEF HandedInv, FairInv, MixedInv, ListLocked, UnderListLock
  <2> QED
    BY <2>1 DEF HandedInv, Awaited, Popped
<1> QED
  BY <1>1, HandedInvariant, PTL

\* With unlock_fair() alone, panics of lockers included: as long as anybody is
\* inside of a call or of the mutex, somebody's next step waits for nobody.
THEOREM RawMutexFairNeverStuck ==
  ASSUME NoUnlock, NoTimeouts
  PROVE  Spec => []NeverStuck
<1>1. HandedInv => NeverStuck
  <2> SUFFICES ASSUME HandedInv, NEW t \in Threads, pc[t] \notin {"idle", "panicked"},
                      \A u \in Threads : ~Ready(u)
               PROVE  FALSE
    BY DEF NeverStuck
  <2>1. MixedInv /\ QueueShape /\ Place /\ Handover /\ FairNeverFree /\ Awaited
    BY DEF HandedInv, FairInv, FairVars, MixedInv
  <2>2. "FAIR" \notin state
    <3>1. \A u \in Threads : pc[u] # "fair_wake" /\ ~(flag[u] /\ Popped(u))
      BY DEF Ready, Popped
    <3> QED
      BY <2>1, <3>1 DEF Awaited
  <2>3. \A u \in Threads :
          pc[u] \in {"idle", "panicked", "park"} /\ (pc[u] = "park" => ~flag[u])
    BY <2>1, <2>2, AllAsleep
  <2>4. on_list[t]
    BY <2>1, <2>2, <2>3 DEF Handover, Popped
  <2>5. queue # <<>>
    BY <2>1, <2>4 DEF QueueShape, Lists, OnList
  <2> QED
    BY <2>1, <2>2, <2>3, <2>5 DEF FairNeverFree, Place, Holding
<1> QED
  BY <1>1, HandedInvariant, PTL

\* First come, first served: threads join the queue at one end and leave it at
\* the other, and while anybody is queued nobody comes to own the mutex but a
\* thread that has been popped.
InTurn ==
  /\ \/ queue' = queue
     \/ queue # <<>> /\ queue' = Tail(queue)
     \/ \E t \in Threads : queue' = Append(queue, t)
  /\ queue # <<>> => \A t \in Owners' \ Owners : Popped(t)

LEMMA InTurnStep ==
  ASSUME HandedInv, HandedInv', NEW t \in Threads, FairStep(t),
         ~CallTryLockFor(t), ~ParkTimeout(t), ~RemoveNode(t)
  PROVE  InTurn
<1> USE DEF Goto
<1>v. VarsOK /\ FairVars /\ Awaited
  BY DEF HandedInv, FairInv, MixedInv, TypeOK, VarsOK
<1> USE <1>v DEF VarsOK
<1>1. \/ queue' = queue
      \/ queue # <<>> /\ queue' = Tail(queue)
      \/ \E u \in Threads : queue' = Append(queue, u)
  BY DEF FairStep, CallLock, CallTryLock, LockTry, EnterPush, SleepAcquire, SleepMark,
       SleepPush, SleepPanic, Woken, TakeFair, TryLock, CallUnlockFair, FairEmpty,
       FairPop, TakeTail, TakeData, HandOver, FairWake
<1>2. ASSUME queue # <<>>, NEW u \in Threads, u \in Owners', u \notin Owners
      PROVE  Popped(u)
  <2>1. /\ pc'[u] \in Holding \/ ("FAIR" \in state' /\ Popped(u)')
        /\ pc[u] \notin Holding /\ ~("FAIR" \in state /\ Popped(u))
    BY <1>2 DEF Owners, Handed, Popped
  <2>2. "LOCKED" \in state
    BY <1>2 DEF FairVars, FairNeverFree
  <2>3. CASE CallLock(t) \/ CallTryLock(t) \/ LockTry(t) \/ EnterPush(t) \/ SleepAcquire(t)
               \/ SleepMark(t) \/ SleepPanic(t) \/ TryLock(t) \/ CallUnlockFair(t)
               \/ TakeData(t)
    <3>1. /\ UNCHANGED on_list /\ \A v \in Threads \ {t} : pc'[v] = pc[v]
          /\ pc'[t] \in Holding => pc[t] \in Holding
          /\ pc'[t] \notin {"park", "take_fair"}
      BY <2>2, <2>3 DEF CallLock, CallTryLock, LockTry, EnterPush, SleepAcquire, SleepMark,
           SleepPanic, TryLock, CallUnlockFair, TakeData, Taking, Holding, FairVars, Handover
    <3> QED
      BY <2>1, <3>1 DEF Popped
  <2>4. CASE Woken(t) \/ TakeFair(t)
    <3>1. /\ UNCHANGED on_list /\ \A v \in Threads \ {t} : pc'[v] = pc[v]
          /\ flag[t] /\ pc[t] \in {"park", "take_fair"}
      BY <2>4 DEF Woken, TakeFair, LeaveFrame, FairVars, Handover
    <3>2. Popped(t)
      BY <3>1 DEF FairVars, Handover, Popped
    <3> QED
      BY <2>1, <3>1, <3>2 DEF Popped
  <2>5. CASE SleepPush(t) \/ FairPop(t)
    <3>1. /\ UNCHANGED state /\ "FAIR" \notin state
          /\ \A v \in Threads \ {t} : pc'[v] = pc[v]
          /\ pc'[t] \in Holding => pc[t] \in Holding
      BY <2>5 DEF SleepPush, FairPop, TakeTail, Holding, FairVars, Place
    <3> QED
      BY <2>1, <3>1
  <2>6. CASE FairEmpty(t) \/ HandOver(t) \/ FairWake(t)
    <3>1. /\ UNCHANGED on_list /\ \A v \in Threads \ {t} : pc'[v] = pc[v]
          /\ pc'[t] \in {"idle", "fair_wake"}
      BY <2>6 DEF FairEmpty, HandOver, FairWake
    <3> QED
      BY <2>1, <3>1 DEF Popped, Holding
  <2> QED
    BY <2>3, <2>4, <2>5, <2>6 DEF FairStep
<1> QED
  BY <1>1, <1>2 DEF InTurn, Owners

\* With unlock_fair() alone: no newcomer overtakes the queue, and the queue is
\* served in the order of arrival.
THEOREM RawMutexFairInTurn ==
  ASSUME NoUnlock, NoTimeouts
  PROVE  Spec => [][InTurn]_vars
<1>1. HandedInv /\ HandedInv' /\ [Next]_vars => [InTurn]_vars
  <2> SUFFICES ASSUME HandedInv, HandedInv', NEW t \in Threads, FairStep(t)
               PROVE  InTurn
    BY FairNext DEF HandedInv, FairInv, FairVars
  <2>1. ~CallTryLockFor(t) /\ ~ParkTimeout(t) /\ ~RemoveNode(t)
    BY DEF NoTimeouts, CallTryLockFor, ParkTimeout, RemoveNode, HandedInv, Awaited
  <2> QED
    BY <2>1, InTurnStep
<1> QED
  BY <1>1, HandedInvariant, PTL DEF Spec
-----------------------------------------------------------------------------
(* The refinement of AbstractLock, with unlock_fair() alone.  A locker that *)
(* panics abandons its call.                                                *)

WishOf(l) == IF l \in Waiting THEN "lock" ELSE IF l = "try" THEN "try" ELSE "none"

\* Owner and wishes, in terms of the threads that own the mutex.
Mapped ==
  /\ Owners = {t \in Threads : pc[t] \in Holding \/ ("FAIR" \in state /\ Popped(t))}
  /\ \A t \in Owners : Owner = t
  /\ Owners = {} => Owner = Null
  /\ Want = [t \in Threads |-> IF t \in Owners THEN "none" ELSE WishOf(pc[t])]

LEMMA FairMapped == HandedInv => Mapped
<1> SUFFICES ASSUME HandedInv PROVE Mapped
  OBVIOUS
<1>1. \A t \in Owners : Owner = t
  BY FairOwners DEF HandedInv, Owner
<1>2. \A t \in Threads : pc[t] # "remove" /\ ~timed[t]
  BY DEF HandedInv, Awaited
<1>3. Want = [t \in Threads |-> IF t \in Owners THEN "none" ELSE WishOf(pc[t])]
  BY <1>2 DEF Want, WishOf, InLock
<1> QED
  BY <1>1, <1>3, FairOwners DEF HandedInv, Mapped, Owner

\* A step of t that changes no owner and no wish stutters.
LEMMA FairSilent ==
  ASSUME Mapped, Mapped', NEW t \in Threads,
         \A u \in Threads \ {t} : pc'[u] = pc[u],
         Owners' = Owners,
         t \in Owners \/ WishOf(pc'[t]) = WishOf(pc[t])
  PROVE  UNCHANGED <<Owner, Want>>
<1>1. Owner' = Owner
  <2>1. CASE Owners = {}
    BY <2>1 DEF Mapped
  <2>2. CASE Owners # {}
    BY <2>2 DEF Mapped
  <2> QED
    BY <2>1, <2>2
<1>2. Want' = Want
  BY DEF Mapped
<1> QED
  BY <1>1, <1>2

LEMMA FairRefinementStep ==
  ASSUME NoUnlock, NoTimeouts
  PROVE  HandedInv /\ HandedInv' /\ [Next]_vars => [Lock!AbsNext]_(Lock!absVars)
<1> SUFFICES ASSUME HandedInv, HandedInv', [Next]_vars
             PROVE  Lock!AbsNext \/ UNCHANGED <<Owner, Want>>
  BY DEF Lock!absVars
<1>m. Mapped /\ Mapped'
  BY FairMapped, PTL
<1>s. CASE UNCHANGED vars
  BY <1>s DEF vars, Owner, Owners, Handed, Want, InLock
<1>t. ASSUME NEW t \in Threads, FairStep(t)
      PROVE  Lock!AbsNext \/ UNCHANGED <<Owner, Want>>
  <2> USE DEF Goto
  <2>v. VarsOK /\ FairVars /\ Awaited
    BY DEF HandedInv, FairInv, MixedInv, TypeOK, VarsOK
  <2> USE <2>v DEF VarsOK
  <2>w. /\ Want = [u \in Threads |-> IF u \in Owners THEN "none" ELSE WishOf(pc[u])]
        /\ Want' = [u \in Threads |-> IF u \in Owners' THEN "none" ELSE WishOf(pc'[u])]
    BY <1>m DEF Mapped
  <2>1. CASE EnterPush(t) \/ SleepMark(t) \/ SleepPush(t) \/ Woken(t)
               \/ TakeFair(t) \/ CallUnlockFair(t)
    <3>1. \A u \in Threads \ {t} : pc'[u] = pc[u] /\ (on_list'[u] <=> on_list[u])
      BY <2>1 DEF EnterPush, SleepMark, SleepPush, Woken, TakeFair, LeaveFrame, CallUnlockFair
    <3>2. Owners' = Owners
      BY <1>m, <2>1, <3>1 DEF EnterPush, SleepMark, SleepPush, Woken, TakeFair, LeaveFrame,
           CallUnlockFair, Mapped, Popped, Holding, FairVars, Handover, Place, Awaited
    <3>3. t \in Owners \/ WishOf(pc'[t]) = WishOf(pc[t])
      BY <1>m, <2>1, <3>1 DEF EnterPush, SleepMark, SleepPush, Woken, TakeFair, LeaveFrame,
           CallUnlockFair, WishOf, Waiting, Mapped, Popped, Holding, FairVars, Handover
    <3> QED
      BY <1>m, <3>1, <3>2, <3>3, FairSilent
  <2>2. CASE FairPop(t) \/ TakeData(t) \/ FairWake(t)
    <3>1. /\ \A u \in Threads \ {t} : pc'[u] = pc[u]
          /\ UNCHANGED state
          /\ \/ pc[t] = "fair_pop" /\ pc'[t] = "fair_take" /\ "FAIR" \notin state
             \/ pc[t] = "fair_take" /\ pc'[t] = "hand_over" /\ on_list' = on_list
             \/ pc[t] = "fair_wake" /\ pc'[t] = "idle" /\ on_list' = on_list
      BY <2>2 DEF FairPop, TakeTail, TakeData, Taking, FairWake, FairVars, Place, Holding,
           Handover
    <3>2. Owners' = Owners
      BY <1>m, <3>1 DEF Mapped, Popped, Holding
    <3>3. WishOf(pc'[t]) = WishOf(pc[t])
      BY <3>1 DEF WishOf, Waiting
    <3> QED
      BY <1>m, <3>1, <3>2, <3>3, FairSilent
  <2>3. CASE CallLock(t) \/ CallTryLock(t)
    <3>1. /\ \A u \in Threads \ {t} : pc'[u] = pc[u]
          /\ pc[t] = "idle" /\ pc'[t] \in {"lock", "try"}
          /\ UNCHANGED <<state, on_list>>
      BY <2>3 DEF CallLock, CallTryLock
    <3>2. Owners' = Owners /\ t \notin Owners
      BY <1>m, <3>1 DEF Mapped, Popped, Holding
    <3>3. Owner' = Owner /\ Owner # t
      BY <1>m, <3>2, RawMutexAssumption DEF Mapped
    <3>4. /\ Want[t] = "none"
          /\ WishOf(pc'[t]) \in Lock!Requests
          /\ Want' = [Want EXCEPT ![t] = WishOf(pc'[t])]
      BY <2>w, <3>1, <3>2 DEF WishOf, Waiting, Lock!Requests
    <3>5. Lock!Request(t)
      BY <3>3, <3>4 DEF Lock!Request
    <3> QED
      BY <3>5 DEF Lock!AbsNext
  <2>4. CASE LockTry(t) \/ SleepAcquire(t) \/ TryLock(t)
    <3>1. /\ \A u \in Threads \ {t} : pc'[u] = pc[u]
          /\ on_list' = on_list /\ pc[t] \in {"lock", "sleep", "try"}
      BY <2>4 DEF LockTry, SleepAcquire, TryLock
    <3>2. CASE "LOCKED" \notin state
      <4>1. /\ pc'[t] = "own" /\ "FAIR" \notin state /\ "FAIR" \notin state'
        BY <2>4, <3>2 DEF LockTry, SleepAcquire, TryLock, FairVars, Place
      <4>2. Owners = {} /\ Owners' = {t}
        BY <1>m, <3>1, <3>2, <4>1 DEF Mapped, FairVars, Place, Holding
      <4>3. Owner = Null /\ Owner' = t
        BY <1>m, <4>2 DEF Mapped
      <4>4. Want[t] # "none" /\ Want' = [Want EXCEPT ![t] = "none"]
        BY <2>w, <3>1, <4>2 DEF WishOf, Waiting
      <4>5. Lock!Grant(t)
        BY <4>3, <4>4 DEF Lock!Grant
      <4> QED
        BY <4>5 DEF Lock!AbsNext
    <3>3. CASE "LOCKED" \in state
      <4>1. /\ state' = state
            /\ \/ pc[t] = "lock" /\ pc'[t] = "push"
               \/ pc[t] = "try" /\ pc'[t] = "idle"
        BY <2>4, <3>3 DEF LockTry, SleepAcquire, TryLock
      <4>2. Owners' = Owners /\ t \notin Owners
        BY <1>m, <3>1, <4>1 DEF Mapped, Popped, Holding
      <4>3. CASE pc[t] = "lock"
        <5>1. WishOf(pc'[t]) = WishOf(pc[t])
          BY <4>1, <4>3 DEF WishOf, Waiting
        <5> QED
          BY <1>m, <3>1, <4>2, <5>1, FairSilent
      <4>4. CASE pc[t] = "try"
        <5>1. Owners # {}
          BY <3>3, HandedLocked
        <5>2. Owner' = Owner /\ Owner # Null
          BY <1>m, <4>2, <5>1, RawMutexAssumption DEF Mapped
        <5>3. Want[t] = "try" /\ Want' = [Want EXCEPT ![t] = "none"]
          BY <2>w, <3>1, <4>1, <4>2, <4>4 DEF WishOf, Waiting
        <5>4. Lock!Refuse(t)
          BY <5>2, <5>3 DEF Lock!Refuse
        <5> QED
          BY <5>4 DEF Lock!AbsNext
      <4> QED
        BY <4>1, <4>3, <4>4
    <3> QED
      BY <3>2, <3>3
  <2>5. CASE FairEmpty(t)
    <3>1. /\ \A u \in Threads \ {t} : pc'[u] = pc[u]
          /\ pc[t] = "fair_pop" /\ pc'[t] = "idle"
          /\ "FAIR" \notin state /\ "FAIR" \notin state'
      BY <2>5 DEF FairEmpty, FairVars, Place, Holding
    <3>2. Owners = {t} /\ Owners' = {}
      BY <1>m, <3>1 DEF Mapped, FairVars, Place, MutualExclusion, Holding
    <3>3. Owner = t /\ Owner' = Null
      BY <1>m, <3>2 DEF Mapped
    <3>4. Want' = Want
      BY <2>w, <3>1, <3>2 DEF WishOf, Waiting
    <3>5. Lock!Yield(t)
      BY <3>3, <3>4 DEF Lock!Yield
    <3> QED
      BY <3>5 DEF Lock!AbsNext
  <2>6. CASE HandOver(t)
    <3>1. /\ \A u \in Threads \ {t} : pc'[u] = pc[u]
          /\ pc[t] = "hand_over" /\ pc'[t] = "fair_wake" /\ on_list' = on_list
          /\ "FAIR" \notin state /\ "FAIR" \in state'
      BY <2>6 DEF HandOver, FairVars, Place, Holding
    <3>2. /\ target[t] \in Threads /\ target[t] # t
          /\ pc[target[t]] = "park" /\ Popped(target[t])
      BY <3>1 DEF FairVars, Handover, Popped, Awaited
    <3>3. Owners = {t} /\ Owners' = {target[t]}
      BY <1>m, <3>1, <3>2 DEF Mapped, Popped, FairVars, Place, MutualExclusion, Holding
    <3>4. Owner = t /\ Owner' = target[t]
      BY <1>m, <3>3 DEF Mapped
    <3>5. Want[target[t]] # "none" /\ Want' = [Want EXCEPT ![target[t]] = "none"]
      BY <2>w, <3>1, <3>2, <3>3 DEF WishOf, Waiting
    <3>6. Lock!HandTo(t, target[t])
      BY <3>4, <3>5 DEF Lock!HandTo
    <3> QED
      BY <3>2, <3>6 DEF Lock!AbsNext
  <2>7. CASE SleepPanic(t)
    <3>1. /\ \A u \in Threads \ {t} : pc'[u] = pc[u]
          /\ pc[t] = "sleep" /\ pc'[t] = "panicked" /\ Debug
          /\ UNCHANGED <<state, on_list>>
      BY <2>7 DEF SleepPanic
    <3>2. Owners' = Owners /\ t \notin Owners
      BY <1>m, <3>1 DEF Mapped, Popped, Holding
    <3>3. Owner' = Owner
      BY <1>m, <3>2 DEF Mapped
    <3>4. Want[t] = "lock" /\ Want' = [Want EXCEPT ![t] = "none"]
      BY <2>w, <3>1, <3>2 DEF WishOf, Waiting
    <3>5. Lock!Abandon(t)
      BY <3>1, <3>3, <3>4 DEF Lock!Abandon
    <3> QED
      BY <3>5 DEF Lock!AbsNext
  <2>8. ~CallTryLockFor(t) /\ ~ParkTimeout(t) /\ ~RemoveNode(t)
    BY DEF NoTimeouts, CallTryLockFor, ParkTimeout, RemoveNode, Awaited
  <2> QED
    BY <1>t, <2>1, <2>2, <2>3, <2>4, <2>5, <2>6, <2>7, <2>8 DEF FairStep
<1> QED
  BY <1>s, <1>t, FairNext DEF HandedInv, FairInv, FairVars

\* With unlock_fair() alone RawMutex implements the safety of AbstractLock, in
\* builds with and without debug assertions: setting the FAIR bit passes the
\* lock on, and a locker that panics abandons its call.
THEOREM RawMutexFairRefinement ==
  ASSUME NoUnlock, NoTimeouts
  PROVE  Spec => ImplementsSafely
BY MappedInit, FairRefinementStep, HandedInvariant, PTL DEF Spec, ImplementsSafely, Lock!AbsSpec
-----------------------------------------------------------------------------
(* No pop is torn without timeouts.                                        *)

\* Without timeouts, and with either unlock() or unlock_fair(): nobody drops a
\* node between the swap of its is_on_list and the rest of the pop.
THEOREM RawMutexNeverTorn ==
  ASSUME NoTimeouts, NoUnlockFair \/ NoUnlock
  PROVE  Spec => []~Torn
<1>1. CASE NoUnlockFair
  <2>1. PlainInv => ~Torn
    BY DEF PlainInv, UnfairInv, Basics, NoFair, Sleepers, Torn, TornWithout,
       Taking, Popping, HasNode
  <2> QED
    BY <1>1, <2>1, PlainInvariant, PTL
<1>2. CASE NoUnlock
  <2>1. HandedInv => ~Torn
    BY DEF HandedInv, FairInv, FairVars, Handover, Awaited, Torn, TornWithout,
       Taking, Popping, HasNode
  <2> QED
    BY <1>2, <2>1, HandedInvariant, PTL
<1> QED
  BY <1>1, <1>2

\* So the list is used as AbstractList asks for ever.
THEOREM RawMutexPlainUsesList ==
  ASSUME NoTimeouts, NoUnlockFair \/ NoUnlock
  PROVE  Spec => Sequence!AbsInit /\ [][Sequence!AbsNext]_(Sequence!absVars)
<1>1. ~Torn' /\ [Sequence!AbsNext \/ Torn']_(Sequence!absVars)
        => [Sequence!AbsNext]_(Sequence!absVars)
  OBVIOUS
<1> QED
  BY <1>1, RawMutexUsesList, RawMutexNeverTorn, PTL
-----------------------------------------------------------------------------
(* Parkers are used as AbstractPark asks, and Parking implements.          *)

Phase ==
  [t \in Threads |-> IF pc[t] # "park" THEN "running"
                     ELSE IF flag[t] THEN "woken" ELSE "asleep"]

Parkers == INSTANCE AbstractPark WITH Sleepers <- Threads, phase <- Phase

\* Nobody goes to sleep with his flag up or leaves early, and a Waker is used
\* for a thread that sleeps.
Courteous ==
  \A t \in Threads :
    /\ ~timed[t]
    /\ pc[t] = "sleep" /\ "FAIR" \notin state => ~flag[t]
    /\ pc[t] \in {"wake", "fair_wake"} =>
         /\ t \notin stale /\ target[t] \in Threads
         /\ pc[target[t]] = "park" /\ ~flag[target[t]]

LEMMA CourteousInvariant ==
  ASSUME NoTimeouts, NoUnlockFair \/ NoUnlock
  PROVE  Spec => []Courteous
<1>1. CASE NoUnlockFair
  <2>1. PlainInv => Courteous
    BY DEF PlainInv, UnfairInv, Basics, NoFair, Sleepers, Courteous
  <2> QED
    BY <1>1, <2>1, PlainInvariant, PTL
<1>2. CASE NoUnlock
  <2>1. HandedInv => Courteous
    BY DEF HandedInv, FairInv, FairVars, Handover, Awaited, Courteous
  <2> QED
    BY <1>2, <2>1, HandedInvariant, PTL
<1> QED
  BY <1>1, <1>2

\* A step of a thread that neither goes to sleep nor comes back.
LEMMA PhaseFrame ==
  ASSUME NEW t \in Threads,
         \A u \in Threads \ {t} : pc'[u] = pc[u] /\ flag'[u] = flag[u],
         pc[t] # "park", pc'[t] # "park"
  PROVE  UNCHANGED Phase
BY DEF Phase

LEMMA ParkersStep ==
  TypeOK /\ Courteous /\ [Next]_vars => [Parkers!AbsNext]_Phase
<1> SUFFICES ASSUME TypeOK, Courteous, [Next]_vars
             PROVE  Parkers!AbsNext \/ UNCHANGED Phase
  OBVIOUS
<1> USE DEF TypeOK, Goto
<1>1. ASSUME NEW t \in Threads,
             CallLock(t) \/ CallTryLockFor(t) \/ CallTryLock(t) \/ CallBump(t)
               \/ LockTry(t) \/ EnterPush(t) \/ SleepAcquire(t) \/ SleepMark(t)
               \/ SleepPanic(t) \/ TryLock(t)
      PROVE  UNCHANGED Phase
  <2>1. /\ \A u \in Threads \ {t} : pc'[u] = pc[u] /\ flag'[u] = flag[u]
        /\ pc[t] # "park" /\ pc'[t] # "park"
    BY <1>1 DEF CallLock, CallTryLockFor, CallTryLock, CallBump, LockTry, EnterPush,
         SleepAcquire, SleepMark, SleepPanic, TryLock
  <2> QED
    BY <2>1, PhaseFrame
<1>2. ASSUME NEW t \in Threads,
             Unlock(t) \/ BumpUnlock(t) \/ PopEmpty(t) \/ PopTail(t) \/ ClearWait(t)
               \/ CallUnlockFair(t) \/ FairEmpty(t) \/ FairPop(t) \/ HandOver(t)
               \/ RemoveNode(t) \/ TakeData(t)
      PROVE  UNCHANGED Phase
  <2>1. /\ \A u \in Threads \ {t} : pc'[u] = pc[u] /\ flag'[u] = flag[u]
        /\ pc[t] # "park" /\ pc'[t] # "park"
    BY <1>2 DEF Unlock, BumpUnlock, ClearLocked, PopEmpty, PopTail, TakeTail, ClearWait,
         CallUnlockFair, FairEmpty, FairPop, HandOver, RemoveNode, TakeData, Taking
  <2> QED
    BY <2>1, PhaseFrame
<1>3. ASSUME NEW t \in Threads, TakeFair(t) PROVE UNCHANGED Phase
  <2>1. /\ \A u \in Threads \ {t} : pc'[u] = pc[u] /\ flag'[u] = flag[u]
        /\ pc[t] # "park" /\ pc'[t] # "park"
    BY <1>3 DEF TakeFair, LeaveFrame
  <2> QED
    BY <2>1, PhaseFrame
<1>4. ASSUME NEW t \in Threads, SleepPush(t) PROVE Parkers!AbsNext
  <2>1. ~flag[t]
    BY <1>4 DEF SleepPush, Courteous
  <2>2. Parkers!Sleep(t)
    BY <1>4, <2>1 DEF SleepPush, Phase, Parkers!Sleep
  <2> QED
    BY <2>2 DEF Parkers!AbsNext
<1>5. ASSUME NEW t \in Threads, Woken(t) PROVE Parkers!AbsNext
  <2>1. /\ pc[t] = "park" /\ flag[t] /\ pc' = [pc EXCEPT ![t] = pc'[t]]
        /\ pc'[t] # "park" /\ \A u \in Threads \ {t} : flag'[u] = flag[u]
    BY <1>5 DEF Woken, LeaveFrame
  <2>2. Parkers!Return(t)
    BY <2>1 DEF Phase, Parkers!Return
  <2> QED
    BY <2>2 DEF Parkers!AbsNext
<1>6. ASSUME NEW t \in Threads, Wake(t) \/ FairWake(t) PROVE Parkers!AbsNext
  <2>1. /\ target[t] \in Threads /\ pc[target[t]] = "park" /\ ~flag[target[t]]
        /\ target[t] # t /\ t \notin stale
    BY <1>6 DEF Wake, FairWake, Courteous
  <2>2. /\ flag' = [flag EXCEPT ![target[t]] = TRUE]
        /\ \A u \in Threads \ {t} : pc'[u] = pc[u]
        /\ pc[t] # "park" /\ pc'[t] # "park"
    BY <1>6, <2>1 DEF Wake, FairWake, UseWaker
  <2>3. Parkers!Rouse(target[t])
    BY <2>1, <2>2 DEF Phase, Parkers!Rouse
  <2> QED
    BY <2>1, <2>3 DEF Parkers!AbsNext
<1>7. ASSUME NEW t \in Threads PROVE ~ParkTimeout(t)
  BY DEF ParkTimeout, Courteous
<1>8. CASE UNCHANGED vars
  BY <1>8 DEF vars, Phase
<1> QED
  BY <1>1, <1>2, <1>3, <1>4, <1>5, <1>6, <1>7, <1>8 DEF Next, Call, Step, Contend, Release, Undefined

\* Without timeouts, and with either unlock() or unlock_fair(): each Parker is
\* woken once at most, while its thread is in park().  A thread that times out
\* breaks this, since the Waker that was popped outlives its Parker.
THEOREM RawMutexUsesParkers ==
  ASSUME NoTimeouts, NoUnlockFair \/ NoUnlock
  PROVE  Spec => Parkers!AbsSpec
<1>1. Init => Parkers!AbsInit
  BY DEF Init, Parkers!AbsInit, Phase
<1>2. MixedInv => TypeOK
  BY DEF MixedInv
<1> QED
  BY <1>1, <1>2, MixedInvariant, CourteousInvariant, ParkersStep, PTL DEF Spec, Parkers!AbsSpec
=============================================================================
