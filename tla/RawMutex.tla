------------------------------ MODULE RawMutex ------------------------------
(***************************************************************************)
(* colock's RawMutex as threads use it: a state byte of three bits and a   *)
(* ConcurrentIntrusiveList of waiting threads, guarded by a MiniLock that  *)
(* MiniLock.tla shows to be a lock.  Here that lock is `list_lock`, the    *)
(* list is the sequence of its nodes from the tail (popped first) to the   *)
(* head, and a node is the thread that waits on it.                        *)
(*                                                                         *)
(* One action per atomic access that another thread can see.  Taking the   *)
(* list lock is merged with the first access under it, and giving it back  *)
(* with the last one: nothing else happens in between that a thread could  *)
(* notice.  Memory is sequentially consistent.                             *)
(*                                                                         *)
(* The drop of a node looks at is_on_list and not at the list lock, so a   *)
(* pop is two steps: a thread whose timeout passes between them leaves the *)
(* popper with a node that is gone.  The model shows this state (Torn) and *)
(* ends there.                                                             *)
(***************************************************************************)
EXTENDS WaitQueues, Naturals, Sequences, FiniteSets

CONSTANTS Threads,  \* the threads that use the mutex
          Null,     \* not a thread
          Calls,    \* the operations the threads use
          Debug     \* are the debug_assert!s compiled in?

AllCalls == {"lock", "try_lock", "try_lock_for",
             "unlock", "unlock_fair", "bump"}

ASSUME RawMutexAssumption ==
  /\ IsFiniteSet(Threads)
  /\ Null \notin Threads
  /\ Calls \subseteq AllCalls
  /\ Debug \in BOOLEAN

VARIABLES state,      \* RawMutex::state: the bits that are set
          queue,      \* RawMutex::queue, oldest node first
          list_lock,  \* the holder of ConcurrentIntrusiveList::inner_list
          on_list,    \* Node::is_on_list of each thread's node
          flag,       \* Parker::should_wakeup of each thread's Parker
          timed,      \* is the thread inside of try_lock_for?
          target,     \* the thread whose Waker the thread has popped
          stale,      \* threads whose target's node and Parker are gone
          goal,       \* where the thread goes when it is done with unlock()
                      \* or with removing its node
          pc          \* where each thread is

vars == <<state, queue, list_lock, on_list, flag, timed, target, stale, goal, pc>>

Bits == {"LOCKED", "WAIT", "FAIR"}

\* "poll" is where a task of Mutex.tla is when it polls again.
Locations ==
  {"idle", "lock", "poll", "push", "sleep", "park", "take_fair", "remove", "try",
   "own", "bump", "pop", "take", "wake", "clear_wait",
   "fair_pop", "fair_take", "hand_over", "fair_wake", "panicked"}

\* Where a thread is in the middle of a pop ...
Taking == {"take", "fair_take"}

\* ... or has popped a Waker it has not used yet.
Popping == Taking \cup {"wake", "hand_over", "fair_wake"}

TypeOK ==
  /\ state \subseteq Bits
  /\ \E n \in 0..Cardinality(Threads) : queue \in [1..n -> Threads]
  /\ list_lock \in Threads \cup {Null}
  /\ on_list \in [Threads -> BOOLEAN]
  /\ flag \in [Threads -> BOOLEAN]
  /\ timed \in [Threads -> BOOLEAN]
  /\ target \in [Threads -> Threads \cup {Null}]
  /\ stale \subseteq Threads
  /\ goal \in [Threads -> {"idle", "lock", "own"}]
  /\ pc \in [Threads -> Locations]

Init ==
  /\ state = {}
  /\ queue = <<>>
  /\ list_lock = Null
  /\ on_list = [t \in Threads |-> FALSE]
  /\ flag = [t \in Threads |-> FALSE]
  /\ timed = [t \in Threads |-> FALSE]
  /\ target = [t \in Threads |-> Null]
  /\ stale = {}
  /\ goal = [t \in Threads |-> "idle"]
  /\ pc = [t \in Threads |-> "idle"]

Goto(t, l) == pc' = [pc EXCEPT ![t] = l]

\* The frame of lock_inner ends.  A node that is not on the list any more is
\* dropped without the list lock, whoever may still point at it; what is in
\* the memory is forgotten.
LeaveFrame(t, l) ==
  IF on_list[t]
    THEN /\ goal' = [goal EXCEPT ![t] = l]
         /\ Goto(t, "remove")
         /\ UNCHANGED <<stale, flag>>
    ELSE /\ stale' = stale \cup {p \in Threads : target[p] = t /\ pc[p] \in Popping}
         /\ flag' = [flag EXCEPT ![t] = FALSE]
         /\ Goto(t, l)
         /\ UNCHANGED goal
-----------------------------------------------------------------------------
(* lock(), try_lock_for() and try_lock_until(): lock_inner                 *)

CallLock(t) ==
  /\ "lock" \in Calls /\ pc[t] = "idle"
  /\ timed' = [timed EXCEPT ![t] = FALSE]
  /\ Goto(t, "lock")
  /\ UNCHANGED <<state, queue, list_lock, on_list, flag, target, stale, goal>>

CallTryLockFor(t) ==
  /\ "try_lock_for" \in Calls /\ pc[t] = "idle"
  /\ timed' = [timed EXCEPT ![t] = TRUE]
  /\ Goto(t, "lock")
  /\ UNCHANGED <<state, queue, list_lock, on_list, flag, target, stale, goal>>

\* try_lock() at the top of the loop; when it fails, a new Parker and node.
LockTry(t) ==
  /\ pc[t] = "lock"
  /\ IF "LOCKED" \notin state
       THEN /\ state' = state \cup {"LOCKED"}
            /\ Goto(t, "own")
            /\ UNCHANGED flag
       ELSE /\ flag' = [flag EXCEPT ![t] = FALSE]
            /\ Goto(t, "push")
            /\ UNCHANGED state
  /\ UNCHANGED <<queue, list_lock, on_list, timed, target, stale, goal>>

\* push_head takes the list lock.
EnterPush(t) ==
  /\ pc[t] = "push" /\ list_lock = Null
  /\ list_lock' = t
  /\ Goto(t, "sleep")
  /\ UNCHANGED <<state, queue, on_list, flag, timed, target, stale, goal>>

\* Mutant of SleepAcquire: the exchange does not look at LOCKED_BIT.
SleepAcquireAnyway(t) ==
  /\ pc[t] = "sleep"
  /\ state' = state \cup {"LOCKED"}
  /\ list_lock' = Null
  /\ Goto(t, "own")
  /\ UNCHANGED <<queue, on_list, flag, timed, target, stale, goal>>

\* should_sleep: the lock is free after all: take it and abort the push.
SleepAcquire(t) ==
  /\ pc[t] = "sleep" /\ "LOCKED" \notin state
  /\ state' = state \cup {"LOCKED"}
  /\ list_lock' = Null
  /\ Goto(t, "own")
  /\ UNCHANGED <<queue, on_list, flag, timed, target, stale, goal>>

\* should_sleep: announce a waiter.  The exchange returns the old value, so
\* the loop looks at the state once more.
SleepMark(t) ==
  /\ pc[t] = "sleep" /\ state = {"LOCKED"}
  /\ state' = {"LOCKED", "WAIT"}
  /\ UNCHANGED <<queue, list_lock, on_list, flag, timed, target, stale, goal, pc>>

\* Mutant of SleepPush: only the WAIT bit is tested before going to sleep.
SleepPushUnlocked(t) ==
  /\ pc[t] = "sleep" /\ "WAIT" \in state
  /\ queue' = Append(queue, t)
  /\ on_list' = [on_list EXCEPT ![t] = TRUE]
  /\ list_lock' = Null
  /\ Goto(t, "park")
  /\ UNCHANGED <<state, flag, timed, target, stale, goal>>

\* Mutant of SleepPush: push_tail, so that the newest waiter is popped first.
SleepPushTail(t) ==
  /\ pc[t] = "sleep" /\ state = {"LOCKED", "WAIT"}
  /\ queue' = <<t>> \o queue
  /\ on_list' = [on_list EXCEPT ![t] = TRUE]
  /\ list_lock' = Null
  /\ Goto(t, "park")
  /\ UNCHANGED <<state, flag, timed, target, stale, goal>>

\* should_sleep returns true: push the node and let go of the list lock.
SleepPush(t) ==
  /\ pc[t] = "sleep" /\ state = {"LOCKED", "WAIT"}
  /\ queue' = Append(queue, t)
  /\ on_list' = [on_list EXCEPT ![t] = TRUE]
  /\ list_lock' = Null
  /\ Goto(t, "park")
  /\ UNCHANGED <<state, flag, timed, target, stale, goal>>

\* Mutant of SleepPanic: the guard of the list lock is not dropped.
SleepPanicKeepsLock(t) ==
  /\ pc[t] = "sleep" /\ {"LOCKED", "FAIR"} \subseteq state /\ Debug
  /\ Goto(t, "panicked")
  /\ UNCHANGED <<state, queue, list_lock, on_list, flag, timed, target, stale, goal>>

\* should_sleep: the debug_assert!(current_state == LOCKED_BIT) fails; the
\* unwinding drops the guard of the list lock.  Without debug assertions the
\* loop goes round until the FAIR bit is gone, list lock in hand.
SleepPanic(t) ==
  /\ pc[t] = "sleep" /\ {"LOCKED", "FAIR"} \subseteq state /\ Debug
  /\ list_lock' = Null
  /\ Goto(t, "panicked")
  /\ UNCHANGED <<state, queue, on_list, flag, timed, target, stale, goal>>

\* Mutant of Woken: park() returns without a look at the flag.
WokenSpuriously(t) ==
  /\ pc[t] = "park"
  /\ IF "FAIR" \in state
       THEN Goto(t, "take_fair") /\ UNCHANGED <<flag, stale, goal>>
       ELSE LeaveFrame(t, "lock")
  /\ UNCHANGED <<state, queue, list_lock, on_list, timed, target>>

\* Parker::park (or park_until) returns because the flag is up; then the
\* load of the FAIR bit.
Woken(t) ==
  /\ pc[t] = "park" /\ flag[t]
  /\ IF "FAIR" \in state
       THEN Goto(t, "take_fair") /\ UNCHANGED <<flag, stale, goal>>
       ELSE LeaveFrame(t, "lock")
  /\ UNCHANGED <<state, queue, list_lock, on_list, timed, target>>

\* "it was fairly handed to us!"
TakeFair(t) ==
  /\ pc[t] = "take_fair"
  /\ state' = state \ {"FAIR"}
  /\ LeaveFrame(t, "own")
  /\ UNCHANGED <<queue, list_lock, on_list, timed, target>>

\* Mutant of ParkTimeout: lock_inner returns true.
ParkTimeoutOwns(t) ==
  /\ pc[t] = "park" /\ timed[t]
  /\ LeaveFrame(t, "own")
  /\ UNCHANGED <<state, queue, list_lock, on_list, timed, target>>

\* Parker::park_until gives up.  It looks at the clock before the flag, so
\* the flag may be up already.
ParkTimeout(t) ==
  /\ pc[t] = "park" /\ timed[t]
  /\ LeaveFrame(t, "idle")
  /\ UNCHANGED <<state, queue, list_lock, on_list, timed, target>>

\* Mutant of RemoveNode: the node is dropped while the list points to it.
RemoveNodeLinked(t) ==
  /\ pc[t] = "remove" /\ list_lock = Null
  /\ on_list' = [on_list EXCEPT ![t] = FALSE]
  /\ Goto(t, goal[t])
  /\ goal' = [goal EXCEPT ![t] = "idle"]
  /\ flag' = [flag EXCEPT ![t] = FALSE]
  /\ UNCHANGED <<state, queue, list_lock, timed, target, stale>>

\* Drop of a node that was on the list: take the list lock and remove it,
\* unless somebody popped it in the meantime.
RemoveNode(t) ==
  /\ pc[t] = "remove" /\ list_lock = Null
  /\ queue' = IF on_list[t] THEN Unlink(queue, t) ELSE queue
  /\ on_list' = [on_list EXCEPT ![t] = FALSE]
  /\ Goto(t, goal[t])
  /\ goal' = [goal EXCEPT ![t] = "idle"]
  /\ flag' = [flag EXCEPT ![t] = FALSE]
  /\ UNCHANGED <<state, list_lock, timed, target, stale>>
-----------------------------------------------------------------------------
(* try_lock()                                                              *)

CallTryLock(t) ==
  /\ "try_lock" \in Calls /\ pc[t] = "idle"
  /\ Goto(t, "try")
  /\ UNCHANGED <<state, queue, list_lock, on_list, flag, timed, target, stale, goal>>

\* Mutant of TryLock: a WAIT bit without LOCKED counts as locked.
TryLockIfClear(t) ==
  /\ pc[t] = "try"
  /\ state' = state \cup (IF state = {} THEN {"LOCKED"} ELSE {})
  /\ Goto(t, IF state = {} THEN "own" ELSE "idle")
  /\ UNCHANGED <<queue, list_lock, on_list, flag, timed, target, stale, goal>>

\* The last access of its loop decides.
TryLock(t) ==
  /\ pc[t] = "try"
  /\ state' = state \cup {"LOCKED"}
  /\ Goto(t, IF "LOCKED" \in state THEN "idle" ELSE "own")
  /\ UNCHANGED <<queue, list_lock, on_list, flag, timed, target, stale, goal>>
-----------------------------------------------------------------------------
(* unlock() and bump()                                                     *)

\* Mutant of ClearLocked: nobody is popped.
ClearLockedOnly(t, l) ==
  /\ state' = state \ {"LOCKED"}
  /\ Goto(t, l)
  /\ UNCHANGED <<queue, list_lock, on_list, flag, timed, target, stale, goal>>

\* fetch_and(!LOCKED_BIT), and on to the queue if WAIT_BIT was set.
ClearLocked(t, l) ==
  /\ state' = state \ {"LOCKED"}
  /\ IF "WAIT" \in state
       THEN Goto(t, "pop") /\ goal' = [goal EXCEPT ![t] = l]
       ELSE Goto(t, l) /\ UNCHANGED goal
  /\ UNCHANGED <<queue, list_lock, on_list, flag, timed, target, stale>>

Unlock(t) ==
  /\ "unlock" \in Calls /\ pc[t] = "own"
  /\ ClearLocked(t, "idle")

\* The test of bump(): somebody waits and nothing else is going on.
CallBump(t) ==
  /\ "bump" \in Calls /\ pc[t] = "own" /\ state = {"LOCKED", "WAIT"}
  /\ Goto(t, "bump")
  /\ timed' = [timed EXCEPT ![t] = FALSE]
  /\ UNCHANGED <<state, queue, list_lock, on_list, flag, target, stale, goal>>

\* The unlock() of bump(), which goes on to lock().
BumpUnlock(t) ==
  /\ pc[t] = "bump"
  /\ ClearLocked(t, "lock")

\* pop_tail finds the list empty: ||{}.
PopEmpty(t) ==
  /\ pc[t] = "pop" /\ list_lock = Null /\ queue = <<>>
  /\ Goto(t, goal[t])
  /\ goal' = [goal EXCEPT ![t] = "idle"]
  /\ UNCHANGED <<state, queue, list_lock, on_list, flag, timed, target, stale>>

\* Mutant of TakeTail: is_on_list is not cleared.
TakeTailStillOn(t, l) ==
  /\ list_lock = Null /\ queue # <<>>
  /\ list_lock' = t
  /\ queue' = Tail(queue)
  /\ target' = [target EXCEPT ![t] = Head(queue)]
  /\ Goto(t, l)
  /\ UNCHANGED <<state, on_list, flag, timed, stale, goal>>

\* pop_tail takes the list lock and swaps the is_on_list of the tail.
TakeTail(t, l) ==
  /\ list_lock = Null /\ queue # <<>>
  /\ list_lock' = t
  /\ queue' = Tail(queue)
  /\ on_list' = [on_list EXCEPT ![Head(queue)] = FALSE]
  /\ target' = [target EXCEPT ![t] = Head(queue)]
  /\ Goto(t, l)
  /\ UNCHANGED <<state, flag, timed, stale, goal>>

\* The rest of pop_tail: it reads the links of the node, takes its data and
\* writes is_on_list once more.
TakeData(t) ==
  /\ pc[t] \in Taking
  /\ Goto(t, IF pc[t] = "take" THEN "wake" ELSE "hand_over")
  /\ UNCHANGED <<state, queue, list_lock, on_list, flag, timed, target, stale, goal>>

PopTail(t) == pc[t] = "pop" /\ TakeTail(t, "take")

\* waker.wake().  If the target has left, its store goes to memory that is
\* free, or that is the Parker of another wait of the same thread.
UseWaker(t) ==
  /\ \/ flag' = [flag EXCEPT ![target[t]] = TRUE]
     \/ t \in stale /\ UNCHANGED flag
  /\ target' = [target EXCEPT ![t] = Null]
  /\ stale' = stale \ {t}

Wake(t) ==
  /\ pc[t] = "wake"
  /\ UseWaker(t)
  /\ Goto(t, "clear_wait")
  /\ UNCHANGED <<state, queue, list_lock, on_list, timed, goal>>

\* Mutant of ClearWait: WAIT_BIT is cleared whoever else is queued.
ClearWaitAlways(t) ==
  /\ pc[t] = "clear_wait"
  /\ state' = state \ {"WAIT"}
  /\ list_lock' = Null
  /\ Goto(t, goal[t])
  /\ goal' = [goal EXCEPT ![t] = "idle"]
  /\ UNCHANGED <<queue, on_list, flag, timed, target, stale>>

\* The last waiter was popped: clear WAIT_BIT; let go of the list lock.
ClearWait(t) ==
  /\ pc[t] = "clear_wait"
  /\ state' = IF queue = <<>> THEN state \ {"WAIT"} ELSE state
  /\ list_lock' = Null
  /\ Goto(t, goal[t])
  /\ goal' = [goal EXCEPT ![t] = "idle"]
  /\ UNCHANGED <<queue, on_list, flag, timed, target, stale>>
-----------------------------------------------------------------------------
(* unlock_fair()                                                           *)

CallUnlockFair(t) ==
  /\ "unlock_fair" \in Calls /\ pc[t] = "own"
  /\ Goto(t, "fair_pop")
  /\ UNCHANGED <<state, queue, list_lock, on_list, flag, timed, target, stale, goal>>

\* Mutant of FairEmpty: the lock is given back before the queue is looked at.
FairEmptyAnyway(t) ==
  /\ pc[t] = "fair_pop" /\ list_lock = Null
  /\ state' = state \ {"LOCKED"}
  /\ Goto(t, "idle")
  /\ UNCHANGED <<queue, list_lock, on_list, flag, timed, target, stale, goal>>

\* Nobody waits: unlock, under the list lock.
FairEmpty(t) ==
  /\ pc[t] = "fair_pop" /\ list_lock = Null /\ queue = <<>>
  /\ state' = state \ {"LOCKED"}
  /\ Goto(t, "idle")
  /\ UNCHANGED <<queue, list_lock, on_list, flag, timed, target, stale, goal>>

FairPop(t) == pc[t] = "fair_pop" /\ TakeTail(t, "fair_take")

\* Mutant of HandOver: the LOCKED bit is cleared as in unlock().
HandOverUnlocks(t) ==
  /\ pc[t] = "hand_over"
  /\ LET flipped == {"WAIT", "FAIR"} IN
       state' = IF queue = <<>>
                  THEN ((state \ flipped) \cup (flipped \ state)) \ {"LOCKED"}
                  ELSE (state \cup {"FAIR"}) \ {"LOCKED"}
  /\ Goto(t, "fair_wake")
  /\ UNCHANGED <<queue, list_lock, on_list, flag, timed, target, stale, goal>>

\* The LOCKED bit stays set; FAIR tells the popped thread that it is its own.
\* fetch_xor flips WAIT and FAIR, whatever they were.
HandOver(t) ==
  /\ pc[t] = "hand_over"
  /\ LET flipped == {"WAIT", "FAIR"} IN
       state' = IF queue = <<>>
                  THEN (state \ flipped) \cup (flipped \ state)
                  ELSE state \cup {"FAIR"}
  /\ Goto(t, "fair_wake")
  /\ UNCHANGED <<queue, list_lock, on_list, flag, timed, target, stale, goal>>

FairWake(t) ==
  /\ pc[t] = "fair_wake"
  /\ UseWaker(t)
  /\ list_lock' = Null
  /\ Goto(t, "idle")
  /\ UNCHANGED <<state, queue, on_list, timed, goal>>
-----------------------------------------------------------------------------
Call(t) == CallLock(t) \/ CallTryLockFor(t) \/ CallTryLock(t) \/ CallBump(t)

\* push_head with should_sleep, and the three ways of giving the lock back.
Contend(t) == EnterPush(t) \/ SleepAcquire(t) \/ SleepMark(t) \/ SleepPush(t)

Release(t) ==
  \/ Unlock(t) \/ BumpUnlock(t) \/ PopEmpty(t) \/ PopTail(t) \/ TakeData(t)
  \/ Wake(t) \/ ClearWait(t)
  \/ CallUnlockFair(t) \/ FairEmpty(t) \/ FairPop(t) \/ HandOver(t) \/ FairWake(t)

Step(t) ==
  \/ LockTry(t) \/ Contend(t) \/ Woken(t) \/ TakeFair(t) \/ RemoveNode(t)
  \/ TryLock(t) \/ Release(t)

\* The threads whose node is there once it has been pushed.
HasNode == {t \in Threads : pc[t] \in {"park", "take_fair", "remove"}}

\* A node is gone that somebody is popping.
TornWithout(nodes) == \E t \in Threads : pc[t] \in Taking /\ target[t] \notin nodes

\* A thread has left between the swap of its is_on_list and the rest of the pop.
Torn == TornWithout(HasNode)

\* What the popper then does is undefined, and so is all that follows.
Undefined == Torn /\ UNCHANGED vars

Next ==
  \/ ~Torn /\ \E t \in Threads : Call(t) \/ Step(t) \/ SleepPanic(t) \/ ParkTimeout(t)
  \/ Undefined

Spec == Init /\ [][Next]_vars

\* Every thread keeps running, and critical sections end; nobody has to call
\* the mutex, bump it or let a timeout pass.  Nor must a locker panic: without
\* the panic it goes round in should_sleep, as in a release build.
FairSpec == Spec /\ \A t \in Threads : WF_vars(~Torn /\ Step(t))
-----------------------------------------------------------------------------
\* From winning the LOCKED bit to clearing it or handing it over.
Holding == {"own", "bump", "fair_pop", "fair_take", "hand_over"}

\* Mutual exclusion: no two threads are inside of the mutex.
MutualExclusion ==
  \A t, u \in Threads : pc[t] \in Holding /\ pc[u] \in Holding => t = u

\* A popped thread owns the mutex from the moment the FAIR bit is set.
Handed(t) == "FAIR" \in state /\ ~on_list[t] /\ pc[t] \in {"park", "take_fair"}

Owners == {t \in Threads : pc[t] \in Holding \/ Handed(t)}

\* The LOCKED bit tells the truth, also while the mutex is handed over: it
\* is set exactly while one thread owns the mutex or has been given it.
LockedIffOwned ==
  /\ "LOCKED" \in state <=> Owners # {}
  /\ \A t, u \in Owners : t = u

\* At most one thread owns the mutex or has been handed it, and the LOCKED bit
\* keeps everybody else out, also when that thread gives up before it learns.
HandedOnce ==
  /\ \A t, u \in Owners : t = u
  /\ Owners # {} => "LOCKED" \in state

\* unlock() looks at WAIT_BIT to learn whether anybody is queued, so a queue
\* that is not empty without it would never be popped; the debug_assert of
\* unlock_fair() says the same of the thread popped last.
WaitBitCovers ==
  /\ queue # <<>> => "WAIT" \in state
  /\ \A t \in Threads : pc[t] \in Taking \cup {"wake", "hand_over"} => "WAIT" \in state

\* The list holds each node once, holds exactly the nodes that think they are
\* on it, and only nodes whose frame is still there.  A torn pop leaves nothing
\* to be said of the list.
QueueIntact ==
  ~Torn =>
    /\ \A i, j \in DOMAIN queue : queue[i] = queue[j] => i = j
    /\ \A t \in Threads :
         /\ on_list[t] <=> \E i \in DOMAIN queue : queue[i] = t
         /\ on_list[t] => pc[t] \in {"park", "remove"}

\* Whoever pops a node does so, and then uses its Waker, while the node and its
\* Parker are still there, and before anybody else has raised the flag.
WakeTargetAlive ==
  \A t \in Threads : pc[t] \in Popping =>
    /\ t \notin stale
    /\ pc[target[t]] \in {"park", "remove"}
    /\ ~flag[target[t]]

\* No lost wakeup: while a thread sleeps in the queue and the mutex is free,
\* some other thread is awake, or about to be woken, that goes for the mutex
\* or for the queue.
NoStranded ==
  queue # <<>> /\ "LOCKED" \notin state =>
    \E t \in Threads :
      \/ pc[t] \in {"lock", "push", "sleep", "pop", "take", "wake"}
      \/ pc[t] = "park" /\ flag[t]

\* With unlock_fair() alone the mutex is never free while somebody is queued,
\* so no newcomer overtakes the queue.
FairNeverFree == queue # <<>> => "LOCKED" \in state

\* Fair handover ends all waiting: a thread that is queued gets the mutex,
\* however many callers keep coming.
FairProgress == \A t \in Threads : on_list[t] ~> pc[t] = "own"

\* Every thread that waits in lock() gets the mutex, provided that callers
\* stop coming: a woken thread competes with newcomers and may lose each time.
Waiting == {"lock", "poll", "push", "sleep", "park", "take_fair"}

QuietProgress ==
  \/ []<><<\E t \in Threads : Call(t)>>_vars
  \/ \A t \in Threads : pc[t] \in Waiting ~> pc[t] = "own"
-----------------------------------------------------------------------------
(* RawMutex implements AbstractLock.                                       *)

Owner == IF Owners = {} THEN Null ELSE CHOOSE t \in Threads : t \in Owners

InLock(t) == pc[t] \in Waiting \/ (pc[t] = "remove" /\ goal[t] = "lock")

Want ==
  [t \in Threads |->
     IF t \in Owners THEN "none"
     ELSE IF InLock(t) THEN (IF timed[t] THEN "timed" ELSE "lock")
     ELSE IF pc[t] = "try" THEN "try"
     ELSE "none"]

Lock == INSTANCE AbstractLock
          WITH owner <- Owner, want <- Want, Free <- Null, Panics <- Debug

\* Every step of RawMutex is a step of a lock or invisible, and a mutex that
\* is free and wanted is granted to somebody: no wakeup is lost.
Implements == Lock!AbsFairSpec

\* The same without the last part.
ImplementsSafely == Lock!AbsSpec
=============================================================================
