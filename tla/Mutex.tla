------------------------------- MODULE Mutex --------------------------------
(***************************************************************************)
(* colock's Mutex: threads and tasks share a RawMutex, and whoever owns it *)
(* has a guard.  Threads run the code that RawMutex.tla models; this       *)
(* module adds RawMutexPoller, the future behind lock_async, and the       *)
(* guard's unlocked().                                                     *)
(*                                                                         *)
(* A task uses RawMutex's variables.  Its Waker points to no Parker, and   *)
(* to wake it is to schedule the task: flag[t] says that the executor is   *)
(* going to poll t.  At "park" its future has returned Pending; it may be  *)
(* polled and dropped at any time then, also in the middle of a pop of its *)
(* node, where the model ends (MutexTorn).                                 *)
(***************************************************************************)
EXTENDS RawMutex

CONSTANTS Tasks,     \* those of Threads that are tasks
          Closures   \* is unlocked() used?

ASSUME MutexAssumption == Tasks \subseteq Threads /\ Closures \in BOOLEAN

VARIABLES open,      \* the threads inside of a closure of unlocked()
          wasted,    \* has a waiter gone away that had been popped?
          unwound    \* has a closure of unlocked() panicked?

mutexVars == <<vars, open, wasted, unwound>>

MutexTypeOK ==
  /\ TypeOK
  /\ open \subseteq Threads \ Tasks
  /\ wasted \in BOOLEAN /\ unwound \in BOOLEAN

MutexInit == Init /\ open = {} /\ wasted = FALSE /\ unwound = FALSE
-----------------------------------------------------------------------------
(* RawMutexPoller, awaited by lock_async                                   *)

\* The first poll.  The future may be dropped, so the call counts as timed.
CallLockAsync(t) ==
  /\ t \in Tasks /\ pc[t] = "idle"
  /\ flag' = [flag EXCEPT ![t] = FALSE]
  /\ timed' = [timed EXCEPT ![t] = TRUE]
  /\ Goto(t, "lock")
  /\ UNCHANGED <<state, queue, list_lock, on_list, target, stale, goal>>

\* The node of the last poll is dropped, then t goes to l; with the goal
\* "lock" a task goes on with its poll.
DropOldNode(t, l) ==
  IF on_list[t]
    THEN Goto(t, "remove") /\ goal' = [goal EXCEPT ![t] = l]
    ELSE Goto(t, IF l = "lock" THEN "push" ELSE l) /\ UNCHANGED goal

\* Mutant of PollTry: the new node takes the place of the old one as it is.
PollTryKeepsNode(t) ==
  /\ t \in Tasks /\ pc[t] \in {"lock", "poll"}
  /\ state' = state \cup {"LOCKED"}
  /\ IF "LOCKED" \notin state
       THEN DropOldNode(t, "own")
       ELSE Goto(t, "push") /\ UNCHANGED goal
  /\ UNCHANGED <<queue, list_lock, on_list, flag, timed, target, stale>>

\* try_lock() at the start of a poll.  Ready: the future is dropped.  If not,
\* insert() drops the old node and puts a new one in its place.
PollTry(t) ==
  /\ t \in Tasks /\ pc[t] \in {"lock", "poll"}
  /\ state' = state \cup {"LOCKED"}
  /\ DropOldNode(t, IF "LOCKED" \notin state THEN "own" ELSE "lock")
  /\ UNCHANGED <<queue, list_lock, on_list, flag, timed, target, stale>>

\* Node::drop with the list lock; the node may have been popped meanwhile.
PollRemove(t) ==
  /\ t \in Tasks /\ pc[t] = "remove" /\ list_lock = Null
  /\ queue' = IF on_list[t] THEN Unlink(queue, t) ELSE queue
  /\ on_list' = [on_list EXCEPT ![t] = FALSE]
  /\ Goto(t, IF goal[t] = "lock" THEN "push" ELSE goal[t])
  /\ goal' = [goal EXCEPT ![t] = "idle"]
  /\ UNCHANGED <<state, list_lock, flag, timed, target, stale>>

\* Mutant of PollAgain: the task is not queued again while the mutex is locked.
PollAgainPending(t) ==
  /\ t \in Tasks /\ pc[t] = "park"
  /\ flag' = [flag EXCEPT ![t] = FALSE]
  /\ Goto(t, IF "LOCKED" \in state THEN "park" ELSE "poll")
  /\ UNCHANGED <<state, queue, list_lock, on_list, timed, target, stale, goal>>

\* A poll after the first: the node of the last one is there.
PollAgain(t) ==
  /\ t \in Tasks /\ pc[t] = "park"
  /\ flag' = [flag EXCEPT ![t] = FALSE]
  /\ Goto(t, "poll")
  /\ UNCHANGED <<state, queue, list_lock, on_list, timed, target, stale, goal>>

\* Mutant of Cancel: the drop of the future leaves its node in the queue.
CancelLinked(t) ==
  /\ t \in Tasks /\ pc[t] = "park"
  /\ Goto(t, "idle")
  /\ UNCHANGED <<state, queue, list_lock, on_list, flag, timed, target, stale, goal>>

\* The future is dropped while it is pending.
Cancel(t) ==
  /\ t \in Tasks /\ pc[t] = "park"
  /\ DropOldNode(t, "idle")
  /\ UNCHANGED <<state, queue, list_lock, on_list, flag, timed, target, stale>>
-----------------------------------------------------------------------------
(* MutexGuard::unlocked                                                    *)

\* Mutant of CallUnlocked: the mutex is given back without a look at the queue.
CallUnlockedQuietly(t) ==
  /\ Closures /\ t \notin Tasks \cup open /\ pc[t] = "own"
  /\ state' = state \ {"LOCKED"}
  /\ Goto(t, "idle")
  /\ open' = open \cup {t}
  /\ UNCHANGED <<queue, list_lock, on_list, flag, timed, target, stale, goal>>

\* unlock(), and on to the closure, which may use the mutex like any caller.
CallUnlocked(t) ==
  /\ Closures /\ t \notin Tasks \cup open /\ pc[t] = "own"
  /\ ClearLocked(t, "idle")
  /\ open' = open \cup {t}

\* The closure returns: lock().
ClosureEnds(t) ==
  /\ t \in open /\ pc[t] = "idle"
  /\ open' = open \ {t}
  /\ timed' = [timed EXCEPT ![t] = FALSE]
  /\ Goto(t, "lock")
  /\ UNCHANGED <<state, queue, list_lock, on_list, flag, target, stale, goal>>

\* The closure panics: the guard is dropped while the stack unwinds, and its
\* drop calls unlock() although the thread does not own the mutex.
ClosurePanics(t) ==
  /\ t \in open /\ pc[t] = "idle"
  /\ ClearLocked(t, "idle")
  /\ open' = open \ {t}
-----------------------------------------------------------------------------
\* try_lock(), lock(), try_lock_for() and the like pass the call on to the raw
\* mutex and make a guard of its success.
CallThread(t) == t \notin Tasks /\ Call(t)

ThreadStep(t) == t \notin Tasks /\ Step(t)

\* A poll that has begun, or that the executor has been asked for, and the
\* release of the mutex by the task.
TaskStep(t) ==
  \/ PollTry(t) \/ PollRemove(t) \/ (flag[t] /\ PollAgain(t))
  \/ t \in Tasks /\ (Contend(t) \/ Release(t))

\* What nobody has to do: calls, timeouts, polls for no reason, cancellations.
Whim(t) ==
  \/ t \notin Tasks /\ (SleepPanic(t) \/ ParkTimeout(t))
  \/ CallThread(t) \/ CallLockAsync(t) \/ PollAgain(t) \/ Cancel(t)

\* A waiter that was popped ends its call without the mutex.
Waste(t) == pc[t] \in {"park", "remove"} /\ ~on_list[t] /\ pc'[t] = "idle"

Watch(t) ==
  /\ wasted' = (wasted \/ Waste(t))
  /\ UNCHANGED <<open, unwound>>

\* What a caller has to do, once it is in a call or in the mutex.
Duty(t) ==
  \/ (ThreadStep(t) \/ TaskStep(t)) /\ Watch(t)
  \/ ClosureEnds(t) /\ UNCHANGED <<wasted, unwound>>

\* A poll after the first begins with the node of the last one in place.
MutexHasNode == HasNode \cup {t \in Threads : pc[t] = "poll"}

\* A timeout, a drop or a poll has taken away a node in the middle of its pop.
MutexTorn == TornWithout(MutexHasNode)

MutexUndefined == MutexTorn /\ UNCHANGED mutexVars

MutexNext ==
  \/ ~MutexTorn /\ \E t \in Threads :
       \/ Duty(t)
       \/ Whim(t) /\ Watch(t)
       \/ CallUnlocked(t) /\ UNCHANGED <<wasted, unwound>>
       \/ ClosurePanics(t) /\ unwound' = TRUE /\ UNCHANGED wasted
  \/ MutexUndefined

MutexSpec == MutexInit /\ [][MutexNext]_mutexVars

\* Threads run, polls that have begun end, the executor polls what has been
\* scheduled, closures return.
MutexFairSpec == MutexSpec /\ \A t \in Threads : WF_mutexVars(~MutexTorn /\ Duty(t))
-----------------------------------------------------------------------------
\* A task is the owner from the moment its poll has won the LOCKED bit, also
\* while its future is being dropped.
GuardOwners == Owners \cup {t \in Tasks : pc[t] = "remove" /\ goal[t] = "own"}

\* The queue holds exactly the nodes that think they are on it, once each,
\* and only of callers that still wait; a poll starts with its node queued.
\* A pop is torn by a poll, or by a waiter that goes away while it is popped.
WaitersQueued ==
  /\ ~MutexTorn =>
       /\ \A i, j \in DOMAIN queue : queue[i] = queue[j] => i = j
       /\ \A t \in Threads :
            /\ on_list[t] <=> \E i \in DOMAIN queue : queue[i] = t
            /\ on_list[t] => t \in MutexHasNode \ {u \in Threads : pc[u] = "take_fair"}
  /\ MutexTorn =>
       wasted \/ \E t \in Threads : pc[t] \in Taking /\ target[t] \in Tasks \ MutexHasNode

\* Somebody is awake, or about to be woken or polled, that goes for the mutex
\* or for the queue, or has been popped and is about to waste it.
SomebodyUp ==
  \E t \in Threads :
    \/ pc[t] \in {"lock", "poll", "push", "sleep", "pop", "take", "wake"}
    \/ pc[t] = "park" /\ flag[t]
    \/ pc[t] = "remove" /\ (goal[t] = "lock" \/ ~on_list[t])

\* No wakeup is lost until a waiter goes away that was popped, or the panic of
\* a closure unlocks the mutex under its owner: nobody is left in the queue
\* beside a free mutex.
NobodyStranded ==
  ~MutexTorn /\ ~wasted /\ ~unwound /\ queue # <<>> /\ "LOCKED" \notin state => SomebodyUp

\* The doc of lock_async: the future may be dropped at any time.  The same
\* where no drop tears a pop.
DropIsSafe == ~MutexTorn /\ queue # <<>> /\ "LOCKED" \notin state => SomebodyUp

\* Every thread and every task that waits gets the mutex, or gives up by
\* itself, provided that the calls, the needless polls and the cancellations
\* come to an end, no wakeup has been wasted, no pop torn and no closure has
\* panicked.
TaskProgress ==
  \/ []<><<\E t \in Threads : Whim(t) \/ CallUnlocked(t)>>_vars
  \/ <>(wasted \/ unwound \/ MutexTorn)
  \/ \A t \in Threads : on_list[t] ~> GuardOwners = {t} \/ pc[t] = "idle"
-----------------------------------------------------------------------------
(* Mutex implements AbstractLock.                                          *)

GuardOwner ==
  IF GuardOwners = {} THEN Null ELSE CHOOSE t \in Threads : t \in GuardOwners

Wish == [t \in Threads |-> IF t \in GuardOwners THEN "none" ELSE Want[t]]

Guards == INSTANCE AbstractLock
            WITH owner <- GuardOwner, want <- Wish, Free <- Null, Panics <- Debug

\* Until a closure panics, every step of a thread or a task is one of a lock
\* or invisible: a poll returns Ready only to the one owner.
GuardsImplement == Guards!AbsInit /\ [][Guards!AbsNext \/ unwound']_(Guards!absVars)
=============================================================================
