------------------------------ MODULE MiniLock ------------------------------
(***************************************************************************)
(* mini_lock::RawMiniLock: a lock whose whole state is one word, the       *)
(* address of the top node of a stack of waiters tagged with a LOCKED bit. *)
(* A waiter's node and Parker live on its stack, so the address of a node  *)
(* is the thread itself, and a thread that waits again reuses the address. *)
(* One action per atomic access to memory another thread can see.          *)
(* Memory is sequentially consistent; compare_exchange never fails         *)
(* spuriously (the code uses the strong form).                             *)
(***************************************************************************)
EXTENDS Naturals, FiniteSets

CONSTANTS Threads,    \* the threads that use the lock
          Null,       \* the null pointer
          SpinLimit   \* attempts in the spin loop: NUM_SPINS + NUM_YIELDS

ASSUME MiniLockAssumption ==
  /\ IsFiniteSet(Threads)
  /\ Null \notin Threads
  /\ SpinLimit \in Nat

VARIABLES head,    \* RawMiniLock::head
          next,    \* Node::next of each thread's node
          waker,   \* does Node::waker still hold the Waker?
          flag,    \* Parker::should_wakeup of each thread's Parker
          pc,      \* where each thread is
          seen,    \* the local `head`: the word the thread last read
          after,   \* the local `next` of pop()
          taken,   \* the thread whose Waker pop() returned
          spins    \* SpinWait::counter

vars == <<head, next, waker, flag, pc, seen, after, taken, spins>>

Word == [ptr : Threads \cup {Null}, locked : BOOLEAN]
Unlocked == [ptr |-> Null, locked |-> FALSE]
LockedBit == [ptr |-> Null, locked |-> TRUE]
SetFlag(w) == [ptr |-> w.ptr, locked |-> TRUE]
GetPtr(w) == [ptr |-> w.ptr, locked |-> FALSE]

Locations ==
  {"idle", "lock", "spin", "push", "park", "try", "own",
   "unlock", "pop", "pop_next", "pop_cas", "release", "wake"}

\* Between winning the LOCKED bit and giving it up.
Holding == {"own", "unlock", "pop", "pop_next", "pop_cas", "release"}

TypeOK ==
  /\ head \in Word
  /\ next \in [Threads -> Threads \cup {Null}]
  /\ waker \in [Threads -> BOOLEAN]
  /\ flag \in [Threads -> BOOLEAN]
  /\ pc \in [Threads -> Locations]
  /\ seen \in [Threads -> Word]
  /\ after \in [Threads -> Threads \cup {Null}]
  /\ taken \in [Threads -> Threads \cup {Null}]
  /\ spins \in [Threads -> 0..SpinLimit]

Init ==
  /\ head = Unlocked
  /\ next = [t \in Threads |-> Null]
  /\ waker = [t \in Threads |-> FALSE]
  /\ flag = [t \in Threads |-> FALSE]
  /\ pc = [t \in Threads |-> "idle"]
  /\ seen = [t \in Threads |-> Unlocked]
  /\ after = [t \in Threads |-> Null]
  /\ taken = [t \in Threads |-> Null]
  /\ spins = [t \in Threads |-> 0]

Goto(t, l) == pc' = [pc EXCEPT ![t] = l]

\* Where the local `head` is in scope; it is reset elsewhere.
InScope == {"spin", "push", "try", "pop_next", "pop_cas"}
Keep(t, l, w) ==
  seen' = [seen EXCEPT ![t] = IF l \in InScope THEN w ELSE Unlocked]

\* The frame with the node and the Parker ends; its memory is forgotten.
DropNode(t) ==
  /\ next' = [next EXCEPT ![t] = Null]
  /\ waker' = [waker EXCEPT ![t] = FALSE]
  /\ flag' = [flag EXCEPT ![t] = FALSE]

\* AtomicUsize::compare_exchange on head: continue at ok, or read the word
\* into `head` and continue at err.
CompareExchange(t, old, new, ok, err) ==
  \/ /\ head = old
     /\ head' = new
     /\ Goto(t, ok) /\ Keep(t, ok, Unlocked)
  \/ /\ head # old
     /\ Goto(t, err) /\ Keep(t, err, head)
     /\ UNCHANGED head
-----------------------------------------------------------------------------
(* lock()                                                                  *)

CallLock(t) ==
  /\ pc[t] = "idle"
  /\ Goto(t, "lock")
  /\ UNCHANGED <<head, next, waker, flag, seen, after, taken, spins>>

\* SpinWait::new
NewSpinWait(t) == spins' = [spins EXCEPT ![t] = 0]

\* SpinWait::spin() returns true, as long as its counter is below the limit.
SpinAgain(t) == spins[t] < SpinLimit /\ spins' = [spins EXCEPT ![t] = @ + 1]

\* The first attempt of the loop, and a new SpinWait when it fails.
LockFast(t) ==
  /\ pc[t] = "lock"
  /\ CompareExchange(t, Unlocked, LockedBit, "own", "spin")
  /\ NewSpinWait(t)
  /\ UNCHANGED <<next, waker, flag, after, taken>>

\* Mutant of Spin: the expected word is not masked with PTR_MASK.
SpinUnmasked(t) ==
  /\ pc[t] = "spin" /\ SpinAgain(t)
  /\ CompareExchange(t, seen[t], SetFlag(seen[t]), "own", "spin")
  /\ UNCHANGED <<next, waker, flag, after, taken>>

Spin(t) ==
  /\ pc[t] = "spin" /\ SpinAgain(t)
  /\ CompareExchange(t, GetPtr(seen[t]), SetFlag(seen[t]), "own", "spin")
  /\ UNCHANGED <<next, waker, flag, after, taken>>

\* SpinWait is exhausted: make the Parker and the node; push_or_lock starts
\* from head = 0.
MakeNode(t) ==
  /\ pc[t] = "spin" /\ spins[t] = SpinLimit
  /\ flag' = [flag EXCEPT ![t] = FALSE]
  /\ waker' = [waker EXCEPT ![t] = TRUE]
  /\ next' = [next EXCEPT ![t] = Null]
  /\ spins' = [spins EXCEPT ![t] = 0]
  /\ Goto(t, "push") /\ Keep(t, "push", Unlocked)
  /\ UNCHANGED <<head, after, taken>>

\* Mutant of PushNode: push even when the lock was seen to be free.
PushAnyway(t) ==
  /\ pc[t] = "push"
  /\ next' = [next EXCEPT ![t] = seen[t].ptr]
  /\ CompareExchange(t, seen[t], [ptr |-> t, locked |-> seen[t].locked],
                     "park", "push")
  /\ UNCHANGED <<waker, flag, after, taken, spins>>

\* push_or_lock, the word last seen is locked: push the node.
PushNode(t) ==
  /\ pc[t] = "push" /\ seen[t].locked
  /\ next' = [next EXCEPT ![t] = seen[t].ptr]
  /\ CompareExchange(t, seen[t], [ptr |-> t, locked |-> TRUE], "park", "push")
  /\ UNCHANGED <<waker, flag, after, taken, spins>>

\* Mutant of LockInstead: LOCKED_BIT is stored without the pointer.
LockInsteadDropStack(t) ==
  /\ pc[t] = "push" /\ ~seen[t].locked
  /\ CompareExchange(t, seen[t], LockedBit, "own", "push")
  /\ UNCHANGED <<next, waker, flag, after, taken, spins>>

\* push_or_lock, the word last seen is unlocked: take the lock.  The node
\* and the Parker were never shared.
LockInstead(t) ==
  /\ pc[t] = "push" /\ ~seen[t].locked
  /\ CompareExchange(t, seen[t], SetFlag(seen[t]), "own", "push")
  /\ IF head = seen[t] THEN DropNode(t) ELSE UNCHANGED <<next, waker, flag>>
  /\ UNCHANGED <<after, taken, spins>>

\* Mutant of Park: park() returns without a look at the flag.
ParkSpuriously(t) ==
  /\ pc[t] = "park"
  /\ Goto(t, "lock") /\ DropNode(t)
  /\ UNCHANGED <<head, seen, after, taken, spins>>

\* Parker::park returns once the flag is up; node and Parker are dropped and
\* the loop of lock() starts again.
Park(t) ==
  /\ pc[t] = "park" /\ flag[t]
  /\ Goto(t, "lock") /\ DropNode(t)
  /\ UNCHANGED <<head, seen, after, taken, spins>>
-----------------------------------------------------------------------------
(* try_lock()                                                              *)

CallTryLock(t) ==
  /\ pc[t] = "idle"
  /\ Goto(t, "try") /\ Keep(t, "try", Unlocked)
  /\ UNCHANGED <<head, next, waker, flag, after, taken, spins>>

\* Mutant of TryLock: give up as soon as one exchange fails.
TryLockOnce(t) ==
  /\ pc[t] = "try" /\ ~seen[t].locked
  /\ CompareExchange(t, seen[t], SetFlag(seen[t]), "own", "idle")
  /\ UNCHANGED <<next, waker, flag, after, taken, spins>>

\* Retry until the word read is a locked one: then return false.
TryLock(t) ==
  /\ pc[t] = "try" /\ ~seen[t].locked
  /\ CompareExchange(t, seen[t], SetFlag(seen[t]), "own",
                     IF head.locked THEN "idle" ELSE "try")
  /\ UNCHANGED <<next, waker, flag, after, taken, spins>>
-----------------------------------------------------------------------------
(* unlock() and pop()                                                      *)

CallUnlock(t) ==
  /\ pc[t] = "own"
  /\ Goto(t, "unlock")
  /\ UNCHANGED <<head, next, waker, flag, seen, after, taken, spins>>

\* Mutant of UnlockEmpty: clear the bit and leave the waiters where they are.
UnlockNoPop(t) ==
  /\ pc[t] = "unlock"
  /\ head' = GetPtr(head)
  /\ Goto(t, "idle")
  /\ UNCHANGED <<next, waker, flag, seen, after, taken, spins>>

\* Nobody queued: LOCKED_BIT to 0.
UnlockEmpty(t) ==
  /\ pc[t] = "unlock"
  /\ CompareExchange(t, LockedBit, Unlocked, "idle", "pop")
  /\ UNCHANGED <<next, waker, flag, after, taken, spins>>

\* The test of the loop in pop(): None sends unlock() round its loop again.
PopTest(w) == IF w = LockedBit THEN "unlock" ELSE "pop_next"

\* The load at the start of pop().
PopLoad(t) ==
  /\ pc[t] = "pop"
  /\ Goto(t, PopTest(head)) /\ Keep(t, PopTest(head), head)
  /\ UNCHANGED <<head, next, waker, flag, after, taken, spins>>

\* let next = head_ref.next
PopNext(t) ==
  /\ pc[t] = "pop_next"
  /\ after' = [after EXCEPT ![t] = next[seen[t].ptr]]
  /\ Goto(t, "pop_cas")
  /\ UNCHANGED <<head, next, waker, flag, seen, taken, spins>>

\* Mutant of PopCas: the word is reread after a failure, its next is not.
PopCasStaleNext(t) ==
  /\ pc[t] = "pop_cas"
  /\ CompareExchange(t, seen[t], [ptr |-> after[t], locked |-> TRUE],
                     "release", IF head = LockedBit THEN "unlock" ELSE "pop_cas")
  /\ UNCHANGED after
  /\ LET top == seen[t].ptr IN
       IF head = seen[t]
         THEN /\ waker' = [waker EXCEPT ![top] = FALSE]
              /\ taken' = [taken EXCEPT ![t] = top]
         ELSE UNCHANGED <<waker, taken>>
  /\ UNCHANGED <<next, flag, spins>>

\* Unlink the top node and take its Waker.
PopCas(t) ==
  /\ pc[t] = "pop_cas"
  /\ CompareExchange(t, seen[t], [ptr |-> after[t], locked |-> TRUE],
                     "release", PopTest(head))
  /\ after' = [after EXCEPT ![t] = Null]
  /\ LET top == seen[t].ptr IN
       IF head = seen[t]
         THEN /\ waker' = [waker EXCEPT ![top] = FALSE]
              /\ taken' = [taken EXCEPT ![t] = top]
         ELSE UNCHANGED <<waker, taken>>
  /\ UNCHANGED <<next, flag, spins>>

\* head.fetch_and(PTR_MASK)
Release(t) ==
  /\ pc[t] = "release"
  /\ head' = GetPtr(head)
  /\ Goto(t, "wake")
  /\ UNCHANGED <<next, waker, flag, seen, after, taken, spins>>

\* waker.wake(): the flag in the Parker of the popped thread.
Wake(t) ==
  /\ pc[t] = "wake"
  /\ flag' = [flag EXCEPT ![taken[t]] = TRUE]
  /\ taken' = [taken EXCEPT ![t] = Null]
  /\ Goto(t, "idle")
  /\ UNCHANGED <<head, next, waker, seen, after, spins>>
-----------------------------------------------------------------------------
Call(t) == CallLock(t) \/ CallTryLock(t)

Step(t) ==
  \/ LockFast(t) \/ Spin(t) \/ MakeNode(t) \/ PushNode(t) \/ LockInstead(t)
  \/ Park(t) \/ TryLock(t)
  \/ CallUnlock(t) \/ UnlockEmpty(t) \/ PopLoad(t) \/ PopNext(t) \/ PopCas(t)
  \/ Release(t) \/ Wake(t)

Next == \E t \in Threads : Call(t) \/ Step(t)

Spec == Init /\ [][Next]_vars

\* Every thread keeps running, and critical sections end; nobody has to call
\* the lock.
FairSpec == Spec /\ \A t \in Threads : WF_vars(Step(t))
-----------------------------------------------------------------------------
\* Mutual exclusion: two threads are never between winning the LOCKED bit
\* and giving it up.
MutualExclusion ==
  \A t, u \in Threads : pc[t] \in Holding /\ pc[u] \in Holding => t = u

\* The LOCKED bit is set exactly while somebody holds the lock.  The assert
\* in pop() and the debug_assert in unlock() rest on one half of it, the
\* false of try_lock() on the other.
LockedIffHeld == head.locked <=> \E t \in Threads : pc[t] \in Holding

\* Nodes that are on the stack: pushed, and their Waker not yet taken.
Queued == {t \in Threads : pc[t] = "park" /\ waker[t]}

\* s is the chain of nodes from head along Node::next.
IsStack(s, n) ==
  /\ s \in [1..n -> Threads]
  /\ head.ptr = IF n = 0 THEN Null ELSE s[1]
  /\ \A i \in 1..n : next[s[i]] = IF i = n THEN Null ELSE s[i + 1]
  /\ \A i, j \in 1..n : s[i] = s[j] => i = j
  /\ Queued = {s[i] : i \in 1..n}

\* The links from head lead through every queued node exactly once, and
\* through no node whose owner has left park(), although pushes and the pop
\* race on the head, a pop uses a next it read before, and a thread that
\* waits again does so at the address of its last node.
StackIntact ==
  \E n \in 0..Cardinality(Threads) : \E s \in [1..n -> Threads] : IsStack(s, n)

\* pop() dereferences only nodes that are on the stack, and a next that is
\* still right when the exchange succeeds.
PopReadsLiveNode ==
  \A t \in Threads :
    /\ pc[t] \in {"pop_next", "pop_cas"} => seen[t].ptr \in Queued
    /\ pc[t] = "pop_cas" => after[t] = next[seen[t].ptr]

\* A Waker that was taken belongs to a thread that is still inside park()
\* with its flag down, and nobody else holds a Waker of that thread: wake()
\* writes to a Parker that is alive.
WakeTargetParked ==
  \A t \in Threads : pc[t] \in {"release", "wake"} =>
    LET u == taken[t] IN
      /\ u \in Threads /\ pc[u] = "park" /\ ~waker[u] /\ ~flag[u]
      /\ \A v \in Threads \ {t} :
           pc[v] \in {"release", "wake"} => taken[v] # u

\* No lost wakeup: while a thread sleeps on the stack and the lock is free,
\* some thread that is awake, or about to be woken, goes for the lock.
NoLostWakeup ==
  Queued # {} /\ ~head.locked =>
    \E t \in Threads :
      \/ pc[t] \in {"lock", "spin", "push", "wake"}
      \/ pc[t] = "park" /\ flag[t]

\* Every thread that waits in lock() gets the lock, provided that callers
\* stop coming: waiters are served last in first out, so a steady stream of
\* callers may overtake the first one for ever.
Waiting == {"lock", "spin", "push", "park"}

QuietProgress ==
  \/ []<><<\E t \in Threads : Call(t)>>_vars
  \/ \A t \in Threads : pc[t] \in Waiting ~> pc[t] = "own"
-----------------------------------------------------------------------------
(* RawMiniLock implements AbstractLock.                                    *)

Owner ==
  IF \E t \in Threads : pc[t] \in Holding
    THEN CHOOSE t \in Threads : pc[t] \in Holding
    ELSE Null

Want ==
  [t \in Threads |-> IF pc[t] \in Waiting THEN "lock"
                     ELSE IF pc[t] = "try" THEN "try" ELSE "none"]

Lock == INSTANCE AbstractLock
          WITH owner <- Owner, want <- Want, Free <- Null, Panics <- FALSE

\* Every step of RawMiniLock is a step of a lock or invisible: the LOCKED bit
\* is granted only when nobody owns the lock, and try_lock fails only while
\* somebody does.  A lock that is free and wanted is granted: the wakeups
\* suffice.
Implements == Lock!AbsFairSpec
=============================================================================
