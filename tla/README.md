# Verification of colock

colock is a Rust workspace of small synchronisation primitives. This directory
holds TLA+ models of them, the TLC configurations that check the models on small
instances, and proofs, checked by TLAPS, of what matters most for every instance.

## The system

| component | source | state | operations |
|---|---|---|---|
| Parker, Waker | `parking/src/lib.rs` | a flag `should_wakeup` in the Parker, which lives on the sleeper's stack (or in a future); a Waker holds a raw pointer to it and a thread or task handle | `prepare_park`, `waker`, `park`, `park_until`, `should_wakeup`; `Waker::wake` |
| RawMiniLock, MiniLock | `mini_lock/src/lib.rs` | one word: the top of a stack of waiters, tagged with a LOCKED bit; nodes and Parkers on the stacks of the waiting threads | `lock` (fast path, spin, push, park), `try_lock`, `unlock` (pop, release, wake) |
| SpinWait | `shared_util/src/spinwait.rs` | a counter | `spin`, `spin_no_yield`, `reset` |
| intrusive list | `intrusive_list/src/lib.rs` | head, tail, count under a MiniLock; each node: next, prev, list, data, `is_on_list` | `push_head/tail` with a condition evaluated under the lock, `pop_head/tail/all`, `scan`, `with_lock`, `remove_node`, `Node::drop` |
| RawMutex | `colock/src/mutex/raw_mutex.rs` | a byte with LOCKED, WAIT and FAIR bits; an intrusive list of Wakers | `lock`, `try_lock`, `try_lock_for/until`, `unlock`, `unlock_fair`, `bump`, `is_locked` |
| RawMutexPoller | same | a node inside of the future | `poll`, drop |
| Mutex, MutexGuard | `colock/src/mutex/mod.rs`, `guard.rs` | the data, and who may reach it; the guard holds a reference to the mutex or an Arc of its own | guards and Arc guards, drop, `leak`, `unlocked`, `unlocked_fair`, `bump`, `unlock_fair`, `force_unlock`, unchecked guards, `get_mut`, `into_inner` |
| Timeout | `colock/src/lock_utils.rs` | none | `to_instant` of a Duration or an Instant |
| Barrier, BarrierPoller | `colock/src/barrier.rs` | target; an intrusive list; node and Parker of each waiter | `wait`, `wait_async`, `poll`, drop |
| Condvar | `colock/src/condvar.rs` | every line is commented out | none |
| benchmarks | `benchmarks/` | none of its own | throughput and latency harness |

How they interact. Everything that blocks ends in `Parker::park`, and everything
that unblocks in `Waker::wake`, which writes through a raw pointer to the sleeper's
Parker. RawMiniLock sleeps and wakes in this way with a stack of its own. The
intrusive list is an `IntrusiveList` inside a MiniLock; its operations take closures
that run under that lock, which is how RawMutex makes "look at the state byte and
queue up" one critical section. RawMutex and Barrier are a list of Wakers each.
No memory is allocated: every queue is a list of stack frames, so each proof that a
node or Parker is alive is a statement about where its thread is.

### What is hard here, and what makes each part correct

* **Parker.** `wake` is two writes to a thread that tests and parks in two steps; the
  park token of std belongs to the thread and may be left over from an earlier round.
  Correct: no raised flag is missed, no write after the Parker is gone, `park` returns.
* **RawMiniLock.** Pushers race the one popper on a single word; the popper uses a
  `next` it read before; the address of a node comes back when its thread waits again
  (ABA); the wake happens after the lock has been given back. Correct: exclusion, the
  bit agrees with the holder, the stack is intact, only live nodes are followed or
  woken, no lost wakeup, progress once callers stop coming.
* **Intrusive list.** A drop decides by a load of `is_on_list` without the lock whether
  it has to unlink; a pop lowers `is_on_list` first, then reads the links and takes the data, so that a
  drop in between frees what the pop still reads (a *torn* pop); `scan` reads the next
  node before its closure removes this one; removed nodes keep their links. Correct, as long as
  no pop is torn: the pointers are one list of the live nodes that think they are on it, and it behaves
  as a sequence.
* **RawMutex.** Two pieces of state, the byte and the list, are kept in step by
  hand. `unlock` releases first and pops later; the FAIR bit does not say for whom it
  is meant; timeouts leave the queue at any moment, also in the middle of a pop. Correct: exclusion, LOCKED
  tells the truth, WAIT covers the queue, the queue holds live nodes exactly once until a pop is torn, nobody
  is stranded beside a free mutex, fair handover does not starve.
* **RawMutexPoller.** A poll replaces its node in place while an `unlock` pops the old
  one; a poll that has won still waits for the list lock to drop its node; a dropped
  future takes its wakeup along; either may tear a pop. Correct until one does: a task is queued once, no
  wakeup is lost until a woken waiter gives up, threads and tasks share one lock.
* **Barrier.** The leader is found with `==`; it drains while those it has woken come
  back and tasks drop their nodes; a poll that replaces its node races the pop of the old one, and one that
  replaces its Parker the wake. Correct until a task does so: every generation releases exactly its members, with exactly one leader.
* **Guards.** The end of a guard is an `unlock` that goes on after the release, and then
  the drop of an Arc; guards can be forgotten, leaked, opened for a closure that panics, or made by
  hand; `unlock` and `unlock_fair` on one mutex break the raw mutex below them. Correct: one thread at a time
  reaches the data, by whatever way, unless they do; the mutex
  outlives every use of it; the Arc is counted exactly; only the owner loses the raw mutex.

`PROJECT.json` lists the hazards line by line with the properties for each.

## Modules

| module | models | note |
|---|---|---|
| `AbstractLock` | the promise of every lock here | owner and pending calls; request, grant, refuse, expire, abandon, yield, bump, hand over |
| `AbstractList` | the promise of the intrusive list, and what its users owe it | a sequence of nodes, what the pop under way has given, and which nodes are there: the one being popped is not dropped |
| `AbstractPark` | the promise of Parker and Waker, and what their users owe them | asleep until woken; woken once, while asleep |
| `AbstractBarrier` | the promise of the barrier | who waits and who has been released in each generation |
| `Parking` | Parker and Waker, one sleeper and any number of wakers | `Wake` is the store and the unpark, in that order; rounds reuse thread and token; refines `AbstractPark` |
| `MiniLock` | RawMiniLock and the counter of SpinWait | one action per atomic access; refines `AbstractLock` |
| `IntrusiveList` | the list at the level of its pointers | refines `AbstractList` until a pop is torn |
| `WaitQueues` | the one operator on sequences that the users of the list need | `Unlink` |
| `RawMutex` | RawMutex used by threads, over the list seen as a sequence | refines `AbstractLock`, with one of `unlock` and `unlock_fair` |
| `Mutex` | threads and tasks on one Mutex: extends `RawMutex` with RawMutexPoller and `unlocked()` | refines `AbstractLock`, without `unlock_fair` and until a closure panics |
| `Barrier` | Barrier and BarrierPoller, over the list seen as a sequence | refines `AbstractBarrier` until a task overlooks a release or tears a pop |
| `MutexGuards` | guards, Arc guards and the Arc of a Mutex, over `AbstractLock` while it is one | who reaches the data and who keeps the memory |
| `*Proofs` | | theorems about the module of that name; `WaitQueueProofs` about sequences of distinct waiters |
| `MCMiniLock`, `MCRawMutex`, `MCMutex`, `MCIntrusiveList`, `MCBarrier`, `MCMutexGuards` | | model values, sets and symmetry for TLC |

Each layer is used by the next through what it is shown to implement: Parking
(`AbstractPark`) justifies the one-step wake of the others, MiniLock (`AbstractLock`) the list
lock, IntrusiveList (`AbstractList`) the sequences of RawMutex, Mutex and Barrier, and RawMutex
(`AbstractLock`) the raw mutex under the guards. Each abstract specification asks something of its users in
turn. These theorems say how far the users keep to it:

| user | of Parker and Waker | of the list | of the mutex |
|---|---|---|---|
| RawMiniLock | `MiniLockUsesParkers` | | |
| RawMutex | `RawMutexUsesParkers`, without timeouts and with one kind of unlock | `RawMutexPlainUsesList`, likewise; `RawMutexUsesList`, until a pop is torn | |
| Mutex | | `MutexUsesList`, until a pop is torn | |
| Barrier | `BarrierUsesParkers`, of its threads | `BarrierThreadsUseList`, without tasks; `BarrierUsesList`, until a pop is torn | |
| guards | | | `GuardsUseLock`, until both `unlock` and `unlock_fair` have been used or a closure panics |

So the layers fit together without a gap for blocking callers: `lock`, `try_lock`, `bump` and `Barrier::wait`, with one
of `unlock` and `unlock_fair`. They do not for the rest of the interface, because the code does not keep to it there:

* The list is a sequence only while nobody drops a node that is being popped. `try_lock_for`, a future of
  `lock_async` or `wait_async` that is dropped, and one that is polled again may do that, between the swap of `is_on_list`
  (`lib.rs:283`) and the end of the pop. The list, and with it the mutex or the barrier, may then be in any state. Every model
  of the list and its users has this state (`Torn`) and ends in it; what is claimed of timeouts, cancellations and polls is
  claimed up to there. MutexGuards has no list: what it claims of callers that give up presupposes that no pop of the mutex below
  has been torn.
* The mutex is an `AbstractLock` only with one kind of unlock. `RawMutexWaitBit` and `RawMutexUsesList` hold of the mix,
  exclusion does not (`mutex_mixed`); MutexGuards has the mix, and its raw mutex grants a call twice then.

### Correspondence with the code

*MiniLock.* `head` is the tagged word as a record of pointer and bit. A node and
its Parker live in the frame of `lock()`, so a node's address is its thread: a thread
that waits again pushes the same address, which is what makes ABA possible in the
model as in the code. `next`, `waker`, `flag` are the memory of that frame, and
`DropNode` forgets it when the frame ends. `seen`, `after`, `taken`, `spins` are
locals. Each `compare_exchange` is an action with a branch for success and one for
failure. `lock()` is CallLock, LockFast, Spin, MakeNode, PushNode / LockInstead, Park;
`try_lock()` is CallTryLock, TryLock; `unlock()` is CallUnlock, UnlockEmpty, PopLoad,
PopNext, PopCas, Release, Wake. The two atomic steps of `wake` inside of Parker are
one step here; `Parking` shows why that is sound: `park` returns if and only if the flag has
been raised.

*IntrusiveList.* `head`, `tail`, `count`, `next`, `prev`, `data`, `on_list` are the fields of the
code, `listed` says whether a node's pointer to its list is set, and `life` is what the owner of
the node has done with it (the frame or future that holds it): its address is used again and
again. `op`, `victim`, `cursor` are the locals of the operation that holds the list lock.
Under that lock everything is invisible to the others except `is_on_list`, which a drop reads
without it; so a push is one action and a pop two, the swap of `is_on_list` and the
rest. `with_lock` is a sequence of operations that nobody interrupts and adds nothing.
`Patient` is the set of nodes whose owners wait in `lock()` or `Barrier::wait()`, which return when they have been woken
(`life` is "woken") and not before. The owner of any other node may drop it whenever it likes, in the middle of
its pop too: `DropNode` asks for nothing but `is_on_list`. `Torn` is the state after such a drop, with the
pop still to come; the model ends there (`Undefined`).

*RawMutex.* `state` is the set of bits that are set. `queue` is the list from tail
(popped first) to head. `list_lock` is the MiniLock around it, only a holder here.
Taking the list lock is merged with the first access under it, and giving it back
with the last one: a thread that waits for the list lock does nothing else, so nobody can
tell the difference. Where the code makes several accesses under the lock that other
threads can see (`should_sleep`, or the pop, wake and clear of `unlock`) each of them is
an action. A pop is two, as in IntrusiveList: `TakeTail` up to the swap, which others see, and `TakeData`, the rest,
which reads the node. A thread that leaves in between tears the pop (`Torn`), and the model ends there. `stale`
records that the thread somebody has popped, or is about to wake, has left; it has no counterpart in the code and is there so that the use of a dead node is visible. A loop of
compare_exchange (`try_lock`, `should_sleep`) is its last, deciding access; the ones
before it change nothing but a local. `LeaveFrame` is the drop of the node at the end of
a round of `lock_inner`: without the list lock if `is_on_list` is down, with it (RemoveNode)
if it is up.

*Mutex.* A task uses the variables of RawMutex as a thread does. Its Waker points to no
Parker; `flag[t]` says that the executor has been asked to poll it. At "park" its future
has returned Pending, and at "poll" it is polled again, its old node still in place. A poll is PollTry (`try_lock`), PollRemove (the drop of the old node,
waiting for the list lock), then the push of RawMutex, which threads and tasks have
in common; Cancel is the drop of a pending future. Any of these may tear a pop (`MutexTorn`). The closure of `unlocked()` may use the mutex like
any caller (`open`). Two ghosts tell properties what has happened: `wasted`, a waiter that had been popped
ended its call without the mutex; `unwound`, a closure has panicked, and the guard's drop called
`unlock` for a mutex that the thread did not own.

*Barrier.* `queue` from the head, where nodes are pushed and popped; `popped` is the Waker in the
leader's hand. A pop is `Pop` and `TakeData`; a task that replaces or drops its node in between tears
it (`Torn`), as above. `raced` is a ghost: a poll or a drop has discarded a Parker that the leader had
used or was about to use, without seeing the release. After that a store to such a Parker may land
in the one made since in its place, or nowhere.

*MutexGuards.* The raw mutex is `AbstractLock` itself while only one of `unlock` and `unlock_fair` has been
used on it (`used`). Once both have (`Mixed`), it may in addition grant a call of `lock` although somebody owns it (`GrantedTwice`),
which is what RawMutex does in `mutex_mixed`; and a handover may be lost to a waiter that does not notice. A thread has at most one Arc of the mutex and
one guard; `kind` is the `M` of MutexGuardBase (a reference or an Arc), or "raw" for a call on
`raw_mutex()` that makes no guard. `DropGuard` is the release; the thread is then behind it
("drop"), still in `unlock()`, and drops the fields of the guard only afterwards. Guards stay
with the thread that made them, and the closure of `unlocked()` makes no guard of its own here (it does
in Mutex).

All models assume sequentially consistent memory. The accesses the arguments rest
on are Acquire/Release; two are Relaxed (`raw_mutex.rs:85` and `:150`), and the reordering
these allow is not modelled.

## Runs

| run | instance | question |
|---|---|---|
| `parking` | 4 wakers | is every wake noticed, every Parker alive when written to, and does `park` return? |
| `minilock` | 4 threads, 1 spin, symmetry | the safety properties of RawMiniLock |
| `minilock_live` | 3 threads, 1 spin | refinement of AbstractLock with its fairness; progress without new callers |
| `mutex_unfair` | 4 threads; lock, try_lock, unlock, bump; debug build | safety, no stranded waiter, refinement with fairness, progress |
| `mutex_timed` | 3 threads; lock, try_lock, try_lock_for, unlock_fair | a timeout races the handover: it may be lost to a thread that has left, but is it ever doubled, and does the queue stay intact until a pop is torn? |
| `mutex_fair` | 4 threads; lock, try_lock, unlock_fair; debug build, where a locker that meets a handover panics | handover to exactly one thread; no starvation although callers keep coming and panic |
| `mutex_async` | 1 thread and 2 tasks; lock, try_lock_for, unlock, unlocked, lock_async | polls for no reason, dropped futures and panicking closures against the queue, wakeups, refinement and progress; who can tear a pop? |
| `list` | 3 node addresses, the owners of 2 of which may give up | are the pointers one list of live nodes that behaves as a sequence until a pop is torn, and can a patient owner's node be lost? |
| `barrier` | 2 threads, 2 tasks, targets 0 to 6 | one leader and exactly the members released in each generation; whoever is let go leaves; no thread tears a pop |
| `guards` | 3 threads, 2 forgotten Arcs, symmetry | exclusive access and who unlocks, while the raw mutex is a lock; lifetime of the mutex and the Arc's count, always |
| `mutex_mixed` | 3 threads; unlock and unlock_fair together | violation: two owners |
| `mutex_cancel` | 1 thread and 2 tasks | violation: a wakeup dies with a dropped future |

**Bounds.** The state spaces are finite without bounds other than the number of
participants, `SpinLimit` and `MaxLost`: threads call the locks again and again, so histories are of
any length.

* Four threads are what the interesting cases of RawMiniLock and RawMutex need: one that
  holds or releases, one that pushes, and two in the queue, so that "last waiter" and "not the
  last" both occur while newcomers race. With three threads an unlocked word with waiters
  behind it never meets a pusher. One spin is enough: every further attempt repeats the
  same exchange with a word read at any earlier time; zero spins would skip it. Four wakers let
  three unparks be late by one, two and three rounds.
* Three nodes have a head, a middle and a tail, so every case of `remove_node` occurs, and addresses
  come back while the others are in every state. Pops of patient and of other owners' nodes interleave with drops of
  nodes elsewhere in the list.
* In `mutex_async` one participant owns or releases while two are in the queue or one
  of them leaves it; two tasks can both replace their nodes, and the thread brings
  in timeouts and closures.
* Barriers of 0 to 6 with four callers: the trivial ones, the ones that all four can pass, and
  ones that never fill, whose waiters come and go.
* Three guards: the owner, one that waits and one that drops the Arcs. `MaxLost` caps the Arcs that
  are forgotten; two let a forgotten guard be followed by another.

**Fairness.** Weak fairness of the steps of every thread: the operating system runs
threads, critical sections end and wakers that were given away are used. For tasks: a poll that has
begun ends, and the executor polls a task that its waker has scheduled. Closures of `unlocked()`
return (or panic). Nothing is assumed of calls, of `bump`, of timeouts (they may never happen), of
polls nobody asked for, of drops of futures or of spurious returns of `park`. Whoever is blocked on
the list lock has weak fairness only, so the list lock may be unfair as RawMiniLock is.
RawMiniLock is a stack and RawMutex lets newcomers barge, so "every waiter gets in" is claimed
only for runs in which callers stop coming (`QuietProgress`, `TaskProgress`); `FairProgress`
drops that condition for `unlock_fair` and speaks of threads that are queued already. `LetGo`
needs no such condition, but it lets a drop wait for the list lock.

**Exceptions in properties.** What is said of the queue, and the refinements, end where a pop is torn (`Torn`, `MutexTorn`):
the rest of the pop then reads memory that is free or that another node has taken. Some properties bound that case
instead: `LinkedAlive` says that it never happens to a patient owner, `WaitersQueued` that in a mutex without `unlock_fair` only a task or a
waiter that gives up causes it, `WakeTargetAlive` of Barrier that only the node of a task is hit.
`NobodyStranded` and `TaskProgress` exclude behaviours in which a popped
waiter has given up (`wasted`) or a closure has panicked (`unwound`); the barrier's
properties exclude what follows a release that was overlooked (`raced`), and two of the guards' (`Exclusive`, `OwnersUnlock`)
what follows the use of both `unlock` and `unlock_fair` (`Mixed`) or an unlock of another's mutex (`unwound`). In
each of these cases the property really fails in the code, as described under Findings. The properties of the guards also presuppose
a raw mutex whose list has not been torn.

**Mutants.** Every property of every passing run has a mutant of a mapped definition
(kept next to it, named in its comment) that violates it.

## What is proved

The theorems hold for every finite set of threads, tasks and node addresses, every spin limit,
any number of wakers and every target of a barrier. They assume the named assumptions on the constants
(participants are finitely many, Null is none of them) and, where stated, which calls are
used. Type invariants are proved and not run.

*Parking.* TypeOK, WakeDelivered and ParkerOutlivesStore together are inductive.
The last one carries the argument: a store is pending only while the sleeper is inside
of the `park` of that round, so the next round finds no writer. `ParkingRefinement` follows: the raised flag
is the abstract wake, it happens once in a round and while the sleeper is there, and whatever the unparks
and tokens do, `park` returns after it and not before.

*RawMiniLock* (`MiniLockProofs`). The inductive invariant `IInv` is built in layers:

1. `TypeOK` with `PopSafe` (the word `pop` goes on with has a node and the LOCKED bit).
2. `Excl`: exclusion and LockedIffHeld are inductive only together. The exchange that
   takes the lock expects an unlocked word, hence nobody holds it.
3. `QueueInv`: the stack is a chain of exactly the queued nodes (`Stack`), nodes that are
   being pushed or queued have their Waker and a lowered flag (`NodeReady`), `pop` has
   a live node and a `next` that is right (PopReadsLiveNode), and a popped Waker belongs to
   one sleeping thread (WakeTargetParked). The ABA argument is here: only the holder
   pops, so the node it read stays on the stack, its `next` is frozen, and a
   head that is equal again is the same top. `StackPush` and `StackPop` give the new
   chains; `StackBound` bounds the length by the pigeonhole principle.
4. `NoLostWakeup`, which needs the others: an empty word means an empty queue, and the
   thread that gives the lock back is itself about to wake a sleeper.

From `IInv`: `MiniLockTypeCorrect`, `MiniLockExclusion`, `MiniLockStack`, `MiniLockPop`,
`MiniLockWakeTarget`, `MiniLockNoLostWakeup`, and `MiniLockRefinement`: every step is a step of
`AbstractLock` or a stutter. The last one is what allows RawMutex to treat the list lock as
a lock. `MiniLockUsesParkers` says that the Waker that is used behind the release finds its Parker there.
`MiniLockNeverStuck` says that the threads never all wait for each other; it needs `Attended` as well:
whoever sleeps is on the stack, in the hands of the one who popped him, or has his flag up.

*IntrusiveList* (`IntrusiveListProofs`), for every choice of `Patient`. The invariant is the conjunction of the five
properties, `InOp` (the operation under the lock and its victim belong together) and `Kept` (the owner of the
victim has not been woken yet, so if it is patient it is still there). The order of the list is
carried along as a witness: a push puts its node at an end of it, and each of the four cases of
`remove_node` closes the gap. `NoDirtyPush` follows since an operation writes only to nodes between
head and tail. For `ListRefinement` the abstract sequence is the order that the links describe; `OneOrder` shows
that they describe only one, so it is the one that the push or removal has made; the theorem ends with the drop that
tears a pop. `ListNeverTorn`: with `Patient = Nodes` there is none. `ListTypeCorrect` bounds the count by
the number of nodes: the order is an injection.

*RawMutex* (`RawMutexProofs`). What can be said of every mix of operations comes first, and the rest depends on which
are used: each theorem names what it assumes of `Calls`, and the findings show that the assumptions cannot be dropped.

* *Any mix.* `MixedInv` is TypeOK, `QueueShape`, `ListLocked` (a thread is at a place under the list lock if and only if
  it holds it), `WaitBitCovers` and `NoPolls` (the location "poll" is for tasks). `QueueShape` says that the list is a sequence that lists exactly the nodes with
  `is_on_list`, each once (`Lists`, in `WaitQueueProofs`: `ListsAppend`, `ListsTail` and `ListsUnlink` say that push, pop and
  removal keep it so, and `ListsBound` bounds its length). ClearWait may drop the WAIT bit because the holder of the
  list lock is the only one that has popped. Hence `RawMutexTypeCorrect`, `RawMutexWaitBit` and `RawMutexUsesList`: every step
  is one that AbstractList allows, or the timeout that tears a pop. In
  this theorem the list is seen from the head, the other way round; the `Reversed` lemmas turn each operation.
* *Without `unlock_fair`* (`NoUnlockFair`), with timeouts or without. `UnfairInv` adds that nothing of a handover is around
  (`NoFair`) and that LOCKED is set exactly while one thread is inside (`Excl`). Hence `RawMutexUnfairExclusion`,
  `RawMutexUnfairQueue` and `RawMutexUnfairRefinement` (the only place where the refinement is shown for `unlock` with
  timeouts: no run repeats it).
* *Without `unlock_fair` and timeouts* (`NoTimeouts` as well). `Sleepers`: a flag is up only for
  a popped thread in `park`, and a popped Waker is that of a thread in `park` whose flag is
  down. With it NoStranded is inductive: each step that puts the last awake thread to sleep or
  takes it away either leaves LOCKED set, empties the queue or wakes another one. Hence
  `RawMutexNoStranded`, `RawMutexWakeTarget`, and `RawMutexUnfairNeverStuck`.
* *With `unlock_fair` alone* (`NoUnlock`: no `unlock`, no `bump`), with timeouts or without, in debug and release builds. `Place` says
  that LOCKED is set for the one thread inside of the mutex or together with FAIR, when nobody is inside; `Handover` that
  at most one thread has been popped and not left, and that flags are up only after the FAIR bit. A thread that has timed
  out leaves FAIR without a thread that it is for. Hence `RawMutexFairOnce` and `RawMutexFairNeverFree`, whose statement of the
  list ends with a torn pop, as that of `RawMutexUnfairQueue` does.
* *With `unlock_fair` alone and without timeouts.* `Awaited` adds the thread that FAIR is for, which stays until it is woken. Hence
  `RawMutexFairExclusion`, `RawMutexFairWakeTarget`, `RawMutexFairSpinEnds`, `RawMutexFairNeverStuck`,
  `RawMutexFairInTurn` and `RawMutexFairRefinement`; a locker that panics during a handover abandons its call.

`RawMutexUsesParkers` covers both cases without timeouts, and so do `RawMutexNeverTorn` (the thread that somebody
is popping is in `park` with its flag down, so it stays) and, from it, `RawMutexPlainUsesList`.

*Mutex* (`MutexProofs`), threads and tasks without `unlock_fair`, with timeouts, needless polls, dropped
futures and closures that panic. `Core` is the counterpart of `UnfairInv` (`NeverFair`, `OneGuard`, `TasksTimed`, `ListLocked`):
a task is the owner while it still removes its node, and LOCKED tells the truth until a closure has
panicked. `WakeReaches` is the counterpart of `Sleepers` while nothing was wasted; it is weaker, since a task may
have come by itself when its Waker is used, but not have queued again, for which it would need the list lock.
`NoneStranded` counts somebody as up (`Up`) who cannot go away without a trace, which leaves out a
scheduled task whose node is still queued. Hence `MutexTypeCorrect`, `MutexNobodyStranded` and `MutexWaitersQueued`, which
also says that only a task or a wasted wakeup tears a pop; `MutexUsesList`, up to there; and `MutexGuardsImplement`: every step is told, by the locals of the one who takes it, to be
a request, a grant, a failure, a release or nothing of the abstract lock (`Allowed`). `MutexAttended` has no exception: whoever is
parked is queued, woken or about to be woken, also after wakeups were wasted; what is then missing is only somebody
who passes the mutex on. `MutexNeverStuck` combines it with NoneStranded.

*Barrier* (`BarrierProofs`). `Leading` (who leads holds the list lock), `Room` (the list is shorter than the
target), `Polls` and the shape of the list are inductive by themselves. `Calm` holds of threads
always and of tasks until `raced`: flags are up only for callers that were popped and woken, and whoever
is parked is queued, about to be woken, or woken. Hence `BarrierTypeCorrect`, `BarrierQueueBounded`,
`BarrierWakeTarget`, `BarrierNobodyForgotten`, `BarrierUsesList` and `BarrierRefinement`, the list as long as no pop is torn;
`BarrierNeverTorn` and `BarrierThreadsUseList` say that threads alone tear none. In the refinement a generation is let go at once when its
leader takes the list lock; the pops and wakes that follow change nothing that AbstractBarrier sees.
`BarrierNeverStuck` needs `Told` (a waiting task whose flag is up is scheduled): when nobody can take a step
all who are inside are queued, and fewer than the target.

*MutexGuards* (`MutexGuardsProofs`). `OwnerPlace` says where an owner of the raw mutex is while things are `Sound`, that is,
until both `unlock` and `unlock_fair` have been used or a closure has unlocked another's mutex; `Anchored` says that whoever is inside of the mutex has an Arc, a guard that
holds one, or has forgotten one; with `CountExact` they are inductive. If nobody's Arc is left, nobody is
inside. Hence `GuardsTypeCorrect`, `GuardsExclusive`, `GuardsOutlived`, `GuardsCount` and `GuardsOwnersUnlock`.
`GuardsUseLock` follows from OwnerPlace: whoever unlocks, passes on or bumps the raw mutex owns it, while things are sound.
`GuardsOutlived` and `GuardsCount` have no such condition: they do not rest on exclusion.

Model-checked only: everything under fairness (`ParkReturns`, `QuietProgress`, `FairProgress`,
`TaskProgress`, `LetGo` and the fairness in the `Implements` of MiniLock and RawMutex), which is out of
the provers' reach; there is no recursion in the models. Every safety property of a run is proved. The `...NeverStuck`
theorems are the part of progress that can be proved: they are invariants, in which the guard of each next step is spelled
out (`Ready`, `Going`) because ENABLED cannot be reasoned about here; TLC agrees on the instances of the runs that these
guards are what ENABLED says. With fairness they rule out that everybody waits for everybody, not that somebody
is overtaken for ever.

## Findings

Two have runs that TLC shows violated; `PROJECT.json` quotes the line of the code or its docs
that says otherwise.

1. `unlock` and `unlock_fair` on one mutex can give it to two threads: the FAIR
   bit is not addressed, and it is loaded and cleared in two steps (`mutex_mixed`).
2. A future of `lock_async` that has been woken and is dropped before its next poll
   takes the wakeup along, and the next in the queue stays there beside a free mutex, although the
   doc says that it may be dropped at any time (`mutex_cancel`).

The models also show the following, without a run of their own; these cases are why the properties and
theorems have the assumptions and exceptions they have.

* A timeout in the moment of a wakeup swallows it, as a dropped future does (`wasted`).
* A timeout, the drop of a future, or a poll that replaces its node (`raw_mutex.rs:187`, `barrier.rs:102`), between
  the swap of `is_on_list` (`lib.rs:283`) and the reads of the links and `data.take()` that follow in the pop: the drop sees the flag
  down and returns without the list lock, and the pop goes on in memory that is free, or in the new node, whose links are
  null and whose data is not its own (`Torn`). The list is undefined from then on.
* The same after the data has been taken, but before its Waker is used: the list is intact, but in
  the case of a thread the Parker is gone under the hands of `unlock` (`stale`).
* `unlock_fair` to a thread that times out leaves the mutex locked for ever. So does `unlock_fair`
  to a task, whose poll never looks at the FAIR bit.
* The `debug_assert!` at `raw_mutex.rs:102` fails when a thread contends during a handover. A release
  build spins there with the list lock held until the new owner clears FAIR. The others are not harmed by
  the panic (`mutex_fair` runs with it).
* A poll of `wait_async`, or its drop, may replace or drop the Parker while the leader has popped its
  Waker, and the release is overlooked (`raced`). The comment at `barrier.rs:100` relies on the drop
  of the node for this, which does not wait for a leader that has already popped the node.
* The panic of a closure of `unlocked()` drops the guard, which unlocks the mutex under whoever owns it by
  then (`unwound`).
* `unlock_fair` of an ArcMutexGuard forgets the guard and with it an Arc (`lost`): the mutex is never
  dropped.

Two remarks. The WAIT bit may stay set with an empty queue, after a
timeout or between `SleepMark` and `SleepPush`: an `unlock` then looks at an empty list. The
doc of `SpinWait::spin` (`spinwait.rs:40`) has its result the other way round; its caller
reads it the way the code means it.

## Not modelled

* Condvar: every line of `condvar.rs` is commented out.
* The benchmarks: a harness without logic of its own.
* `Debug` and `Display` output, and the tests that take up much of the source files.
* Weak memory: see above.
* Time. A deadline may pass at any moment, which covers every outcome, but not how long it takes: a
  Duration is turned into a new deadline on every round of `lock_inner` (`lock_utils.rs:18`), so a
  thread that keeps losing the race waits longer than it asked.
* Guards that are sent to another thread, and guards a task holds across an await: in MutexGuards a guard
  stays with the thread that made it.
* `unlock_fair` together with tasks: a poll never looks at the FAIR bit, so the mutex stays locked after the first
  handover to one (above). With threads that time out it is modelled: the mutex may be lost in the same way.
* What the code does after a pop has been torn: it reads freed memory, so anything may follow. The models end there.
* `park_for`, `spin_no_yield` and `SpinWait::reset`, which have no caller.
* `IntrusiveList` with a second push of a node that has been popped (`lib.rs:208`): no caller does that.
