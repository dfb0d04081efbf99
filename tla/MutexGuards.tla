----------------------------- MODULE MutexGuards ----------------------------
(***************************************************************************)
(* colock's Mutex<T>, its guards and the Arc it may live in: who can reach *)
(* the data, who keeps the memory of the mutex alive, and what a guard     *)
(* does to the raw mutex when it is dropped, forgotten, leaked or opened.  *)
(*                                                                         *)
(* The raw mutex is AbstractLock, which RawMutex is shown to implement     *)
(* without unlock_fair() or with it alone, as long as no pop of its list   *)
(* is torn: lock() asks and is granted, unlock() frees whoever calls it.   *)
(* Once both have been used on the same mutex (Mixed) it may grant a call  *)
(* although somebody owns it.  A torn pop, after which nothing is defined, *)
(* is left out.  A thread reaches the mutex through an Arc of its own, and *)
(* has at most one guard.                                                  *)
(* A guard of lock() borrows that Arc; a guard of lock_arc() has its own.  *)
(***************************************************************************)
EXTENDS Naturals, FiniteSets

CONSTANTS Threads, Null,
          MaxLost    \* bound: Arcs that are never dropped

ASSUME GuardsAssumption ==
  /\ IsFiniteSet(Threads) /\ Null \notin Threads /\ MaxLost \in Nat

VARIABLES owner, want,   \* the raw mutex, as AbstractLock promises it
          used,          \* which of unlock() and unlock_fair() it has seen
          arcs,          \* the threads that have an Arc<Mutex<T>>
          strong,        \* the strong count of the Arc
          lost,          \* how many Arcs have been forgotten
          inner,         \* the Mutex<T>: "there", "moved" out or "dropped"
          kind,          \* the M of the guard: a "ref" or an "arc"
          pc,            \* where each thread is
          unwound        \* has a closure's panic unlocked another's mutex?

raw == <<owner, want, used>>
memory == <<arcs, strong, lost, inner>>
vars == <<raw, memory, kind, pc, unwound>>

Raw == INSTANCE AbstractLock WITH Free <- Null, Panics <- FALSE

\* What a guard holds as its mutex: a reference or an Arc of its own.  "raw"
\* stands for a call on the raw mutex that makes no guard.
Kinds == {"ref", "arc", "raw"}

Releases == {"unlock", "unlock_fair"}

\* Between two calls, in lock(), with a guard, in the closure of unlocked(),
\* in its lock() or that of bump(), behind the unlock() of the guard's drop,
\* owner of the raw mutex without a guard, with the reference of leak(), and
\* with the one of get_mut().
Locations ==
  {"idle", "ask", "guard", "closure", "relock", "drop", "raw", "leaked", "mut"}

TypeOK ==
  /\ Raw!AbsTypeOK
  /\ used \subseteq Releases
  /\ arcs \subseteq Threads
  /\ strong \in Nat /\ lost \in 0..MaxLost
  /\ inner \in {"there", "moved", "dropped"}
  /\ kind \in [Threads -> Kinds]
  /\ pc \in [Threads -> Locations]
  /\ unwound \in BOOLEAN

\* Mutex::new or from_raw, in a new Arc.
Init ==
  /\ Raw!AbsInit
  /\ used = {}
  /\ \E t \in Threads : arcs = {t}
  /\ strong = 1 /\ lost = 0
  /\ inner = "there"
  /\ kind = [t \in Threads |-> "ref"]
  /\ pc = [t \in Threads |-> "idle"]
  /\ unwound = FALSE

Goto(t, l) == pc' = [pc EXCEPT ![t] = l]

\* MutexGuardBase::new: a guard of kind k; make_arc_guard() clones the Arc.
NewGuard(t, k) ==
  /\ kind' = [kind EXCEPT ![t] = k]
  /\ strong' = IF k = "arc" THEN strong + 1 ELSE strong
  /\ Goto(t, "guard")
  /\ UNCHANGED <<arcs, lost, inner, unwound>>

\* RawMutex::unlock()
Unlock ==
  /\ used' = used \cup {"unlock"}
  /\ owner' = Null
  /\ UNCHANGED want

\* RawMutex::unlock_fair(): nobody is queued, or the mutex passes to one who is,
\* or to one who does not notice, since he has timed out or is a task: then it
\* stays locked for ever.
UnlockFair ==
  /\ used' = used \cup {"unlock_fair"}
  /\ \/ owner' = Null /\ UNCHANGED want
     \/ \E u \in Threads :
          /\ want[u] \in {"lock", "timed"}
          /\ \/ owner' = u /\ want' = [want EXCEPT ![u] = "none"]
             \/ UNCHANGED <<owner, want>>

\* Both have been used: a thread that unlock() has woken may see the FAIR bit
\* that was meant for another, and from then on two threads own the mutex.
Mixed == used = Releases

\* The last Arc takes the mutex and its data with it.
DropStrong ==
  /\ strong' = strong - 1
  /\ inner' = IF strong = 1 THEN "dropped" ELSE inner

\* mem::forget of a guard: its Arc is never dropped.
Forget(t) ==
  /\ kind[t] = "arc" => lost < MaxLost
  /\ lost' = IF kind[t] = "arc" THEN lost + 1 ELSE lost
  /\ UNCHANGED <<arcs, strong, inner, kind, unwound>>
-----------------------------------------------------------------------------
(* The Arc (external), into_inner and get_mut                              *)

\* Where a thread is in its own code and may move its Arcs.
Free(t) == pc[t] \in {"idle", "guard", "closure", "raw", "leaked"}

\* Arc::clone, and the clone goes to another thread.
Share(t, u) ==
  /\ Free(t) /\ t \in arcs /\ Free(u) /\ u \notin arcs
  /\ arcs' = arcs \cup {u} /\ strong' = strong + 1
  /\ UNCHANGED <<raw, lost, inner, kind, pc, unwound>>

\* A thread drops its Arc, unless a guard or a leaked reference borrows it.
DropArc(t) ==
  /\ Free(t) /\ t \in arcs /\ (pc[t] = "idle" \/ kind[t] = "arc")
  /\ arcs' = arcs \ {t}
  /\ DropStrong
  /\ UNCHANGED <<raw, lost, kind, pc, unwound>>

\* Arc::try_unwrap and into_inner.
IntoInner(t) ==
  /\ pc[t] = "idle" /\ t \in arcs /\ strong = 1
  /\ arcs' = {} /\ strong' = 0 /\ inner' = "moved"
  /\ UNCHANGED <<raw, lost, kind, pc, unwound>>

\* Arc::get_mut and get_mut.
GetMut(t) ==
  /\ pc[t] = "idle" /\ t \in arcs /\ strong = 1
  /\ Goto(t, "mut")
  /\ UNCHANGED <<raw, memory, kind, unwound>>

\* The borrow of get_mut() ends, or that of a reference that a guard of
\* lock() was leaked to.
EndBorrow(t) ==
  /\ pc[t] = "mut" \/ (pc[t] = "leaked" /\ kind[t] = "ref")
  /\ Goto(t, "idle")
  /\ UNCHANGED <<raw, memory, kind, unwound>>
-----------------------------------------------------------------------------
(* Locking                                                                 *)

\* try_lock, try_lock_for, lock and lock_async with their Arc forms, or the
\* call on the raw mutex that raw_mutex() gives access to.
Ask(t, k, r) ==
  /\ pc[t] = "idle" /\ t \in arcs
  /\ Raw!Request(t) /\ want'[t] = r
  /\ kind' = [kind EXCEPT ![t] = k]
  /\ Goto(t, "ask")
  /\ UNCHANGED <<used, memory, unwound>>

Granted(t) ==
  /\ Raw!Grant(t)
  /\ UNCHANGED <<used, memory, kind, pc, unwound>>

\* lock_inner() takes a FAIR bit for its own: the mutex is granted although
\* somebody owns it.
GrantedTwice(t) ==
  /\ Mixed /\ want[t] \in {"lock", "timed"}
  /\ owner' = t /\ want' = [want EXCEPT ![t] = "none"]
  /\ UNCHANGED <<used, memory, kind, pc, unwound>>

Fail(t) ==
  /\ pc[t] = "ask"
  /\ Raw!Refuse(t) \/ Raw!Expire(t)
  /\ Goto(t, "idle")
  /\ UNCHANGED <<used, memory, kind, unwound>>

\* Mutant of MakeGuard: the guard is made of the pointer, not of a clone.
MakeGuardUncounted(t) ==
  /\ pc[t] = "ask" /\ want[t] = "none" /\ kind[t] # "raw"
  /\ Goto(t, "guard")
  /\ UNCHANGED <<raw, memory, kind, unwound>>

\* The raw mutex is ours: make_guard() or make_arc_guard().
MakeGuard(t) ==
  /\ pc[t] = "ask" /\ want[t] = "none" /\ kind[t] # "raw"
  /\ NewGuard(t, kind[t])
  /\ UNCHANGED raw

\* The caller of the raw mutex owns it without a guard.
KeepRaw(t) ==
  /\ pc[t] = "ask" /\ want[t] = "none" /\ kind[t] = "raw"
  /\ Goto(t, "raw")
  /\ UNCHANGED <<raw, memory, kind, unwound>>

\* make_guard_unchecked() and make_arc_guard_unchecked() by the owner.
MakeUnchecked(t, k) ==
  /\ pc[t] = "raw" /\ t \in arcs
  /\ NewGuard(t, k)
  /\ UNCHANGED raw
-----------------------------------------------------------------------------
(* The end of a guard                                                      *)

\* Mutant of DropGuard: the Arc is dropped with the unlock().
DropGuardAtOnce(t) ==
  /\ pc[t] = "guard"
  /\ Unlock
  /\ IF kind[t] = "arc" THEN DropStrong ELSE UNCHANGED <<strong, inner>>
  /\ Goto(t, "drop")
  /\ UNCHANGED <<arcs, lost, kind, unwound>>

\* Drop::drop releases the mutex; unlock() still has the queue to look at.
DropGuard(t) ==
  /\ pc[t] = "guard"
  /\ Unlock
  /\ Goto(t, "drop")
  /\ UNCHANGED <<memory, kind, unwound>>

\* unlock() is over, and the fields of the guard are dropped.
DropField(t) ==
  /\ pc[t] = "drop"
  /\ IF kind[t] = "arc" THEN DropStrong ELSE UNCHANGED <<strong, inner>>
  /\ Goto(t, "idle")
  /\ UNCHANGED <<raw, arcs, lost, kind, unwound>>

\* Mutant of GuardUnlockFair: the guard is not forgotten and may unlock again.
GuardUnlockFairDrops(t) ==
  /\ pc[t] = "guard"
  /\ UnlockFair
  /\ UNCHANGED <<memory, kind, pc, unwound>>

\* MutexGuardBase::unlock_fair
GuardUnlockFair(t) ==
  /\ pc[t] = "guard"
  /\ UnlockFair
  /\ Forget(t)
  /\ Goto(t, "idle")

\* Mutant of Leak: the guard's Arc is dropped, not forgotten.
LeakDrops(t) ==
  /\ pc[t] = "guard"
  /\ IF kind[t] = "arc" THEN DropStrong ELSE UNCHANGED <<strong, inner>>
  /\ Goto(t, "leaked")
  /\ UNCHANGED <<raw, arcs, lost, kind, unwound>>

\* leak(): the mutex stays locked for ever.
Leak(t) ==
  /\ pc[t] = "guard"
  /\ Forget(t)
  /\ Goto(t, "leaked")
  /\ UNCHANGED raw

\* The caller forgets the guard (external) and unlocks by force later.
ForgetGuard(t) ==
  /\ pc[t] = "guard"
  /\ Forget(t)
  /\ Goto(t, "raw")
  /\ UNCHANGED raw

\* force_unlock() and force_unlock_fair() by the owner.
ForceUnlock(t) ==
  /\ pc[t] = "raw" /\ t \in arcs
  /\ Unlock \/ UnlockFair
  /\ Goto(t, "idle")
  /\ UNCHANGED <<memory, kind, unwound>>
-----------------------------------------------------------------------------
(* bump() and unlocked()                                                   *)

\* unlock() and lock().
Bump(t) ==
  /\ pc[t] = "guard"
  /\ used' = used \cup {"unlock"}
  /\ owner' = Null /\ want' = [want EXCEPT ![t] = "lock"]
  /\ Goto(t, "relock")
  /\ UNCHANGED <<memory, kind, unwound>>

\* unlocked() and unlocked_fair(), up to the closure.
Unlocked(t) ==
  /\ pc[t] = "guard"
  /\ Unlock \/ UnlockFair
  /\ Goto(t, "closure")
  /\ UNCHANGED <<memory, kind, unwound>>

\* Mutant of ClosureEnds: the guard is used without another lock().
ClosureEndsUnlocked(t) ==
  /\ pc[t] = "closure"
  /\ Goto(t, "guard")
  /\ UNCHANGED <<raw, memory, kind, unwound>>

\* The closure returns: lock() again.
ClosureEnds(t) ==
  /\ pc[t] = "closure"
  /\ Raw!Request(t) /\ want'[t] = "lock"
  /\ Goto(t, "relock")
  /\ UNCHANGED <<used, memory, kind, unwound>>

Relocked(t) ==
  /\ pc[t] = "relock" /\ want[t] = "none"
  /\ Goto(t, "guard")
  /\ UNCHANGED <<raw, memory, kind, unwound>>

\* The closure panics: the guard is dropped and unlocks the mutex, whoever
\* owns it by now.
ClosurePanics(t) ==
  /\ pc[t] = "closure"
  /\ Unlock
  /\ unwound' = (unwound \/ owner # Null)
  /\ Goto(t, "drop")
  /\ UNCHANGED <<memory, kind>>
-----------------------------------------------------------------------------
Locking(t) ==
  \/ \E k \in Kinds, r \in Raw!Requests : Ask(t, k, r)
  \/ Granted(t) \/ GrantedTwice(t) \/ Fail(t) \/ MakeGuard(t) \/ KeepRaw(t)
  \/ \E k \in {"ref", "arc"} : MakeUnchecked(t, k)

Guarding(t) ==
  \/ DropGuard(t) \/ DropField(t) \/ GuardUnlockFair(t) \/ Leak(t) \/ ForgetGuard(t)
  \/ ForceUnlock(t) \/ Bump(t) \/ Unlocked(t) \/ ClosureEnds(t) \/ Relocked(t)
  \/ ClosurePanics(t)

Owning(t) ==
  \/ \E u \in Threads : Share(t, u)
  \/ DropArc(t) \/ IntoInner(t) \/ GetMut(t) \/ EndBorrow(t)

Next == \E t \in Threads : Locking(t) \/ Guarding(t) \/ Owning(t)

Spec == Init /\ [][Next]_vars
-----------------------------------------------------------------------------
\* Deref and DerefMut of a guard.
Dereferencing == {t \in Threads : pc[t] = "guard"}

\* Who has a reference to the data, or may make one.
CanAccess == Dereferencing \cup {t \in Threads : pc[t] \in {"raw", "leaked", "mut"}}

\* The raw mutex keeps its promise and the guards theirs: unlock() and
\* unlock_fair() have not both been used, and no closure has panicked while
\* somebody else owned the mutex.
Sound == ~Mixed /\ ~unwound

\* No two threads reach the data at the same time, by whatever way: a guard,
\* get_mut(), a leaked reference, or the raw mutex; and nobody does once the
\* data has been moved out.
Exclusive == Sound => \A t, u \in CanAccess : t = u

\* Nobody is inside of the mutex, not even behind the release of an unlock(),
\* when its memory goes, and a leaked reference keeps it.
MutexOutlivesUse ==
  inner # "there" => \A t \in Threads : pc[t] = "idle" /\ t \notin arcs

\* The guards whose field is an Arc.
ArcGuards ==
  {t \in Threads : kind[t] = "arc" /\ pc[t] \in {"guard", "closure", "relock", "drop"}}

\* The mutex and its data are dropped with the last Arc, the last guard that
\* holds one included, unless a guard that holds one has been forgotten;
\* GuardUnlockFair forgets it too.
CountExact ==
  /\ strong = Cardinality(arcs) + Cardinality(ArcGuards) + lost
  /\ inner = "there" <=> strong > 0

\* The contract of RawMutex::unlock: whoever owns the raw mutex loses it only
\* by a step of its own, from a guard or by force_unlock; no other thread's
\* guard, nor the drop of one already given up, takes it away.
OwnersUnlock ==
  [][\A t \in Threads :
       owner = t /\ owner' # t =>
         \/ pc[t] \in {"guard", "raw"} /\ pc'[t] # pc[t]
         \/ ~Sound']_vars
=============================================================================
