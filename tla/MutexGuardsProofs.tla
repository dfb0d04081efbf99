------------------------- MODULE MutexGuardsProofs --------------------------
(* Safety of the guards of a Mutex in an Arc, for any number of threads    *)
(* and of Arcs that are forgotten.                                         *)
EXTENDS MutexGuards, FiniteSetTheorems, TLAPS

\* TypeOK, with the definition of the lock's part opened.
VarsOK ==
  /\ owner \in Threads \cup {Null}
  /\ want \in [Threads -> Raw!Requests \cup {"none"}]
  /\ used \subseteq Releases
  /\ arcs \subseteq Threads
  /\ strong \in Nat /\ lost \in 0..MaxLost
  /\ inner \in {"there", "moved", "dropped"}
  /\ kind \in [Threads -> Kinds]
  /\ pc \in [Threads -> Locations]
  /\ unwound \in BOOLEAN

\* A thread has asked the raw mutex only where it waits for it, and owns it
\* wherever it may use what it protects.
OwnerPlace ==
  \A t \in Threads :
    /\ want[t] # "none" => pc[t] \in {"ask", "relock"}
    /\ Sound /\ pc[t] \in {"guard", "raw", "leaked"} => owner = t
    /\ Sound /\ pc[t] \in {"ask", "relock"} /\ want[t] = "none" => owner = t

\* Whoever is inside of the mutex without an Arc of its own has a guard that
\* holds one, or has forgotten one.  get_mut() has the only Arc.
Anchored ==
  \A t \in Threads :
    /\ pc[t] # "idle" /\ t \notin arcs =>
         kind[t] = "arc" /\ pc[t] \notin {"ask", "mut"}
    /\ pc[t] \in {"raw", "leaked"} /\ kind[t] = "arc" => lost > 0
    /\ pc[t] = "mut" => strong = 1

IInv == VarsOK /\ OwnerPlace /\ Anchored /\ CountExact

\* Once both kinds of release have been used, or a closure has panicked, that
\* remains so.
LEMMA SoundBefore ==
  ASSUME VarsOK, VarsOK', used \subseteq used', unwound => unwound', Sound'
  PROVE  Sound
BY DEF VarsOK, Sound, Mixed, Releases

LEMMA TypeFromVars == VarsOK <=> TypeOK
BY DEF VarsOK, TypeOK, Raw!AbsTypeOK

\* The sets that CountExact counts are finite.
LEMMA Counts ==
  ASSUME VarsOK
  PROVE  /\ IsFiniteSet(arcs) /\ Cardinality(arcs) \in Nat
         /\ Cardinality(arcs) = 0 <=> arcs = {}
         /\ IsFiniteSet(ArcGuards) /\ Cardinality(ArcGuards) \in Nat
         /\ Cardinality(ArcGuards) = 0 <=> ArcGuards = {}
         /\ lost \in Nat /\ strong \in Nat
<1>1. arcs \in SUBSET Threads /\ ArcGuards \in SUBSET Threads
  BY DEF VarsOK, ArcGuards
<1>2. IsFiniteSet(arcs) /\ IsFiniteSet(ArcGuards)
  BY <1>1, GuardsAssumption, FS_Subset
<1> QED
  BY <1>2, FS_CardinalityType, FS_EmptySet DEF VarsOK

LEMMA Initially == Init => IInv
<1> SUFFICES ASSUME Init PROVE IInv
  OBVIOUS
<1>1. VarsOK
  <2>1. arcs \subseteq Threads
    BY DEF Init
  <2>2. lost \in 0..MaxLost
    BY GuardsAssumption DEF Init
  <2> QED
    BY <2>1, <2>2 DEF Init, Raw!AbsInit, VarsOK, Kinds, Locations
<1>2. OwnerPlace /\ Anchored
  BY DEF Init, Raw!AbsInit, OwnerPlace, Anchored
<1>3. ArcGuards = {}
  BY DEF Init, ArcGuards
<1>4. Cardinality(arcs) = 1 /\ Cardinality(ArcGuards) = 0
  BY <1>3, FS_Singleton, FS_EmptySet DEF Init
<1> QED
  BY <1>1, <1>2, <1>4 DEF Init, IInv, CountExact
-----------------------------------------------------------------------------
(* The count, by what a step does to the Arcs                              *)

\* Nothing happens to an Arc.
LEMMA SameCount ==
  ASSUME CountExact, UNCHANGED memory, ArcGuards' = ArcGuards
  PROVE  CountExact'
BY DEF CountExact, memory

\* A guard takes an Arc.
LEMMA CountGuard ==
  ASSUME VarsOK, CountExact, NEW t \in Threads, t \notin ArcGuards,
         ArcGuards' = ArcGuards \cup {t}, strong' = strong + 1,
         UNCHANGED <<arcs, lost, inner>>, strong > 0
  PROVE  CountExact'
<1>1. Cardinality(ArcGuards') = Cardinality(ArcGuards) + 1
  BY Counts, FS_AddElement
<1> QED
  BY <1>1, Counts DEF CountExact

\* A guard and its Arc are forgotten.
LEMMA CountForget ==
  ASSUME VarsOK, CountExact, NEW t \in ArcGuards,
         ArcGuards' = ArcGuards \ {t}, lost' = lost + 1,
         UNCHANGED <<arcs, strong, inner>>
  PROVE  CountExact'
<1>1. Cardinality(ArcGuards') = Cardinality(ArcGuards) - 1
  BY Counts, FS_RemoveElement
<1> QED
  BY <1>1, Counts DEF CountExact

\* A guard drops its Arc.
LEMMA CountDropGuard ==
  ASSUME VarsOK, CountExact, NEW t \in ArcGuards,
         ArcGuards' = ArcGuards \ {t}, DropStrong, UNCHANGED <<arcs, lost>>
  PROVE  CountExact' /\ strong' \in Nat
<1>a. Cardinality(ArcGuards) # 0 /\ Cardinality(ArcGuards) \in Nat
  BY Counts
<1>b. Cardinality(ArcGuards') = Cardinality(ArcGuards) - 1
  BY Counts, FS_RemoveElement
<1>1. Cardinality(ArcGuards') = Cardinality(ArcGuards) - 1 /\ Cardinality(ArcGuards) > 0
  BY <1>a, <1>b
<1>2. strong > 0
  BY <1>1, Counts DEF CountExact
<1>3. inner' = "there" <=> strong' > 0
  BY <1>2, Counts DEF CountExact, DropStrong
<1> QED
  BY <1>1, <1>2, <1>3, Counts DEF CountExact, DropStrong

\* A thread gives a clone of its Arc to another.
LEMMA CountShare ==
  ASSUME VarsOK, CountExact, NEW u \in Threads, u \notin arcs, arcs # {},
         arcs' = arcs \cup {u}, strong' = strong + 1,
         UNCHANGED <<lost, inner>>, ArcGuards' = ArcGuards
  PROVE  CountExact'
<1>1. Cardinality(arcs') = Cardinality(arcs) + 1
  BY Counts, FS_AddElement
<1> QED
  BY <1>1, Counts DEF CountExact

\* A thread drops its Arc.
LEMMA CountDropArc ==
  ASSUME VarsOK, CountExact, NEW t \in arcs,
         arcs' = arcs \ {t}, DropStrong, UNCHANGED lost, ArcGuards' = ArcGuards
  PROVE  CountExact' /\ strong' \in Nat
<1>a. Cardinality(arcs) # 0 /\ Cardinality(arcs) \in Nat
  BY Counts
<1>b. Cardinality(arcs') = Cardinality(arcs) - 1
  BY Counts, FS_RemoveElement
<1>1. Cardinality(arcs') = Cardinality(arcs) - 1 /\ Cardinality(arcs) > 0
  BY <1>a, <1>b
<1>2. strong > 0
  BY <1>1, Counts DEF CountExact
<1>3. inner' = "there" <=> strong' > 0
  BY <1>2, Counts DEF CountExact, DropStrong
<1> QED
  BY <1>1, <1>2, <1>3, Counts DEF CountExact, DropStrong

\* Who finds a count of 1 has the only Arc, and nobody else is inside.
LEMMA OnlyArc ==
  ASSUME IInv, NEW t \in arcs, strong = 1
  PROVE  /\ arcs = {t} /\ ArcGuards = {} /\ lost = 0
         /\ \A u \in Threads : u # t => pc[u] = "idle"
<1>1. Cardinality(arcs) # 0
  BY Counts DEF IInv
<1>2. Cardinality(arcs) = 1 /\ Cardinality(ArcGuards) = 0 /\ lost = 0
  BY <1>1, Counts DEF IInv, CountExact
<1>3. arcs = {t} /\ ArcGuards = {} /\ lost = 0
  BY <1>2, Counts, FS_Singleton DEF IInv
<1>4. ASSUME NEW u \in Threads, u # t PROVE pc[u] = "idle"
  BY <1>3, <1>4 DEF IInv, VarsOK, Anchored, ArcGuards, Locations
<1> QED
  BY <1>3, <1>4
-----------------------------------------------------------------------------
(* Every step keeps IInv                                                   *)

Steps(t) == Locking(t) \/ Guarding(t) \/ Owning(t)

LEMMA TypesKept ==
  ASSUME VarsOK, CountExact, NEW t \in Threads, Steps(t), strong' \in Nat
  PROVE  VarsOK'
<1> USE DEF VarsOK, Kinds, Locations, Raw!Requests, Goto, raw, memory, Releases
<1>1. ASSUME Locking(t) PROVE VarsOK'
  <2>1. ASSUME NEW k \in Kinds, NEW r \in Raw!Requests, Ask(t, k, r) PROVE VarsOK'
    BY <2>1 DEF Ask, Raw!Request
  <2>2. ASSUME Granted(t) \/ GrantedTwice(t) PROVE VarsOK'
    BY <2>2 DEF Granted, GrantedTwice, Raw!Grant
  <2>3. ASSUME Fail(t) PROVE VarsOK'
    BY <2>3 DEF Fail, Raw!Refuse, Raw!Expire
  <2>4. ASSUME MakeGuard(t) PROVE VarsOK'
    BY <2>4 DEF MakeGuard, NewGuard
  <2>5. ASSUME KeepRaw(t) PROVE VarsOK'
    BY <2>5 DEF KeepRaw
  <2>6. ASSUME NEW k \in {"ref", "arc"}, MakeUnchecked(t, k) PROVE VarsOK'
    BY <2>6 DEF MakeUnchecked, NewGuard
  <2> QED
    BY <1>1, <2>1, <2>2, <2>3, <2>4, <2>5, <2>6 DEF Locking
<1>2. ASSUME Guarding(t) PROVE VarsOK'
  <2> USE DEF Unlock, UnlockFair
  <2>1. ASSUME DropGuard(t) \/ Unlocked(t) \/ ForceUnlock(t) PROVE VarsOK'
    BY <2>1 DEF DropGuard, Unlocked, ForceUnlock
  <2>2. ASSUME DropField(t) PROVE VarsOK'
    BY <2>2 DEF DropField, DropStrong
  <2>3. ASSUME GuardUnlockFair(t) \/ Leak(t) \/ ForgetGuard(t) PROVE VarsOK'
    <3>1. lost' \in 0..MaxLost
      BY <2>3, GuardsAssumption DEF GuardUnlockFair, Leak, ForgetGuard, Forget
    <3> QED
      BY <2>3, <3>1 DEF GuardUnlockFair, Leak, ForgetGuard, Forget
  <2>4. ASSUME Bump(t) \/ ClosureEnds(t) \/ Relocked(t) \/ ClosurePanics(t) PROVE VarsOK'
    BY <2>4 DEF Bump, ClosureEnds, Raw!Request, Relocked, ClosurePanics
  <2> QED
    BY <1>2, <2>1, <2>2, <2>3, <2>4 DEF Guarding
<1>3. ASSUME Owning(t) PROVE VarsOK'
  BY <1>3 DEF Owning, Share, DropArc, DropStrong, IntoInner, GetMut, EndBorrow
<1> QED
  BY <1>1, <1>2, <1>3 DEF Steps

\* What has been used and has panicked is not forgotten.
LEMMA SoundKept ==
  ASSUME VarsOK, VarsOK', NEW t \in Threads, Steps(t), Sound'
  PROVE  Sound
<1>1. used \subseteq used' /\ (unwound => unwound')
  <2>1. CASE Locking(t)
    BY <2>1 DEF Locking, Ask, Granted, GrantedTwice, Fail, MakeGuard, NewGuard, KeepRaw,
       MakeUnchecked, raw
  <2>2. CASE Guarding(t)
    <3>1. ASSUME Unlock \/ UnlockFair PROVE used \subseteq used'
      BY <3>1 DEF Unlock, UnlockFair
    <3>2. CASE DropGuard(t) \/ ForceUnlock(t) \/ Unlocked(t)
      BY <3>1, <3>2 DEF DropGuard, ForceUnlock, Unlocked
    <3>3. CASE GuardUnlockFair(t) \/ Leak(t) \/ ForgetGuard(t)
      BY <3>1, <3>3 DEF GuardUnlockFair, Leak, ForgetGuard, Forget, raw
    <3>4. CASE DropField(t) \/ Bump(t) \/ ClosureEnds(t) \/ Relocked(t)
      BY <3>4 DEF DropField, Bump, ClosureEnds, Relocked, raw
    <3>5. CASE ClosurePanics(t)
      BY <3>1, <3>5 DEF ClosurePanics
    <3> QED
      BY <2>2, <3>2, <3>3, <3>4, <3>5 DEF Guarding
  <2>3. CASE Owning(t)
    BY <2>3 DEF Owning, Share, DropArc, IntoInner, GetMut, EndBorrow, raw
  <2> QED
    BY <2>1, <2>2, <2>3 DEF Steps
<1> QED
  BY <1>1, SoundBefore

LEMMA PlaceKept ==
  ASSUME VarsOK, VarsOK', OwnerPlace, NEW t \in Threads, Steps(t)
  PROVE  OwnerPlace'
<1>s. Sound' => Sound
  BY SoundKept
<1>0. Null \notin Threads
  BY GuardsAssumption
<1>1. ASSUME Locking(t) PROVE OwnerPlace'
  <2> USE DEF VarsOK, OwnerPlace, Goto, raw
  <2>1. ASSUME NEW k \in Kinds, NEW r \in Raw!Requests, Ask(t, k, r) PROVE OwnerPlace'
    BY <2>1, <1>s DEF Ask, Raw!Request, Raw!Requests
  <2>2. ASSUME Granted(t) PROVE OwnerPlace'
    BY <2>2, <1>0, <1>s DEF Granted, Raw!Grant
  <2>3. ASSUME GrantedTwice(t) PROVE OwnerPlace'
    <3>1. ~Sound'
      BY <2>3 DEF GrantedTwice, Sound, Mixed
    <3> QED
      BY <2>3, <3>1 DEF GrantedTwice
  <2>4. ASSUME Fail(t) PROVE OwnerPlace'
    BY <2>4, <1>s DEF Fail, Raw!Refuse, Raw!Expire
  <2>5. ASSUME MakeGuard(t) \/ KeepRaw(t) PROVE OwnerPlace'
    BY <2>5, <1>s DEF MakeGuard, NewGuard, KeepRaw
  <2>6. ASSUME NEW k \in {"ref", "arc"}, MakeUnchecked(t, k) PROVE OwnerPlace'
    BY <2>6, <1>s DEF MakeUnchecked, NewGuard
  <2> QED
    BY <1>1, <2>1, <2>2, <2>3, <2>4, <2>5, <2>6 DEF Locking
<1>2. ASSUME Guarding(t) PROVE OwnerPlace'
  <2> USE DEF VarsOK, OwnerPlace, Goto, raw
  <2>1. ASSUME DropGuard(t) \/ Unlocked(t) \/ ForceUnlock(t) \/ GuardUnlockFair(t)
        PROVE  OwnerPlace'
    <3>1. /\ Unlock \/ UnlockFair
          /\ pc[t] \in {"guard", "raw"}
          /\ \E l \in {"drop", "closure", "idle"} : Goto(t, l)
      BY <2>1 DEF DropGuard, Unlocked, ForceUnlock, GuardUnlockFair, Forget
    <3>2. CASE Unlock
      BY <3>1, <3>2, <1>s DEF Unlock
    <3>3. CASE UnlockFair
      BY <3>1, <3>3, <1>s DEF UnlockFair
    <3> QED
      BY <3>1, <3>2, <3>3
  <2>2. ASSUME DropField(t) \/ Leak(t) \/ ForgetGuard(t) PROVE OwnerPlace'
    BY <2>2, <1>s DEF DropField, Leak, ForgetGuard, Forget
  <2>3. ASSUME Bump(t) \/ ClosureEnds(t) \/ Relocked(t) PROVE OwnerPlace'
    BY <2>3, <1>0, <1>s DEF Bump, ClosureEnds, Raw!Request, Relocked
  <2>4. ASSUME ClosurePanics(t) PROVE OwnerPlace'
    <3>1. Sound' => owner = Null
      BY <2>4 DEF ClosurePanics, Sound
    <3> QED
      BY <2>4, <3>1, <1>0, <1>s DEF ClosurePanics, Unlock
  <2> QED
    BY <1>2, <2>1, <2>2, <2>3, <2>4 DEF Guarding
<1>3. ASSUME Owning(t) PROVE OwnerPlace'
  <2>1. UNCHANGED raw /\ (pc' = pc \/ Goto(t, "mut") \/ Goto(t, "idle"))
    BY <1>3 DEF Owning, Share, DropArc, IntoInner, GetMut, EndBorrow
  <2>2. want[t] = "none"
    BY <1>3 DEF Owning, Share, DropArc, IntoInner, GetMut, EndBorrow, Free, OwnerPlace, VarsOK
  <2> QED
    BY <2>1, <2>2, <1>s DEF VarsOK, OwnerPlace, Goto, raw
<1> QED
  BY <1>1, <1>2, <1>3 DEF Steps

\* A step that leaves the Arcs alone, and moves t from l to m.
LEMMA MemoryKept ==
  ASSUME IInv, NEW t \in Threads, UNCHANGED <<memory, kind>>,
         NEW m \in Locations, Goto(t, m),
         t \in ArcGuards <=> (kind[t] = "arc" /\ m \in {"guard", "closure", "relock", "drop"}),
         m # "idle" /\ t \notin arcs => pc[t] # "idle" /\ m \notin {"ask", "mut"},
         m \in {"raw", "leaked"} /\ kind[t] = "arc" => lost > 0,
         m = "mut" => strong = 1
  PROVE  Anchored' /\ CountExact' /\ strong' \in Nat
<1> USE DEF IInv, VarsOK, Goto, memory
<1>1. ArcGuards' = ArcGuards
  BY DEF ArcGuards
<1>2. CountExact'
  BY <1>1, SameCount
<1>3. Anchored'
  BY DEF Anchored
<1> QED
  BY <1>2, <1>3

LEMMA NewGuardKept ==
  ASSUME IInv, NEW t \in Threads, NEW k \in {"ref", "arc"}, NewGuard(t, k),
         t \in arcs, pc[t] \in {"ask", "raw"}
  PROVE  Anchored' /\ CountExact' /\ strong' \in Nat
<1> USE DEF IInv, VarsOK, Goto, NewGuard
<1>1. strong > 0 /\ strong' \in Nat
  BY Counts DEF CountExact
<1>2. t \notin ArcGuards
  BY DEF ArcGuards
<1>3. CASE k = "arc"
  <2>1. ArcGuards' = ArcGuards \cup {t}
    BY <1>3 DEF ArcGuards
  <2>2. CountExact'
    BY <1>1, <1>2, <1>3, <2>1, CountGuard
  <2>3. \A u \in Threads : pc[u] # "mut"
    <3> SUFFICES ASSUME NEW u \in Threads, pc[u] = "mut" PROVE FALSE
      OBVIOUS
    <3>1. strong = 1 /\ u \in arcs
      BY DEF Anchored
    <3> QED
      BY <3>1, OnlyArc
  <2>4. Anchored'
    BY <1>3, <2>3 DEF Anchored
  <2> QED
    BY <1>1, <2>2, <2>4
<1>4. CASE k = "ref"
  <2>1. ArcGuards' = ArcGuards
    BY <1>2, <1>4 DEF ArcGuards
  <2>2. CountExact'
    BY <1>4, <2>1, SameCount DEF memory
  <2>3. Anchored'
    BY <1>4 DEF Anchored
  <2> QED
    BY <1>1, <2>2, <2>3
<1> QED
  BY <1>3, <1>4

LEMMA ForgetKept ==
  ASSUME IInv, NEW t \in Threads, pc[t] = "guard", Forget(t),
         NEW m \in {"idle", "raw", "leaked"}, Goto(t, m)
  PROVE  Anchored' /\ CountExact' /\ strong' \in Nat
<1> USE DEF IInv, VarsOK, Goto, Forget
<1>1. Anchored'
  BY Counts DEF Anchored
<1>2. CASE kind[t] = "arc"
  <2>1. t \in ArcGuards /\ ArcGuards' = ArcGuards \ {t}
    BY <1>2 DEF ArcGuards
  <2> QED
    BY <1>1, <1>2, <2>1, CountForget
<1>3. CASE kind[t] # "arc"
  <2>1. ArcGuards' = ArcGuards
    BY <1>3 DEF ArcGuards
  <2> QED
    BY <1>1, <1>3, <2>1, SameCount DEF memory
<1> QED
  BY <1>2, <1>3

LEMMA DropFieldKept ==
  ASSUME IInv, NEW t \in Threads, DropField(t)
  PROVE  Anchored' /\ CountExact' /\ strong' \in Nat
<1> USE DEF IInv, VarsOK, Goto, DropField
<1>1. CASE kind[t] = "arc"
  <2>1. t \in ArcGuards /\ ArcGuards' = ArcGuards \ {t}
    BY <1>1 DEF ArcGuards
  <2>2. CountExact' /\ strong' \in Nat
    BY <1>1, <2>1, CountDropGuard
  <2>3. \A u \in Threads : pc[u] # "mut"
    <3> SUFFICES ASSUME NEW u \in Threads, pc[u] = "mut" PROVE FALSE
      OBVIOUS
    <3>1. strong = 1 /\ u \in arcs
      BY DEF Anchored
    <3> QED
      BY <2>1, <3>1, OnlyArc
  <2>4. Anchored'
    BY <2>3 DEF Anchored
  <2> QED
    BY <2>2, <2>4
<1>2. CASE kind[t] # "arc"
  <2>1. ArcGuards' = ArcGuards
    BY <1>2 DEF ArcGuards
  <2>2. UNCHANGED memory
    BY <1>2 DEF memory
  <2> QED
    BY <2>1, <2>2, SameCount DEF Anchored, memory
<1> QED
  BY <1>1, <1>2

LEMMA ArcsKept ==
  ASSUME IInv, NEW t \in Threads, Owning(t)
  PROVE  Anchored' /\ CountExact' /\ strong' \in Nat
<1> USE DEF IInv, VarsOK
<1>1. ASSUME NEW u \in Threads, Share(t, u) PROVE Anchored' /\ CountExact' /\ strong' \in Nat
  <2>1. ArcGuards' = ArcGuards /\ UNCHANGED <<pc, kind, lost, inner>> /\ strong' = strong + 1
    BY <1>1 DEF Share, ArcGuards
  <2>2. CountExact'
    BY <1>1, <2>1, CountShare DEF Share
  <2>3. \A v \in Threads : pc[v] # "mut"
    <3> SUFFICES ASSUME NEW v \in Threads, pc[v] = "mut" PROVE FALSE
      OBVIOUS
    <3>1. strong = 1 /\ v \in arcs
      BY DEF Anchored
    <3>2. t = v
      BY <1>1, <3>1, OnlyArc DEF Share
    <3> QED
      BY <1>1, <3>2 DEF Share, Free
  <2>4. Anchored'
    BY <1>1, <2>1, <2>3 DEF Anchored, Share
  <2> QED
    BY <2>1, <2>2, <2>4
<1>2. ASSUME DropArc(t) PROVE Anchored' /\ CountExact' /\ strong' \in Nat
  <2>1. ArcGuards' = ArcGuards /\ UNCHANGED <<pc, kind, lost>>
    BY <1>2 DEF DropArc, ArcGuards
  <2>2. CountExact' /\ strong' \in Nat
    BY <1>2, <2>1, CountDropArc DEF DropArc
  <2>3. \A v \in Threads : pc[v] # "mut"
    <3> SUFFICES ASSUME NEW v \in Threads, pc[v] = "mut" PROVE FALSE
      OBVIOUS
    <3>1. strong = 1 /\ v \in arcs
      BY DEF Anchored
    <3>2. t = v
      BY <1>2, <3>1, OnlyArc DEF DropArc
    <3> QED
      BY <1>2, <3>2 DEF DropArc, Free
  <2>4. Anchored'
    BY <1>2, <2>1, <2>3 DEF Anchored, DropArc, Free
  <2> QED
    BY <2>2, <2>4
<1>3. ASSUME IntoInner(t) PROVE Anchored' /\ CountExact' /\ strong' \in Nat
  <2>1. /\ arcs = {t} /\ ArcGuards = {} /\ lost = 0
        /\ \A u \in Threads : pc[u] = "idle"
    BY <1>3, OnlyArc DEF IntoInner
  <2>2. ArcGuards' = {} /\ arcs' = {} /\ lost' = 0 /\ strong' = 0 /\ inner' = "moved"
    BY <1>3, <2>1 DEF IntoInner, ArcGuards
  <2>3. CountExact'
    BY <2>2, FS_EmptySet DEF CountExact
  <2> QED
    BY <1>3, <2>1, <2>2, <2>3 DEF IntoInner, Anchored
<1>4. ASSUME GetMut(t) PROVE Anchored' /\ CountExact' /\ strong' \in Nat
  BY <1>4, MemoryKept DEF GetMut, ArcGuards, Locations
<1>5. ASSUME EndBorrow(t) PROVE Anchored' /\ CountExact' /\ strong' \in Nat
  BY <1>5, MemoryKept DEF EndBorrow, ArcGuards, Locations
<1> QED
  BY <1>1, <1>2, <1>3, <1>4, <1>5 DEF Owning

LEMMA LockingKept ==
  ASSUME IInv, NEW t \in Threads, Locking(t)
  PROVE  Anchored' /\ CountExact' /\ strong' \in Nat
<1> USE DEF IInv, VarsOK
<1>1. ASSUME NEW k \in Kinds, NEW r \in Raw!Requests, Ask(t, k, r)
      PROVE  Anchored' /\ CountExact' /\ strong' \in Nat
  <2>1. ArcGuards' = ArcGuards /\ UNCHANGED memory
    BY <1>1 DEF Ask, ArcGuards, Goto
  <2>2. Anchored'
    BY <1>1, <2>1 DEF Ask, Anchored, memory, Goto
  <2> QED
    BY <2>1, <2>2, SameCount DEF memory
<1>2. ASSUME Granted(t) \/ GrantedTwice(t) PROVE Anchored' /\ CountExact' /\ strong' \in Nat
  <2>1. ArcGuards' = ArcGuards /\ UNCHANGED <<memory, kind, pc>>
    BY <1>2 DEF Granted, GrantedTwice, ArcGuards
  <2> QED
    BY <2>1, SameCount DEF memory, Anchored
<1>3. ASSUME Fail(t) \/ KeepRaw(t) PROVE Anchored' /\ CountExact' /\ strong' \in Nat
  <2>1. PICK m \in {"idle", "raw"} :
          /\ pc[t] = "ask" /\ Goto(t, m) /\ UNCHANGED <<memory, kind>>
          /\ m = "raw" => kind[t] = "raw"
    BY <1>3 DEF Fail, KeepRaw
  <2> QED
    BY <2>1, MemoryKept DEF ArcGuards, Locations
<1>4. ASSUME MakeGuard(t) PROVE Anchored' /\ CountExact' /\ strong' \in Nat
  BY <1>4, NewGuardKept DEF MakeGuard, Kinds, Anchored
<1>5. ASSUME NEW k \in {"ref", "arc"}, MakeUnchecked(t, k)
      PROVE  Anchored' /\ CountExact' /\ strong' \in Nat
  BY <1>5, NewGuardKept DEF MakeUnchecked
<1> QED
  BY <1>1, <1>2, <1>3, <1>4, <1>5 DEF Locking

LEMMA GuardingKept ==
  ASSUME IInv, NEW t \in Threads, Guarding(t)
  PROVE  Anchored' /\ CountExact' /\ strong' \in Nat
<1>1. ASSUME \/ DropGuard(t) \/ ForceUnlock(t) \/ Bump(t) \/ Unlocked(t)
             \/ ClosureEnds(t) \/ Relocked(t) \/ ClosurePanics(t)
      PROVE  Anchored' /\ CountExact' /\ strong' \in Nat
  <2>1. PICK m \in {"drop", "idle", "relock", "closure", "guard"} :
          /\ Goto(t, m) /\ UNCHANGED <<memory, kind>>
          /\ IF m = "idle" THEN pc[t] = "raw" ELSE pc[t] \in {"guard", "closure", "relock"}
    BY <1>1 DEF DropGuard, ForceUnlock, Bump, Unlocked, ClosureEnds, Relocked, ClosurePanics
  <2> QED
    BY <2>1, MemoryKept DEF ArcGuards, Locations
<1>2. ASSUME DropField(t) PROVE Anchored' /\ CountExact' /\ strong' \in Nat
  BY <1>2, DropFieldKept
<1>3. ASSUME GuardUnlockFair(t) \/ Leak(t) \/ ForgetGuard(t)
      PROVE  Anchored' /\ CountExact' /\ strong' \in Nat
  BY <1>3, ForgetKept DEF GuardUnlockFair, Leak, ForgetGuard
<1> QED
  BY <1>1, <1>2, <1>3 DEF Guarding

LEMMA StepIInv == IInv /\ [Next]_vars => IInv'
<1> SUFFICES ASSUME IInv, [Next]_vars PROVE IInv'
  OBVIOUS
<1>1. ASSUME NEW t \in Threads, Steps(t) PROVE IInv'
  <2>1. Anchored' /\ CountExact' /\ strong' \in Nat
    BY <1>1, LockingKept, GuardingKept, ArcsKept DEF Steps
  <2> QED
    BY <1>1, <2>1, TypesKept, PlaceKept DEF IInv, VarsOK
<1>2. ASSUME UNCHANGED vars PROVE IInv'
  <2>1. ArcGuards' = ArcGuards
    BY <1>2 DEF vars, ArcGuards
  <2> QED
    BY <1>2, <2>1, SameCount
    DEF vars, raw, memory, IInv, VarsOK, OwnerPlace, Anchored, Sound, Mixed
<1> QED
  BY <1>1, <1>2 DEF Next, Steps

LEMMA IInvAlways == Spec => []IInv
BY Initially, StepIInv, PTL DEF Spec
-----------------------------------------------------------------------------
(* Theorems                                                                *)

\* Every variable keeps its type; the strong count never goes below zero.
THEOREM GuardsTypeCorrect == Spec => []TypeOK
<1>1. IInv => TypeOK
  BY TypeFromVars DEF IInv
<1> QED
  BY IInvAlways, <1>1, PTL

\* One thread at a time reaches the data, by a guard, a leaked reference, the
\* raw mutex or get_mut(), until unlock() and unlock_fair() have both been used
\* or the panic of a closure unlocks the mutex of another.
THEOREM GuardsExclusive == Spec => []Exclusive
<1>1. ASSUME IInv PROVE Exclusive
  <2> SUFFICES ASSUME Sound, NEW t \in CanAccess, NEW u \in CanAccess PROVE t = u
    BY DEF Exclusive
  <2>1. t \in Threads /\ u \in Threads /\ pc[t] # "idle" /\ pc[u] # "idle"
    BY DEF CanAccess, Dereferencing
  <2>2. ASSUME NEW v \in Threads, pc[v] = "mut" PROVE v \in arcs /\ strong = 1
    BY <2>2, <1>1 DEF IInv, Anchored
  <2>3. CASE pc[t] = "mut"
    BY <1>1, <2>1, <2>2, <2>3, OnlyArc
  <2>4. CASE pc[u] = "mut"
    BY <1>1, <2>1, <2>2, <2>4, OnlyArc
  <2>5. CASE pc[t] # "mut" /\ pc[u] # "mut"
    BY <1>1, <2>5 DEF CanAccess, Dereferencing, IInv, OwnerPlace
  <2> QED
    BY <2>3, <2>4, <2>5
<1> QED
  BY IInvAlways, <1>1, PTL

\* The mutex is dropped or moved out only when nobody is inside of it, not
\* even behind the release in an unlock(), and no reference to it is left.
THEOREM GuardsOutlived == Spec => []MutexOutlivesUse
<1>1. ASSUME IInv PROVE MutexOutlivesUse
  <2> SUFFICES ASSUME inner # "there", NEW t \in Threads
               PROVE  pc[t] = "idle" /\ t \notin arcs
    BY DEF MutexOutlivesUse
  <2>1. Cardinality(arcs) = 0 /\ Cardinality(ArcGuards) = 0 /\ lost = 0
    BY <1>1, Counts DEF IInv, CountExact
  <2>2. arcs = {} /\ ArcGuards = {} /\ lost = 0
    BY <1>1, <2>1, Counts DEF IInv
  <2> QED
    BY <1>1, <2>2 DEF IInv, VarsOK, Anchored, ArcGuards, Locations
<1> QED
  BY IInvAlways, <1>1, PTL

\* The strong count is that of the Arcs that are left: with threads, in guards
\* and forgotten.
THEOREM GuardsCount == Spec => []CountExact
BY IInvAlways, PTL DEF IInv

\* Only a thread that owns the raw mutex unlocks it, until unlock() and
\* unlock_fair() have both been used or the panic of a closure unlocks the mutex
\* of another.
THEOREM GuardsOwnersUnlock == Spec => OwnersUnlock
<1>1. IInv /\ IInv' /\ [Next]_vars =>
        [\A t \in Threads :
           owner = t /\ owner' # t =>
             \/ pc[t] \in {"guard", "raw"} /\ pc'[t] # pc[t]
             \/ ~Sound']_vars
  <2> SUFFICES ASSUME IInv, IInv', NEW u \in Threads, Steps(u), NEW t \in Threads,
                      owner = t, owner' # t, Sound'
               PROVE  pc[t] \in {"guard", "raw"} /\ pc'[t] # pc[t]
    BY DEF Next, Steps
  <2>s. Sound
    BY SoundKept DEF IInv
  <2>0. Null \notin Threads
    BY GuardsAssumption
  <2> USE DEF IInv, VarsOK, OwnerPlace, Goto, raw
  <2>1. CASE Locking(u)
    <3>1. CASE GrantedTwice(u)
      BY <3>1, <2>s DEF GrantedTwice, Sound
    <3>2. CASE Granted(u) \/ Fail(u) \/ \E k \in Kinds, r \in Raw!Requests : Ask(u, k, r)
      BY <3>2, <2>0 DEF Ask, Raw!Request, Granted, Raw!Grant, Fail, Raw!Refuse, Raw!Expire
    <3>3. CASE MakeGuard(u) \/ KeepRaw(u) \/ \E k \in {"ref", "arc"} : MakeUnchecked(u, k)
      BY <3>3 DEF MakeGuard, NewGuard, KeepRaw, MakeUnchecked
    <3> QED
      BY <2>1, <3>1, <3>2, <3>3 DEF Locking
  <2>2. CASE Guarding(u)
    <3>1. CASE DropGuard(u) \/ Unlocked(u) \/ ForceUnlock(u) \/ GuardUnlockFair(u)
      BY <3>1, <2>s DEF DropGuard, Unlocked, ForceUnlock, GuardUnlockFair, Forget
    <3>2. CASE DropField(u) \/ Leak(u) \/ ForgetGuard(u)
      BY <3>2 DEF DropField, Leak, ForgetGuard
    <3>3. CASE Bump(u) \/ ClosureEnds(u) \/ Relocked(u)
      BY <3>3, <2>s DEF Bump, ClosureEnds, Raw!Request, Relocked
    <3>4. CASE ClosurePanics(u)
      BY <3>4, <2>0 DEF ClosurePanics, Sound
    <3> QED
      BY <2>2, <3>1, <3>2, <3>3, <3>4 DEF Guarding
  <2>3. CASE Owning(u)
    BY <2>3 DEF Owning, Share, DropArc, IntoInner, GetMut, EndBorrow
  <2> QED
    BY <2>1, <2>2, <2>3 DEF Steps
<1> QED
  BY IInvAlways, <1>1, PTL DEF Spec, OwnersUnlock

\* What the guards ask of the raw mutex: every step of theirs is one that
\* AbstractLock allows its users, so nobody unlocks, passes on or bumps what he
\* does not own, until unlock() and unlock_fair() have both been used or the
\* panic of a closure unlocks the mutex of another.
UsesLock == Raw!AbsInit /\ [][Raw!AbsNext \/ ~Sound']_(Raw!absVars)

LEMMA UsesLockStep == IInv /\ IInv' /\ [Next]_vars => [Raw!AbsNext \/ ~Sound']_(Raw!absVars)
<1> SUFFICES ASSUME IInv, IInv', Sound', NEW t \in Threads, Steps(t)
             PROVE  Raw!AbsNext \/ UNCHANGED <<owner, want>>
  BY DEF Next, Steps, vars, raw, Raw!absVars
<1>v. VarsOK /\ OwnerPlace
  BY DEF IInv
<1>u. Sound
  BY SoundKept DEF IInv
<1>1. ASSUME Unlock \/ UnlockFair, pc[t] \in {"guard", "raw"}
      PROVE  Raw!AbsNext \/ UNCHANGED <<owner, want>>
  <2>1. owner = t
    BY <1>1, <1>v, <1>u DEF OwnerPlace
  <2>2. \/ Raw!Yield(t) \/ \E u \in Threads : Raw!HandTo(t, u)
        \/ UNCHANGED <<owner, want>>
    BY <1>1, <2>1 DEF Unlock, UnlockFair, Raw!Yield, Raw!HandTo
  <2> QED
    BY <2>2 DEF Raw!AbsNext
<1>2. CASE Locking(t)
  <2>1. CASE (\E k \in Kinds, r \in Raw!Requests : Ask(t, k, r)) \/ Granted(t) \/ Fail(t)
    BY <2>1 DEF Ask, Granted, Fail, Raw!AbsNext
  <2>2. CASE MakeGuard(t) \/ KeepRaw(t) \/ \E k \in {"ref", "arc"} : MakeUnchecked(t, k)
    BY <2>2 DEF MakeGuard, KeepRaw, MakeUnchecked, raw
  <2>3. CASE GrantedTwice(t)
    BY <2>3, <1>u DEF GrantedTwice, Sound
  <2> QED
    BY <1>2, <2>1, <2>2, <2>3 DEF Locking
<1>3. CASE Guarding(t)
  <2>1. CASE DropGuard(t) \/ Unlocked(t) \/ ForceUnlock(t) \/ GuardUnlockFair(t)
    BY <2>1, <1>1 DEF DropGuard, Unlocked, ForceUnlock, GuardUnlockFair
  <2>2. CASE Bump(t)
    <3>1. owner = t
      BY <2>2, <1>v, <1>u DEF Bump, OwnerPlace
    <3>2. Raw!Bump(t)
      BY <2>2, <3>1 DEF Bump, Raw!Bump
    <3> QED
      BY <3>2 DEF Raw!AbsNext
  <2>3. CASE ClosureEnds(t)
    BY <2>3 DEF ClosureEnds, Raw!AbsNext
  <2>4. CASE DropField(t) \/ Leak(t) \/ ForgetGuard(t) \/ Relocked(t)
    BY <2>4 DEF DropField, Leak, ForgetGuard, Relocked, raw
  <2>5. CASE ClosurePanics(t)
    BY <2>5 DEF ClosurePanics, Unlock, Sound
  <2> QED
    BY <1>3, <2>1, <2>2, <2>3, <2>4, <2>5 DEF Guarding
<1>4. CASE Owning(t)
  BY <1>4 DEF Owning, Share, DropArc, IntoInner, GetMut, EndBorrow, raw
<1> QED
  BY <1>2, <1>3, <1>4 DEF Steps

\* Mutex and its guards keep the contract of the raw mutex, by whatever way they
\* lock and unlock it, for as long as the raw mutex keeps its own (it does not
\* when unlock() and unlock_fair() are mixed, nor when a pop of its list has been
\* torn, which is left out here) and no closure of unlocked() has
\* panicked while another owned the mutex.
THEOREM GuardsUseLock == Spec => UsesLock
<1>1. Init => Raw!AbsInit
  BY DEF Init
<1> QED
  BY <1>1, UsesLockStep, IInvAlways, PTL DEF Spec, UsesLock
=============================================================================
