-------------------------- MODULE MiniLockProofs ---------------------------
(* Safety of RawMiniLock for any number of threads and any spin limit, and *)
(* that every step of it is a step of AbstractLock.                        *)
EXTENDS MiniLock, FiniteSetTheorems, TLAPS

USE MiniLockAssumption

\* Words stay words under the bit operations.
LEMMA WordOps ==
  /\ Unlocked \in Word /\ LockedBit \in Word
  /\ \A w \in Word : SetFlag(w) \in Word /\ GetPtr(w) \in Word
  /\ \A p \in Threads \cup {Null}, b \in BOOLEAN : [ptr |-> p, locked |-> b] \in Word
BY DEF Word, Unlocked, LockedBit, SetFlag, GetPtr

\* The types of what compare_exchange changes.
LEMMA CasTypes ==
  ASSUME TypeOK, NEW t \in Threads, NEW old \in Word, NEW new \in Word,
         NEW ok \in Locations, NEW err \in Locations,
         CompareExchange(t, old, new, ok, err)
  PROVE  /\ head' \in Word
         /\ pc' \in [Threads -> Locations]
         /\ seen' \in [Threads -> Word]
BY WordOps DEF TypeOK, CompareExchange, Goto, Keep

\* pop() dereferences a node of some thread, and has read a locked word.
PopSafe ==
  \A t \in Threads : pc[t] \in {"pop_next", "pop_cas"} =>
    seen[t].ptr \in Threads /\ seen[t].locked

\* Every step preserves type correctness.
LEMMA TypeStep == TypeOK /\ PopSafe /\ [Next]_vars => TypeOK'
<1> SUFFICES ASSUME TypeOK, PopSafe, [Next]_vars PROVE TypeOK'
  OBVIOUS
<1> USE WordOps
<1>l. {"idle", "lock", "spin", "push", "park", "try", "own", "unlock", "pop",
       "pop_next", "pop_cas", "release", "wake"} \subseteq Locations
  BY DEF Locations
<1>w. \A t \in Threads : seen[t] \in Word /\ seen[t].ptr \in Threads \cup {Null}
  BY DEF TypeOK, Word
<1>1. ASSUME NEW t \in Threads, CallLock(t) PROVE TypeOK'
  BY <1>1, <1>l DEF CallLock, TypeOK, Goto
<1>2. ASSUME NEW t \in Threads, LockFast(t) PROVE TypeOK'
  BY <1>2, <1>l, CasTypes DEF LockFast, NewSpinWait, TypeOK
<1>3. ASSUME NEW t \in Threads, Spin(t) PROVE TypeOK'
  BY <1>3, <1>l, <1>w, CasTypes DEF Spin, SpinAgain, TypeOK
<1>4. ASSUME NEW t \in Threads, MakeNode(t) PROVE TypeOK'
  BY <1>4, <1>l DEF MakeNode, TypeOK, Goto, Keep
<1>5. ASSUME NEW t \in Threads, PushNode(t) PROVE TypeOK'
  BY <1>5, <1>l, <1>w, CasTypes DEF PushNode, TypeOK
<1>6. ASSUME NEW t \in Threads, LockInstead(t) PROVE TypeOK'
  BY <1>6, <1>l, <1>w, CasTypes DEF LockInstead, TypeOK, DropNode
<1>7. ASSUME NEW t \in Threads, Park(t) PROVE TypeOK'
  BY <1>7, <1>l DEF Park, TypeOK, Goto, DropNode
<1>8. ASSUME NEW t \in Threads, CallTryLock(t) PROVE TypeOK'
  BY <1>8, <1>l DEF CallTryLock, TypeOK, Goto, Keep
<1>9. ASSUME NEW t \in Threads, TryLock(t) PROVE TypeOK'
  BY <1>9, <1>l, <1>w, CasTypes DEF TryLock, TypeOK
<1>10. ASSUME NEW t \in Threads, CallUnlock(t) PROVE TypeOK'
  BY <1>10, <1>l DEF CallUnlock, TypeOK, Goto
<1>11. ASSUME NEW t \in Threads, UnlockEmpty(t) PROVE TypeOK'
  BY <1>11, <1>l, CasTypes DEF UnlockEmpty, TypeOK
<1>12. ASSUME NEW t \in Threads, PopLoad(t) PROVE TypeOK'
  BY <1>12, <1>l DEF PopLoad, PopTest, TypeOK, Goto, Keep
<1>13. ASSUME NEW t \in Threads, PopNext(t) PROVE TypeOK'
  BY <1>13, <1>l, <1>w DEF PopNext, PopSafe, TypeOK, Goto
<1>14. ASSUME NEW t \in Threads, PopCas(t) PROVE TypeOK'
  BY <1>14, <1>l, <1>w, CasTypes DEF PopCas, PopTest, TypeOK
<1>15. ASSUME NEW t \in Threads, Release(t) PROVE TypeOK'
  BY <1>15, <1>l DEF Release, TypeOK, Goto
<1>16. ASSUME NEW t \in Threads, Wake(t) PROVE TypeOK'
  BY <1>16, <1>l DEF Wake, TypeOK, Goto
<1>17. CASE UNCHANGED vars
  BY <1>17 DEF vars, TypeOK
<1> QED
  BY <1>1, <1>2, <1>3, <1>4, <1>5, <1>6, <1>7, <1>8, <1>9, <1>10, <1>11,
     <1>12, <1>13, <1>14, <1>15, <1>16, <1>17 DEF Next, Call, Step

Excl == LockedIffHeld /\ MutualExclusion

\* One thread of an exchange: what the lock bit and the locations become.
LEMMA CasExcl ==
  ASSUME TypeOK, Excl, NEW t \in Threads, NEW old \in Word, NEW new \in Word,
         NEW ok \in Locations, NEW err \in Locations,
         CompareExchange(t, old, new, ok, err),
         pc[t] \notin Holding, err \notin Holding,
         \/ ~old.locked /\ new.locked /\ ok = "own"
         \/ old.locked = new.locked /\ ok \notin Holding
  PROVE  Excl'
BY DEF Excl, LockedIffHeld, MutualExclusion, Holding, TypeOK, CompareExchange, Goto

\* An exchange of the holder that leaves the LOCKED bit set.
LEMMA CasHolder ==
  ASSUME TypeOK, Excl, NEW t \in Threads, NEW old \in Word, NEW new \in Word,
         NEW ok \in Locations, NEW err \in Locations,
         CompareExchange(t, old, new, ok, err),
         pc[t] \in Holding, ok \in Holding, err \in Holding,
         old.locked, new.locked
  PROVE  Excl'
BY DEF Excl, LockedIffHeld, MutualExclusion, Holding, TypeOK, CompareExchange, Goto

\* Every step preserves exclusion, and the LOCKED bit that goes with it.
LEMMA ExclStep == TypeOK /\ PopSafe /\ Excl /\ [Next]_vars => Excl'
<1> SUFFICES ASSUME TypeOK, PopSafe, Excl, [Next]_vars PROVE Excl'
  OBVIOUS
<1> USE WordOps
<1>l. /\ {"idle", "lock", "spin", "push", "park", "try", "own", "unlock", "pop",
          "pop_next", "pop_cas", "release", "wake"} \subseteq Locations
      /\ Holding = {"own", "unlock", "pop", "pop_next", "pop_cas", "release"}
  BY DEF Locations, Holding
<1>w. /\ \A t \in Threads : seen[t] \in Word /\ seen[t].ptr \in Threads \cup {Null}
      /\ head \in Word
      /\ ~Unlocked.locked /\ LockedBit.locked
      /\ \A x \in Word : SetFlag(x).locked /\ ~GetPtr(x).locked
  BY DEF TypeOK, Word, Unlocked, LockedBit, SetFlag, GetPtr
<1> DEFINE Same == head' = head /\ \A t \in Threads : pc'[t] \in Holding <=> pc[t] \in Holding
<1>0. Same => Excl'
  BY DEF Excl, LockedIffHeld, MutualExclusion
<1>1. ASSUME NEW t \in Threads, CallLock(t) PROVE Excl'
  BY <1>0, <1>1, <1>l DEF CallLock, TypeOK, Goto
<1>2. ASSUME NEW t \in Threads, LockFast(t) PROVE Excl'
  <2>1. pc[t] = "lock" /\ CompareExchange(t, Unlocked, LockedBit, "own", "spin")
    BY <1>2 DEF LockFast
  <2>2. {"lock", "spin"} \cap Holding = {} /\ {"own", "spin"} \subseteq Locations
    BY <1>l
  <2> QED
    BY <2>1, <2>2, <1>w, CasExcl
<1>3. ASSUME NEW t \in Threads, Spin(t) PROVE Excl'
  BY <1>3, <1>l, <1>w, CasExcl DEF Spin
<1>4. ASSUME NEW t \in Threads, MakeNode(t) PROVE Excl'
  BY <1>0, <1>4, <1>l DEF MakeNode, TypeOK, Goto
<1>5. ASSUME NEW t \in Threads, PushNode(t) PROVE Excl'
  BY <1>5, <1>l, <1>w, CasExcl DEF PushNode
<1>6. ASSUME NEW t \in Threads, LockInstead(t) PROVE Excl'
  BY <1>6, <1>l, <1>w, CasExcl DEF LockInstead
<1>7. ASSUME NEW t \in Threads, Park(t) PROVE Excl'
  BY <1>0, <1>7, <1>l DEF Park, TypeOK, Goto
<1>8. ASSUME NEW t \in Threads, CallTryLock(t) PROVE Excl'
  BY <1>0, <1>8, <1>l DEF CallTryLock, TypeOK, Goto
<1>9. ASSUME NEW t \in Threads, TryLock(t) PROVE Excl'
  <2> DEFINE err == IF head.locked THEN "idle" ELSE "try"
  <2>1. /\ pc[t] = "try" /\ ~seen[t].locked
        /\ CompareExchange(t, seen[t], SetFlag(seen[t]), "own", err)
    BY <1>9 DEF TryLock
  <2>2. /\ {"try", "idle"} \cap Holding = {}
        /\ {"own", "idle", "try"} \subseteq Locations
    BY <1>l
  <2>3. err \in {"idle", "try"}
    OBVIOUS
  <2> HIDE DEF err
  <2> QED
    BY <2>1, <2>2, <2>3, <1>w, CasExcl
<1>10. ASSUME NEW t \in Threads, CallUnlock(t) PROVE Excl'
  BY <1>0, <1>10, <1>l DEF CallUnlock, TypeOK, Goto
<1>11. ASSUME NEW t \in Threads, UnlockEmpty(t) PROVE Excl'
  BY <1>11, <1>l, <1>w DEF UnlockEmpty, CompareExchange, Goto, TypeOK,
       Excl, LockedIffHeld, MutualExclusion
<1>12. ASSUME NEW t \in Threads, PopLoad(t) PROVE Excl'
  BY <1>0, <1>12, <1>l DEF PopLoad, PopTest, TypeOK, Goto
<1>13. ASSUME NEW t \in Threads, PopNext(t) PROVE Excl'
  BY <1>0, <1>13, <1>l DEF PopNext, TypeOK, Goto
<1>14. ASSUME NEW t \in Threads, PopCas(t) PROVE Excl'
  <2> DEFINE new == [ptr |-> after[t], locked |-> TRUE]
  <2>1. pc[t] = "pop_cas" /\ CompareExchange(t, seen[t], new, "release", PopTest(head))
    BY <1>14 DEF PopCas
  <2>2. new \in Word /\ new.locked
    BY DEF TypeOK
  <2>3. /\ {"pop_cas", "release"} \subseteq Holding
        /\ PopTest(head) \in Holding
        /\ Holding \subseteq Locations
    BY <1>l DEF PopTest
  <2>4. seen[t].locked
    BY <2>1 DEF PopSafe
  <2> HIDE DEF new
  <2> QED
    BY <2>1, <2>2, <2>3, <2>4, <1>w, CasHolder
<1>15. ASSUME NEW t \in Threads, Release(t) PROVE Excl'
  BY <1>15, <1>l, <1>w DEF Release, Goto, TypeOK,
       Excl, LockedIffHeld, MutualExclusion
<1>16. ASSUME NEW t \in Threads, Wake(t) PROVE Excl'
  BY <1>0, <1>16, <1>l DEF Wake, TypeOK, Goto
<1>17. CASE UNCHANGED vars
  BY <1>17 DEF vars, Excl, LockedIffHeld, MutualExclusion
<1> QED
  BY <1>1, <1>2, <1>3, <1>4, <1>5, <1>6, <1>7, <1>8, <1>9, <1>10, <1>11,
     <1>12, <1>13, <1>14, <1>15, <1>16, <1>17 DEF Next, Call, Step

\* pop() only ever goes on with a word that has a node in it.
LEMMA PopSafeStep == TypeOK /\ PopSafe /\ Excl /\ [Next]_vars => PopSafe'
<1> SUFFICES ASSUME TypeOK, PopSafe, Excl, [Next]_vars PROVE PopSafe'
  OBVIOUS
<1>h. \A t \in Threads : pc[t] \in Holding => head.locked
  BY DEF Excl, LockedIffHeld
<1>n. ASSUME head \in Word, head.locked, head # LockedBit
      PROVE  head.ptr \in Threads
  BY <1>n DEF Word, LockedBit
<1>1. ASSUME NEW t \in Threads,
             CallLock(t) \/ MakeNode(t) \/ Park(t) \/ CallTryLock(t)
               \/ CallUnlock(t) \/ Release(t) \/ Wake(t)
      PROVE  PopSafe'
  BY <1>1 DEF CallLock, MakeNode, Park, CallTryLock, CallUnlock, Release, Wake,
              PopSafe, TypeOK, Goto, Keep
<1>2. ASSUME NEW t \in Threads, LockFast(t) \/ Spin(t) \/ PushNode(t) \/ LockInstead(t)
      PROVE  PopSafe'
  BY <1>2 DEF LockFast, Spin, PushNode, LockInstead, CompareExchange,
              PopSafe, TypeOK, Goto, Keep
<1>3. ASSUME NEW t \in Threads, TryLock(t) \/ UnlockEmpty(t) PROVE PopSafe'
  BY <1>3 DEF TryLock, UnlockEmpty, CompareExchange, PopSafe, TypeOK, Goto, Keep
<1>4. ASSUME NEW t \in Threads, PopLoad(t) PROVE PopSafe'
  <2>1. head.locked /\ head \in Word
    BY <1>4, <1>h DEF PopLoad, Holding, TypeOK
  <2> QED
    BY <2>1, <1>4, <1>n DEF PopLoad, PopTest, PopSafe, TypeOK, Goto, Keep, InScope
<1>5. ASSUME NEW t \in Threads, PopNext(t) PROVE PopSafe'
  BY <1>5 DEF PopNext, PopSafe, TypeOK, Goto
<1>6. ASSUME NEW t \in Threads, PopCas(t) PROVE PopSafe'
  <2>1. head.locked /\ head \in Word
    BY <1>6, <1>h DEF PopCas, Holding, TypeOK
  <2> QED
    BY <2>1, <1>6, <1>n DEF PopCas, CompareExchange, PopTest, PopSafe, TypeOK,
                            Goto, Keep, InScope
<1>7. CASE UNCHANGED vars
  BY <1>7 DEF vars, PopSafe
<1> QED
  BY <1>1, <1>2, <1>3, <1>4, <1>5, <1>6, <1>7 DEF Next, Call, Step
-----------------------------------------------------------------------------
\* A node that is being pushed or is on the stack has its Waker, and nobody
\* has raised the flag of its Parker.
NodeReady ==
  /\ \A t \in Threads : pc[t] = "push" => waker[t] /\ ~flag[t]
  /\ \A t \in Queued : ~flag[t]

\* StackIntact without its bound on the length, which follows.
Stack == \E n \in Nat : \E s \in [1..n -> Threads] : IsStack(s, n)

QueueInv == NodeReady /\ Stack /\ PopReadsLiveNode /\ WakeTargetParked

\* A stack repeats no node, so it is not longer than there are threads.
LEMMA StackBound == Stack => StackIntact
<1> SUFFICES ASSUME NEW n \in Nat, NEW s \in [1..n -> Threads], IsStack(s, n)
             PROVE  StackIntact
  BY DEF Stack
<1>1. s \in Injection(1..n, Threads)
  BY DEF IsStack, Injection, IsInjective
<1>2. Cardinality(1..n) <= Cardinality(Threads)
  BY <1>1, FS_Injection DEF MiniLockAssumption
<1>3. Cardinality(1..n) = n
  BY FS_Interval
<1>4. Cardinality(Threads) \in Nat
  BY FS_CardinalityType DEF MiniLockAssumption
<1>5. n \in 0..Cardinality(Threads)
  BY <1>2, <1>3, <1>4
<1> QED
  BY <1>5 DEF StackIntact

\* What leaves the top, the nodes and their links alone leaves the stack alone.
LEMMA StackFrame ==
  ASSUME Stack, head'.ptr = head.ptr, Queued' = Queued,
         \A t \in Queued : next'[t] = next[t]
  PROVE  Stack'
<1>0. PICK n \in Nat : \E s \in [1..n -> Threads] : IsStack(s, n)
  BY DEF Stack
<1>1. PICK s \in [1..n -> Threads] : IsStack(s, n)
  BY <1>0
<1>2. \A i \in 1..n : s[i] \in Queued
  BY <1>1 DEF IsStack
<1>3. IsStack(s, n)'
  BY <1>1, <1>2 DEF IsStack
<1> QED
  BY <1>3 DEF Stack

\* The top of the stack is queued; no top, no queue.
LEMMA StackTop ==
  ASSUME TypeOK, Stack
  PROVE  /\ head.ptr # Null => head.ptr \in Queued
         /\ head.ptr = Null => Queued = {}
<1>0. PICK n \in Nat : \E s \in [1..n -> Threads] : IsStack(s, n)
  BY DEF Stack
<1>1. PICK s \in [1..n -> Threads] : IsStack(s, n)
  BY <1>0
<1>2. CASE n = 0
  BY <1>1, <1>2 DEF IsStack
<1>3. CASE n # 0
  <2>1. 1 \in 1..n
    BY <1>3
  <2>2. head.ptr = s[1] /\ s[1] \in Queued
    BY <1>1, <1>3, <2>1 DEF IsStack
  <2> QED
    BY <2>2 DEF Queued, MiniLockAssumption
<1> QED
  BY <1>2, <1>3

\* push_or_lock puts a node on top.
LEMMA StackPush ==
  ASSUME Stack, TypeOK, NEW t \in Threads, t \notin Queued,
         head'.ptr = t, next'[t] = head.ptr, Queued' = Queued \cup {t},
         \A u \in Queued : next'[u] = next[u]
  PROVE  Stack'
<1>0. PICK n \in Nat : \E s \in [1..n -> Threads] : IsStack(s, n)
  BY DEF Stack
<1>1. PICK s \in [1..n -> Threads] : IsStack(s, n)
  BY <1>0
<1> DEFINE r == [i \in 1..(n + 1) |-> IF i = 1 THEN t ELSE s[i - 1]]
<1>2. /\ r \in [1..(n + 1) -> Threads] /\ r[1] = t /\ n + 1 \in Nat
      /\ \A i \in 1..n : i + 1 \in 1..(n + 1) /\ r[i + 1] = s[i]
      /\ \A i \in 1..(n + 1) : i = 1 \/ (i - 1 \in 1..n /\ r[i] = s[i - 1])
  OBVIOUS
<1>3. \A i \in 1..n : s[i] \in Queued
  BY <1>1 DEF IsStack
<1> HIDE DEF r
<1>4. head'.ptr = r[1]
  BY <1>2
<1>5. \A i \in 1..(n + 1) : next'[r[i]] = IF i = n + 1 THEN Null ELSE r[i + 1]
  <2> SUFFICES ASSUME NEW i \in 1..(n + 1)
               PROVE  next'[r[i]] = IF i = n + 1 THEN Null ELSE r[i + 1]
    OBVIOUS
  <2>1. CASE i = 1
    <3>1. next'[r[i]] = head.ptr
      BY <1>2, <2>1
    <3>2. CASE n = 0
      BY <1>1, <2>1, <3>1, <3>2 DEF IsStack
    <3>3. CASE n # 0
      BY <1>1, <1>2, <2>1, <3>1, <3>3 DEF IsStack
    <3> QED
      BY <3>2, <3>3
  <2>2. CASE i # 1
    <3>1. i - 1 \in 1..n /\ r[i] = s[i - 1]
      BY <1>2, <2>2
    <3>2. next'[r[i]] = next[s[i - 1]]
      BY <3>1, <1>3
    <3>3. next[s[i - 1]] = IF i - 1 = n THEN Null ELSE s[(i - 1) + 1]
      BY <3>1, <1>1 DEF IsStack
    <3>4. i # n + 1 => i \in 1..n /\ r[i + 1] = s[i]
      BY <1>2
    <3> QED
      BY <3>2, <3>3, <3>4
  <2> QED
    BY <2>1, <2>2
<1>6. \A i, j \in 1..(n + 1) : r[i] = r[j] => i = j
  <2> SUFFICES ASSUME NEW i \in 1..(n + 1), NEW j \in 1..(n + 1), r[i] = r[j]
               PROVE  i = j
    OBVIOUS
  <2>1. CASE i = 1 \/ j = 1
    BY <2>1, <1>2, <1>3
  <2>2. CASE i # 1 /\ j # 1
    <3>1. /\ i - 1 \in 1..n /\ r[i] = s[i - 1]
          /\ j - 1 \in 1..n /\ r[j] = s[j - 1]
      BY <2>2, <1>2
    <3>2. i - 1 = j - 1
      BY <3>1, <1>1 DEF IsStack
    <3> QED
      BY <3>2
  <2> QED
    BY <2>1, <2>2
<1>7. Queued' = {r[i] : i \in 1..(n + 1)}
  <2>1. Queued = {s[i] : i \in 1..n}
    BY <1>1 DEF IsStack
  <2>2. \A u \in Queued \cup {t} : \E i \in 1..(n + 1) : u = r[i]
    BY <2>1, <1>2
  <2>3. \A i \in 1..(n + 1) : r[i] \in Queued \cup {t}
    BY <1>2, <1>3
  <2> QED
    BY <2>2, <2>3
<1>8. IsStack(r, n + 1)'
  BY <1>2, <1>4, <1>5, <1>6, <1>7 DEF IsStack
<1> QED
  BY <1>2, <1>8 DEF Stack

\* pop() takes the top node off.
LEMMA StackPop ==
  ASSUME Stack, TypeOK, head.ptr \in Threads,
         head'.ptr = next[head.ptr], Queued' = Queued \ {head.ptr}, next' = next
  PROVE  Stack'
<1>0. PICK n \in Nat : \E s \in [1..n -> Threads] : IsStack(s, n)
  BY DEF Stack
<1>1. PICK s \in [1..n -> Threads] : IsStack(s, n)
  BY <1>0
<1>2. n # 0 /\ head.ptr = s[1] /\ 1 \in 1..n
  BY <1>1 DEF IsStack, MiniLockAssumption
<1> DEFINE r == [i \in 1..(n - 1) |-> s[i + 1]]
<1>3. /\ r \in [1..(n - 1) -> Threads] /\ n - 1 \in Nat
      /\ \A i \in 1..(n - 1) : i + 1 \in 1..n /\ r[i] = s[i + 1]
      /\ \A i \in 1..n : i = 1 \/ (i - 1 \in 1..(n - 1) /\ s[i] = r[i - 1])
  BY <1>2
<1> HIDE DEF r
<1>4. next[s[1]] = IF 1 = n THEN Null ELSE s[2]
  BY <1>1, <1>2 DEF IsStack
<1>5. head'.ptr = IF n - 1 = 0 THEN Null ELSE r[1]
  BY <1>2, <1>3, <1>4
<1>6. \A i \in 1..(n - 1) : next'[r[i]] = IF i = n - 1 THEN Null ELSE r[i + 1]
  <2> SUFFICES ASSUME NEW i \in 1..(n - 1)
               PROVE  next'[r[i]] = IF i = n - 1 THEN Null ELSE r[i + 1]
    OBVIOUS
  <2>1. next[s[i + 1]] = IF i + 1 = n THEN Null ELSE s[(i + 1) + 1]
    BY <1>1, <1>3 DEF IsStack
  <2>2. i # n - 1 => i + 1 \in 1..(n - 1) /\ r[i + 1] = s[(i + 1) + 1]
    BY <1>3
  <2> QED
    BY <2>1, <2>2, <1>3
<1>7. \A i, j \in 1..(n - 1) : r[i] = r[j] => i = j
  <2> SUFFICES ASSUME NEW i \in 1..(n - 1), NEW j \in 1..(n - 1), r[i] = r[j]
               PROVE  i = j
    OBVIOUS
  <2>1. i + 1 = j + 1
    BY <1>1, <1>3 DEF IsStack
  <2> QED
    BY <2>1
<1>8. Queued' = {r[i] : i \in 1..(n - 1)}
  <2>1. Queued = {s[i] : i \in 1..n}
    BY <1>1 DEF IsStack
  <2>2. \A u \in Queued \ {s[1]} : \E i \in 1..(n - 1) : u = r[i]
    BY <2>1, <1>3
  <2>3. \A i \in 1..(n - 1) : r[i] \in Queued /\ r[i] # s[1]
    <3> SUFFICES ASSUME NEW i \in 1..(n - 1) PROVE r[i] \in Queued /\ r[i] # s[1]
      OBVIOUS
    <3>1. i + 1 \in 1..n /\ i + 1 # 1 /\ r[i] = s[i + 1]
      BY <1>3
    <3>2. s[i + 1] # s[1]
      BY <3>1, <1>1, <1>2 DEF IsStack
    <3> QED
      BY <3>1, <3>2, <2>1
  <2> QED
    BY <1>2, <2>2, <2>3
<1>9. IsStack(r, n - 1)'
  BY <1>3, <1>5, <1>6, <1>7, <1>8 DEF IsStack
<1> QED
  BY <1>3, <1>9 DEF Stack

Delicate == {"park", "pop_next", "pop_cas", "release", "wake"}

\* A step of a thread that has no part in the queue.
LEMMA QueueFrame ==
  ASSUME TypeOK, QueueInv, NEW t \in Threads,
         pc[t] \notin Delicate, pc'[t] \notin Delicate,
         head'.ptr = head.ptr,
         \A u \in Threads \ {t} :
           /\ pc'[u] = pc[u] /\ waker'[u] = waker[u] /\ flag'[u] = flag[u]
           /\ next'[u] = next[u] /\ seen'[u] = seen[u]
           /\ after'[u] = after[u] /\ taken'[u] = taken[u],
         pc'[t] = "push" => waker'[t] /\ ~flag'[t]
  PROVE  QueueInv'
<1> USE DEF QueueInv
<1>1. Queued' = Queued /\ t \notin Queued
  BY DEF Queued, Delicate
<1>2. NodeReady'
  BY <1>1 DEF NodeReady, Queued, Delicate
<1>3. Stack'
  <2>1. \A u \in Queued : next'[u] = next[u]
    BY <1>1 DEF Queued
  <2> QED
    BY <2>1, <1>1, StackFrame
<1>4. PopReadsLiveNode'
  <2> SUFFICES ASSUME NEW u \in Threads, pc'[u] \in {"pop_next", "pop_cas"}
               PROVE  /\ seen'[u].ptr \in Queued
                      /\ pc'[u] = "pop_cas" => after'[u] = next'[seen'[u].ptr]
    BY <1>1 DEF PopReadsLiveNode
  <2>1. u # t
    BY DEF Delicate
  <2>2. seen[u].ptr \in Queued /\ (pc[u] = "pop_cas" => after[u] = next[seen[u].ptr])
    BY <2>1 DEF PopReadsLiveNode
  <2>3. next'[seen[u].ptr] = next[seen[u].ptr]
    BY <2>2, <1>1 DEF Queued
  <2> QED
    BY <2>1, <2>2, <2>3
<1>5. WakeTargetParked'
  BY DEF WakeTargetParked, Delicate
<1> QED
  BY <1>2, <1>3, <1>4, <1>5

\* What an exchange leaves alone.
LEMMA CasFrame ==
  ASSUME TypeOK, NEW t \in Threads, NEW old, NEW new, NEW ok, NEW err,
         CompareExchange(t, old, new, ok, err)
  PROVE  /\ \A u \in Threads \ {t} : pc'[u] = pc[u] /\ seen'[u] = seen[u]
         /\ pc'[t] \in {ok, err}
         /\ head' = head \/ (head = old /\ head' = new)
BY DEF TypeOK, CompareExchange, Goto, Keep

\* The steps that take no part in the queue.
LEMMA QueueQuietStep ==
  ASSUME TypeOK, QueueInv, NEW t \in Threads,
         \/ CallLock(t) \/ LockFast(t) \/ Spin(t) \/ MakeNode(t) \/ LockInstead(t)
         \/ CallTryLock(t) \/ TryLock(t) \/ CallUnlock(t) \/ UnlockEmpty(t)
  PROVE  QueueInv'
<1>p. /\ Unlocked.ptr = LockedBit.ptr
      /\ \A w : GetPtr(w).ptr = SetFlag(w).ptr /\ SetFlag(w).ptr = w.ptr
  BY DEF Unlocked, LockedBit, GetPtr, SetFlag
<1>1. CASE CallLock(t)
  BY <1>1, QueueFrame DEF CallLock, Goto, TypeOK, Delicate
<1>2. CASE LockFast(t)
  <2>1. /\ pc[t] = "lock" /\ CompareExchange(t, Unlocked, LockedBit, "own", "spin")
        /\ UNCHANGED <<next, waker, flag, after, taken>>
    BY <1>2 DEF LockFast
  <2>2. /\ \A u \in Threads \ {t} : pc'[u] = pc[u] /\ seen'[u] = seen[u]
        /\ pc'[t] \in {"own", "spin"} /\ head'.ptr = head.ptr
    BY <2>1, <1>p, CasFrame
  <2> QED
    BY <2>1, <2>2, QueueFrame DEF Delicate
<1>3. CASE Spin(t)
  <2>1. /\ pc[t] = "spin"
        /\ CompareExchange(t, GetPtr(seen[t]), SetFlag(seen[t]), "own", "spin")
        /\ UNCHANGED <<next, waker, flag, after, taken>>
    BY <1>3 DEF Spin
  <2>2. /\ \A u \in Threads \ {t} : pc'[u] = pc[u] /\ seen'[u] = seen[u]
        /\ pc'[t] \in {"own", "spin"} /\ head'.ptr = head.ptr
    BY <2>1, <1>p, CasFrame
  <2> QED
    BY <2>1, <2>2, QueueFrame DEF Delicate
<1>4. CASE MakeNode(t)
  BY <1>4, QueueFrame DEF MakeNode, Goto, Keep, TypeOK, Delicate
<1>5. CASE LockInstead(t)
  <2>1. /\ pc[t] = "push"
        /\ CompareExchange(t, seen[t], SetFlag(seen[t]), "own", "push")
        /\ head = seen[t] => pc'[t] = "own"
        /\ head # seen[t] => UNCHANGED <<next, waker, flag>>
        /\ \A u \in Threads \ {t} :
             next'[u] = next[u] /\ waker'[u] = waker[u] /\ flag'[u] = flag[u]
        /\ UNCHANGED <<after, taken>>
    BY <1>5 DEF LockInstead, DropNode, TypeOK, CompareExchange, Goto
  <2>2. /\ \A u \in Threads \ {t} : pc'[u] = pc[u] /\ seen'[u] = seen[u]
        /\ pc'[t] \in {"own", "push"} /\ head'.ptr = head.ptr
    BY <2>1, <1>p, CasFrame
  <2>3. pc'[t] = "push" => waker'[t] /\ ~flag'[t]
    BY <2>1 DEF QueueInv, NodeReady
  <2> QED
    BY <2>1, <2>2, <2>3, QueueFrame DEF Delicate
<1>6. CASE CallTryLock(t)
  BY <1>6, QueueFrame DEF CallTryLock, Goto, Keep, TypeOK, Delicate
<1>7. CASE TryLock(t)
  <2> DEFINE err == IF head.locked THEN "idle" ELSE "try"
  <2>1. /\ pc[t] = "try" /\ CompareExchange(t, seen[t], SetFlag(seen[t]), "own", err)
        /\ UNCHANGED <<next, waker, flag, after, taken>>
    BY <1>7 DEF TryLock
  <2>2. err \in {"idle", "try"}
    OBVIOUS
  <2> HIDE DEF err
  <2>3. /\ \A u \in Threads \ {t} : pc'[u] = pc[u] /\ seen'[u] = seen[u]
        /\ pc'[t] \in {"own", "idle", "try"} /\ head'.ptr = head.ptr
    BY <2>1, <2>2, <1>p, CasFrame
  <2> QED
    BY <2>1, <2>3, QueueFrame DEF Delicate
<1>8. CASE CallUnlock(t)
  BY <1>8, QueueFrame DEF CallUnlock, Goto, TypeOK, Delicate
<1>9. CASE UnlockEmpty(t)
  <2>1. /\ pc[t] = "unlock" /\ CompareExchange(t, LockedBit, Unlocked, "idle", "pop")
        /\ UNCHANGED <<next, waker, flag, after, taken>>
    BY <1>9 DEF UnlockEmpty
  <2>2. /\ \A u \in Threads \ {t} : pc'[u] = pc[u] /\ seen'[u] = seen[u]
        /\ pc'[t] \in {"idle", "pop"} /\ head'.ptr = head.ptr
    BY <2>1, <1>p, CasFrame
  <2> QED
    BY <2>1, <2>2, QueueFrame DEF Delicate
<1> QED
  BY <1>1, <1>2, <1>3, <1>4, <1>5, <1>6, <1>7, <1>8, <1>9

\* What leaves the sleepers, their nodes and the top alone.
LEMMA QueueSame ==
  ASSUME QueueInv, head'.ptr = head.ptr, UNCHANGED <<next, waker>>,
         \A u \in Threads : pc'[u] = "park" <=> pc[u] = "park",
         \A u \in Threads : pc'[u] # "push" \/ pc[u] = "push",
         \A u \in Threads : flag'[u] => flag[u] \/ (pc[u] = "park" /\ ~waker[u])
  PROVE  Queued' = Queued /\ NodeReady' /\ Stack'
<1>1. Queued' = Queued
  BY DEF Queued
<1>2. NodeReady'
  BY <1>1 DEF QueueInv, NodeReady, Queued
<1>3. Stack'
  BY <1>1, StackFrame DEF QueueInv
<1> QED
  BY <1>1, <1>2, <1>3

\* A node is pushed while the lock is held, and only then.
LEMMA QueuePush ==
  ASSUME TypeOK, QueueInv, NEW t \in Threads, PushNode(t)
  PROVE  QueueInv'
<1>0. /\ pc[t] = "push" /\ next' = [next EXCEPT ![t] = seen[t].ptr]
      /\ CompareExchange(t, seen[t], [ptr |-> t, locked |-> TRUE], "park", "push")
      /\ UNCHANGED <<waker, flag, after, taken, spins>>
  BY DEF PushNode
<1>1. waker[t] /\ ~flag[t] /\ t \notin Queued
  BY <1>0 DEF QueueInv, NodeReady, Queued
<1>2. /\ \A u \in Threads \ {t} : pc'[u] = pc[u] /\ seen'[u] = seen[u] /\ next'[u] = next[u]
      /\ next'[t] = seen[t].ptr
  BY <1>0, CasFrame DEF TypeOK
<1>3. CASE head # seen[t]
  <2>1. pc'[t] = "push" /\ head' = head
    BY <1>0, <1>3 DEF CompareExchange, Goto, TypeOK
  <2> QED
    BY <2>1, <1>0, <1>1, <1>2, QueueFrame DEF Delicate
<1>4. CASE head = seen[t]
  <2>1. pc'[t] = "park" /\ head'.ptr = t
    BY <1>0, <1>4 DEF CompareExchange, Goto, TypeOK
  <2>2. Queued' = Queued \cup {t}
    BY <2>1, <1>0, <1>1, <1>2 DEF Queued
  <2>3. NodeReady'
    BY <2>1, <2>2, <1>0, <1>1, <1>2 DEF QueueInv, NodeReady
  <2>4. \A u \in Queued : u # t /\ next'[u] = next[u]
    BY <1>1, <1>2 DEF Queued
  <2>5. Stack'
    BY <2>1, <2>2, <2>4, <1>1, <1>2, <1>4, StackPush DEF QueueInv
  <2>6. PopReadsLiveNode'
    <3> SUFFICES ASSUME NEW u \in Threads, pc'[u] \in {"pop_next", "pop_cas"}
                 PROVE  /\ seen'[u].ptr \in Queued'
                        /\ pc'[u] = "pop_cas" => after'[u] = next'[seen'[u].ptr]
      BY DEF PopReadsLiveNode
    <3>1. u # t /\ pc'[u] = pc[u] /\ seen'[u] = seen[u]
      BY <2>1, <1>2
    <3> QED
      BY <3>1, <2>2, <2>4, <1>0 DEF QueueInv, PopReadsLiveNode
  <2>7. WakeTargetParked'
    BY <2>1, <1>0, <1>2 DEF QueueInv, WakeTargetParked
  <2> QED
    BY <2>3, <2>5, <2>6, <2>7 DEF QueueInv
<1> QED
  BY <1>3, <1>4

\* A thread leaves park() only after it was popped and woken.
LEMMA QueueLeave ==
  ASSUME TypeOK, QueueInv, NEW t \in Threads, Park(t)
  PROVE  QueueInv'
<1>0. /\ pc[t] = "park" /\ flag[t] /\ pc'[t] = "lock"
      /\ UNCHANGED <<head, seen, after, taken>>
      /\ \A u \in Threads \ {t} :
           /\ pc'[u] = pc[u] /\ next'[u] = next[u]
           /\ waker'[u] = waker[u] /\ flag'[u] = flag[u]
  BY DEF Park, DropNode, Goto, TypeOK
<1>1. t \notin Queued /\ Queued' = Queued
  BY <1>0 DEF QueueInv, NodeReady, Queued
<1>2. \A u \in Queued : u \in Threads \ {t} /\ next'[u] = next[u]
  BY <1>0, <1>1 DEF Queued
<1>3. NodeReady'
  BY <1>0, <1>1, <1>2 DEF QueueInv, NodeReady
<1>4. Stack'
  BY <1>0, <1>1, <1>2, StackFrame DEF QueueInv
<1>5. PopReadsLiveNode'
  <2> SUFFICES ASSUME NEW u \in Threads, pc'[u] \in {"pop_next", "pop_cas"}
               PROVE  /\ seen'[u].ptr \in Queued'
                      /\ pc'[u] = "pop_cas" => after'[u] = next'[seen'[u].ptr]
    BY DEF PopReadsLiveNode
  <2>1. pc'[u] = pc[u] /\ seen'[u] = seen[u]
    BY <1>0
  <2> QED
    BY <2>1, <1>0, <1>1, <1>2 DEF QueueInv, PopReadsLiveNode
<1>6. WakeTargetParked'
  <2> SUFFICES ASSUME NEW v \in Threads, pc'[v] \in {"release", "wake"}
               PROVE  /\ taken'[v] \in Threads /\ pc'[taken'[v]] = "park"
                      /\ ~waker'[taken'[v]] /\ ~flag'[taken'[v]]
                      /\ \A w \in Threads \ {v} :
                           pc'[w] \in {"release", "wake"} => taken'[w] # taken'[v]
    BY DEF WakeTargetParked
  <2>1. v # t /\ pc'[v] = pc[v] /\ taken'[v] = taken[v]
    BY <1>0
  <2>2. /\ taken[v] \in Threads /\ pc[taken[v]] = "park"
        /\ ~waker[taken[v]] /\ ~flag[taken[v]]
        /\ \A w \in Threads \ {v} : pc[w] \in {"release", "wake"} => taken[w] # taken[v]
    BY <2>1 DEF QueueInv, WakeTargetParked
  <2>3. taken[v] # t
    BY <2>2, <1>0
  <2>4. \A w \in Threads : pc'[w] \in {"release", "wake"} => pc'[w] = pc[w]
    BY <1>0
  <2> QED
    BY <2>1, <2>2, <2>3, <2>4, <1>0
<1> QED
  BY <1>3, <1>4, <1>5, <1>6 DEF QueueInv

\* pop() reads the head, or the next of the node it found there.
LEMMA QueueRead ==
  ASSUME TypeOK, Excl, QueueInv, NEW t \in Threads,
         \/ PopLoad(t) \/ PopNext(t) \/ (PopCas(t) /\ head # seen[t])
  PROVE  QueueInv'
<1>h. head # LockedBit /\ pc[t] \in Holding => head.ptr \in Queued
  <2>1. pc[t] \in Holding => head.locked
    BY DEF Excl, LockedIffHeld
  <2>2. head \in Word /\ head.locked /\ head # LockedBit => head.ptr # Null
    BY DEF Word, LockedBit
  <2> QED
    BY <2>1, <2>2, StackTop DEF TypeOK, QueueInv
<1>0. /\ UNCHANGED <<head, next, waker, flag, taken>>
      /\ pc[t] \in {"pop", "pop_next", "pop_cas"}
      /\ pc'[t] \in {"unlock", "pop_next", "pop_cas"}
      /\ \A u \in Threads \ {t} : pc'[u] = pc[u] /\ seen'[u] = seen[u] /\ after'[u] = after[u]
  BY DEF PopLoad, PopNext, PopCas, CompareExchange, PopTest, Goto, Keep, TypeOK
<1>1. Queued' = Queued /\ NodeReady' /\ Stack'
  BY <1>0, QueueSame
<1>2. pc'[t] = "pop_next" => seen'[t].ptr \in Queued
  <2>1. CASE PopNext(t)
    BY <2>1 DEF PopNext, Goto, TypeOK
  <2>2. CASE PopLoad(t) \/ (PopCas(t) /\ head # seen[t])
    <3>1. pc'[t] = PopTest(head) /\ (pc'[t] = "pop_next" => seen'[t] = head)
      BY <2>2 DEF PopLoad, PopCas, CompareExchange, Goto, Keep, InScope, PopTest, TypeOK
    <3> QED
      BY <3>1, <1>h, <1>0 DEF PopTest, Holding
  <2> QED
    BY <2>1, <2>2
<1>3. pc'[t] = "pop_cas" => seen'[t].ptr \in Queued /\ after'[t] = next[seen'[t].ptr]
  <2> SUFFICES ASSUME pc'[t] = "pop_cas"
               PROVE  seen'[t].ptr \in Queued /\ after'[t] = next[seen'[t].ptr]
    OBVIOUS
  <2>1. PopNext(t)
    BY DEF PopLoad, PopCas, CompareExchange, PopTest, Goto, TypeOK
  <2> QED
    BY <2>1 DEF PopNext, QueueInv, PopReadsLiveNode, TypeOK
<1>4. PopReadsLiveNode'
  BY <1>0, <1>1, <1>2, <1>3 DEF QueueInv, PopReadsLiveNode
<1>5. WakeTargetParked'
  BY <1>0 DEF QueueInv, WakeTargetParked
<1> QED
  BY <1>1, <1>4, <1>5 DEF QueueInv

\* The exchange of pop() takes exactly the top off, and its next is the new top.
LEMMA QueuePop ==
  ASSUME TypeOK, Excl, QueueInv, NEW t \in Threads, PopCas(t), head = seen[t]
  PROVE  QueueInv'
<1> DEFINE top == seen[t].ptr
<1>0. /\ pc[t] = "pop_cas" /\ pc'[t] = "release"
      /\ head'.ptr = after[t]
      /\ waker' = [waker EXCEPT ![top] = FALSE]
      /\ taken' = [taken EXCEPT ![t] = top]
      /\ UNCHANGED <<next, flag>>
      /\ \A u \in Threads \ {t} : pc'[u] = pc[u]
  BY DEF PopCas, CompareExchange, Goto, TypeOK
<1>1. /\ top \in Threads /\ pc[top] = "park" /\ waker[top] /\ ~flag[top]
      /\ top \in Queued /\ after[t] = next[top] /\ top # t
  BY <1>0 DEF QueueInv, PopReadsLiveNode, NodeReady, Queued
<1> HIDE DEF top
<1>2. Queued' = Queued \ {top}
  BY <1>0, <1>1 DEF Queued, TypeOK
<1>3. NodeReady'
  BY <1>0, <1>1, <1>2 DEF QueueInv, NodeReady, TypeOK
<1>4. Stack'
  BY <1>0, <1>1, <1>2, StackPop DEF QueueInv, top
<1>5. PopReadsLiveNode'
  <2>1. \A u \in Threads : pc'[u] \notin {"pop_next", "pop_cas"}
    BY <1>0 DEF Excl, MutualExclusion, Holding
  <2> QED
    BY <2>1 DEF PopReadsLiveNode
<1>6. WakeTargetParked'
  <2>1. \A v \in Threads \ {t} : pc[v] \in {"release", "wake"} =>
          /\ taken[v] \in Threads /\ pc[taken[v]] = "park"
          /\ ~waker[taken[v]] /\ ~flag[taken[v]] /\ taken[v] # top
    BY <1>1 DEF QueueInv, WakeTargetParked
  <2>2. taken'[t] = top /\ \A v \in Threads \ {t} : taken'[v] = taken[v]
    BY <1>0 DEF TypeOK
  <2>3. ~waker'[top] /\ \A u \in Threads : ~waker[u] => ~waker'[u]
    BY <1>0, <1>1 DEF TypeOK
  <2>4. \A u \in Threads : pc[u] = "park" => pc'[u] = "park"
    BY <1>0
  <2>5. ASSUME NEW v \in Threads, pc'[v] \in {"release", "wake"}
        PROVE  /\ taken'[v] \in Threads /\ pc'[taken'[v]] = "park"
               /\ ~waker'[taken'[v]] /\ ~flag'[taken'[v]]
    BY <2>1, <2>2, <2>3, <2>4, <2>5, <1>0, <1>1
  <2>6. ASSUME NEW v \in Threads, NEW w \in Threads \ {v},
               pc'[v] \in {"release", "wake"}, pc'[w] \in {"release", "wake"}
        PROVE  taken'[w] # taken'[v]
    BY <2>1, <2>2, <2>6, <1>0 DEF QueueInv, WakeTargetParked
  <2> QED
    BY <2>5, <2>6 DEF WakeTargetParked
<1> QED
  BY <1>3, <1>4, <1>5, <1>6 DEF QueueInv

\* unlock() gives the lock back and then wakes the thread it popped.
LEMMA QueueWake ==
  ASSUME TypeOK, QueueInv, NEW t \in Threads, Release(t) \/ Wake(t)
  PROVE  QueueInv'
<1>1. CASE Release(t)
  <2>1. /\ UNCHANGED <<next, waker, flag, seen, after, taken>>
        /\ head'.ptr = head.ptr /\ pc[t] = "release" /\ pc'[t] = "wake"
        /\ \A u \in Threads \ {t} : pc'[u] = pc[u]
    BY <1>1 DEF Release, GetPtr, Goto, TypeOK
  <2>2. Queued' = Queued /\ NodeReady' /\ Stack'
    BY <2>1, QueueSame
  <2>3. PopReadsLiveNode'
    BY <2>1, <2>2 DEF QueueInv, PopReadsLiveNode
  <2>4. WakeTargetParked'
    BY <2>1 DEF QueueInv, WakeTargetParked
  <2> QED
    BY <2>2, <2>3, <2>4 DEF QueueInv
<1>2. CASE Wake(t)
  <2> DEFINE u == taken[t]
  <2>1. /\ UNCHANGED <<head, next, waker, seen, after>>
        /\ flag' = [flag EXCEPT ![u] = TRUE]
        /\ pc[t] = "wake" /\ pc'[t] = "idle"
        /\ \A v \in Threads \ {t} : pc'[v] = pc[v] /\ taken'[v] = taken[v]
    BY <1>2 DEF Wake, Goto, TypeOK
  <2>2. /\ u \in Threads /\ pc[u] = "park" /\ ~waker[u]
        /\ \A v \in Threads \ {t} : pc[v] \in {"release", "wake"} => taken[v] # u
    BY <2>1 DEF QueueInv, WakeTargetParked
  <2> HIDE DEF u
  <2>3. \A v \in Threads : v # u => flag'[v] = flag[v]
    BY <2>1 DEF TypeOK
  <2>4. Queued' = Queued /\ NodeReady' /\ Stack'
    BY <2>1, <2>2, <2>3, QueueSame
  <2>5. PopReadsLiveNode'
    BY <2>1, <2>4 DEF QueueInv, PopReadsLiveNode
  <2>6. WakeTargetParked'
    <3>1. \A v \in Threads : pc'[v] \in {"release", "wake"} =>
            v # t /\ pc[v] = pc'[v] /\ taken'[v] = taken[v] /\ taken[v] # u
      BY <2>1, <2>2
    <3>2. \A v \in Threads : pc[v] = "park" => pc'[v] = "park"
      BY <2>1
    <3> QED
      BY <3>1, <3>2, <2>1, <2>3 DEF QueueInv, WakeTargetParked
  <2> QED
    BY <2>4, <2>5, <2>6 DEF QueueInv
<1> QED
  BY <1>1, <1>2

\* Every step preserves the shape of the queue.
LEMMA QueueStep == TypeOK /\ Excl /\ QueueInv /\ [Next]_vars => QueueInv'
<1> SUFFICES ASSUME TypeOK, Excl, QueueInv, [Next]_vars PROVE QueueInv'
  OBVIOUS
<1>1. CASE UNCHANGED vars
  BY <1>1 DEF vars, QueueInv, NodeReady, Queued, Stack, IsStack,
              PopReadsLiveNode, WakeTargetParked
<1>2. ASSUME NEW t \in Threads, Call(t) \/ Step(t) PROVE QueueInv'
  BY <1>2, QueueQuietStep, QueuePush, QueueLeave, QueueRead, QueuePop, QueueWake
     DEF Call, Step
<1> QED
  BY <1>1, <1>2 DEF Next
-----------------------------------------------------------------------------
\* A thread that will try for the lock without being woken by anybody else,
\* or that is about to wake one that will.
Awake(t) ==
  \/ pc[t] \in {"lock", "spin", "push", "wake"}
  \/ pc[t] = "park" /\ flag[t]

\* A step that changes neither the queue nor the LOCKED bit, of a thread that
\* is not among those NoLostWakeup relies on.
LEMMA AwakeFrame ==
  ASSUME NoLostWakeup, NEW t \in Threads, ~Awake(t),
         head'.locked = head.locked, UNCHANGED <<waker, flag>>,
         pc'[t] # "park", \A u \in Threads \ {t} : pc'[u] = pc[u]
  PROVE  NoLostWakeup'
<1>1. Queued' \subseteq Queued
  BY DEF Queued
<1>2. \A u \in Threads : Awake(u) => Awake(u)'
  BY DEF Awake
<1> QED
  BY <1>1, <1>2 DEF NoLostWakeup, Awake

\* Every step preserves NoLostWakeup.
LEMMA WakeupStep ==
  TypeOK /\ Excl /\ QueueInv /\ NoLostWakeup /\ [Next]_vars => NoLostWakeup'
<1> SUFFICES ASSUME TypeOK, Excl, QueueInv, NoLostWakeup, [Next]_vars
             PROVE  NoLostWakeup'
  OBVIOUS
<1>a. (\E u \in Threads : Awake(u)') \/ head'.locked \/ Queued' = {} => NoLostWakeup'
  BY DEF NoLostWakeup, Awake
<1>1. ASSUME NEW t \in Threads,
             CallLock(t) \/ MakeNode(t) \/ Park(t) \/ Release(t)
      PROVE  NoLostWakeup'
  <2>1. pc'[t] \in {"lock", "push", "wake"}
    BY <1>1 DEF CallLock, MakeNode, Park, Release, Goto, TypeOK
  <2> QED
    BY <2>1, <1>a DEF Awake
<1>2. ASSUME NEW t \in Threads,
             LockFast(t) \/ Spin(t) \/ PushNode(t) \/ LockInstead(t)
      PROVE  NoLostWakeup'
  <2>1. pc'[t] \in {"spin", "push"} \/ head'.locked
    BY <1>2 DEF LockFast, Spin, PushNode, LockInstead, CompareExchange, Goto,
                TypeOK, LockedBit, SetFlag
  <2> QED
    BY <2>1, <1>a DEF Awake
<1>3. ASSUME NEW t \in Threads, TryLock(t) \/ PopCas(t), head # seen[t]
      PROVE  NoLostWakeup'
  <2>1. /\ pc[t] \in {"try", "pop_cas"} /\ pc'[t] # "park"
        /\ \A u \in Threads \ {t} : pc'[u] = pc[u]
        /\ UNCHANGED <<head, waker, flag>>
    BY <1>3 DEF TryLock, PopCas, PopTest, CompareExchange, Goto, TypeOK
  <2> QED
    BY <2>1, AwakeFrame DEF Awake
<1>4. ASSUME NEW t \in Threads, TryLock(t) \/ PopCas(t), head = seen[t]
      PROVE  NoLostWakeup'
  <2>1. head'.locked
    BY <1>4 DEF TryLock, PopCas, CompareExchange, SetFlag
  <2> QED
    BY <2>1, <1>a
<1>5. ASSUME NEW t \in Threads,
             CallTryLock(t) \/ CallUnlock(t) \/ PopLoad(t) \/ PopNext(t)
      PROVE  NoLostWakeup'
  <2>1. /\ pc[t] \in {"idle", "own", "pop", "pop_next"} /\ pc'[t] # "park"
        /\ \A u \in Threads \ {t} : pc'[u] = pc[u]
        /\ UNCHANGED <<head, waker, flag>>
    BY <1>5 DEF CallTryLock, CallUnlock, PopLoad, PopNext, PopTest, Goto, TypeOK
  <2> QED
    BY <2>1, AwakeFrame DEF Awake
<1>6. ASSUME NEW t \in Threads, UnlockEmpty(t) PROVE NoLostWakeup'
  <2>1. /\ pc[t] = "unlock" /\ pc'[t] \in {"idle", "pop"}
        /\ \A u \in Threads \ {t} : pc'[u] = pc[u]
        /\ UNCHANGED <<waker, flag>>
    BY <1>6 DEF UnlockEmpty, CompareExchange, Goto, TypeOK
  <2>2. CASE head = LockedBit
    <3>1. Queued = {}
      BY <2>2, StackTop DEF QueueInv, LockedBit
    <3>2. Queued' = {}
      BY <3>1, <2>1 DEF Queued
    <3> QED
      BY <3>2, <1>a
  <2>3. CASE head # LockedBit
    <3>1. head' = head
      BY <2>3, <1>6 DEF UnlockEmpty, CompareExchange
    <3> QED
      BY <3>1, <2>1, AwakeFrame DEF Awake
  <2> QED
    BY <2>2, <2>3
<1>7. ASSUME NEW t \in Threads, Wake(t) PROVE NoLostWakeup'
  <2>1. taken[t] \in Threads /\ pc[taken[t]] = "park" /\ pc[t] = "wake"
    BY <1>7 DEF Wake, QueueInv, WakeTargetParked
  <2>2. pc'[taken[t]] = "park" /\ flag'[taken[t]]
    BY <2>1, <1>7 DEF Wake, Goto, TypeOK
  <2> QED
    BY <2>1, <2>2, <1>a DEF Awake
<1>8. CASE UNCHANGED vars
  BY <1>8 DEF vars, NoLostWakeup, Queued
<1> QED
  BY <1>1, <1>2, <1>3, <1>4, <1>5, <1>6, <1>7, <1>8 DEF Next, Call, Step
-----------------------------------------------------------------------------
\* The inductive invariant.
IInv ==
  /\ TypeOK
  /\ PopSafe
  /\ Excl
  /\ QueueInv
  /\ NoLostWakeup

\* It holds at first.
LEMMA IInvInit == Init => IInv
<1> SUFFICES ASSUME Init PROVE IInv
  OBVIOUS
<1>1. TypeOK
  BY WordOps DEF Init, TypeOK, Locations, MiniLockAssumption
<1>2. PopSafe /\ Excl /\ NoLostWakeup /\ Queued = {}
  BY DEF Init, PopSafe, Excl, LockedIffHeld, MutualExclusion, NoLostWakeup,
         Queued, Holding, Unlocked
<1>3. NodeReady /\ PopReadsLiveNode /\ WakeTargetParked
  BY <1>2 DEF Init, NodeReady, PopReadsLiveNode, WakeTargetParked
<1>4. Stack
  <2> DEFINE s == [i \in 1..0 |-> CHOOSE t \in Threads : TRUE]
  <2>1. s \in [1..0 -> Threads] /\ {s[i] : i \in 1..0} = {}
    OBVIOUS
  <2>2. IsStack(s, 0)
    BY <1>2, <2>1 DEF IsStack, Init, Unlocked
  <2> QED
    BY <2>1, <2>2 DEF Stack
<1> QED
  BY <1>1, <1>2, <1>3, <1>4 DEF IInv, QueueInv

\* Every step preserves it.
LEMMA IInvStep == IInv /\ [Next]_vars => IInv'
BY TypeStep, PopSafeStep, ExclStep, QueueStep, WakeupStep DEF IInv

\* The invariant of RawMiniLock.
THEOREM MiniLockInvariant == Spec => []IInv
BY IInvInit, IInvStep, PTL DEF Spec

\* Every variable keeps its type: in particular SpinWait stays in its bound.
THEOREM MiniLockTypeCorrect == Spec => []TypeOK
<1>1. IInv => TypeOK
  BY DEF IInv
<1> QED
  BY <1>1, MiniLockInvariant, PTL

\* Two threads never hold the lock at once, and the LOCKED bit is set exactly
\* while one does.
THEOREM MiniLockExclusion == Spec => [](MutualExclusion /\ LockedIffHeld)
<1>1. IInv => MutualExclusion /\ LockedIffHeld
  BY DEF IInv, Excl
<1> QED
  BY <1>1, MiniLockInvariant, PTL

\* The stack of waiters is a chain of exactly the queued nodes.
THEOREM MiniLockStack == Spec => []StackIntact
<1>1. IInv => StackIntact
  BY StackBound DEF IInv, QueueInv
<1> QED
  BY <1>1, MiniLockInvariant, PTL

\* pop() follows live nodes of the stack only, and a next that is still right.
THEOREM MiniLockPop == Spec => []PopReadsLiveNode
<1>1. IInv => PopReadsLiveNode
  BY DEF IInv, QueueInv
<1> QED
  BY <1>1, MiniLockInvariant, PTL

\* wake() writes to a Parker that is alive and whose thread sleeps.
THEOREM MiniLockWakeTarget == Spec => []WakeTargetParked
<1>1. IInv => WakeTargetParked
  BY DEF IInv, QueueInv
<1> QED
  BY <1>1, MiniLockInvariant, PTL

\* No thread is left asleep beside a free lock.
THEOREM MiniLockNoLostWakeup == Spec => []NoLostWakeup
<1>1. IInv => NoLostWakeup
  BY DEF IInv
<1> QED
  BY <1>1, MiniLockInvariant, PTL
-----------------------------------------------------------------------------
(* The refinement of AbstractLock.                                         *)

WantOf(l) ==
  IF l \in Waiting THEN "lock" ELSE IF l = "try" THEN "try" ELSE "none"

\* The owner of the abstract lock is the thread that holds this one.
LEMMA OwnerIs ==
  ASSUME MutualExclusion
  PROVE  /\ \A t \in Threads : pc[t] \in Holding => Owner = t
         /\ (\A t \in Threads : pc[t] \notin Holding) => Owner = Null
BY DEF MutualExclusion, Owner

\* The same after the step.
LEMMA OwnerIsNext ==
  ASSUME MutualExclusion'
  PROVE  /\ \A t \in Threads : pc'[t] \in Holding => Owner' = t
         /\ (\A t \in Threads : pc'[t] \notin Holding) => Owner' = Null
BY DEF MutualExclusion, Owner

\* What a step of t, and of t alone, is in the abstract lock.
LEMMA MappedStep ==
  ASSUME TypeOK, Excl, Excl', TypeOK', NEW t \in Threads,
         \A u \in Threads \ {t} : pc'[u] = pc[u]
  PROVE  /\ Want' = [Want EXCEPT ![t] = WantOf(pc'[t])]
         /\ Want[t] = WantOf(pc[t])
         /\ (pc'[t] \in Holding <=> pc[t] \in Holding) => Owner' = Owner
         /\ pc[t] \notin Holding /\ pc'[t] \in Holding /\ ~head.locked =>
              Owner = Null /\ Owner' = t
         /\ pc[t] \in Holding /\ pc'[t] \notin Holding => Owner = t /\ Owner' = Null
         /\ pc[t] \notin Holding => Owner # t
         /\ head.locked => Owner # Null
<1>1. Want' = [Want EXCEPT ![t] = WantOf(pc'[t])] /\ Want[t] = WantOf(pc[t])
  BY DEF Want, WantOf
<1>2. /\ MutualExclusion /\ LockedIffHeld
      /\ MutualExclusion' /\ LockedIffHeld'
  BY DEF Excl
<1>3. (pc'[t] \in Holding <=> pc[t] \in Holding) => Owner' = Owner
  <2> SUFFICES ASSUME \A u \in Threads : pc'[u] \in Holding <=> pc[u] \in Holding
               PROVE  Owner' = Owner
    OBVIOUS
  <2>1. CASE \E u \in Threads : pc[u] \in Holding
    BY <2>1, <1>2, OwnerIs, OwnerIsNext
  <2>2. CASE \A u \in Threads : pc[u] \notin Holding
    BY <2>2, <1>2, OwnerIs, OwnerIsNext
  <2> QED
    BY <2>1, <2>2
<1>4. \A u \in Threads : pc[u] \in Holding => Owner = u /\ u # Null
  BY <1>2, OwnerIs DEF MiniLockAssumption
<1>5. pc[t] \notin Holding /\ pc'[t] \in Holding /\ ~head.locked =>
        Owner = Null /\ Owner' = t
  BY <1>2, OwnerIs, OwnerIsNext DEF LockedIffHeld
<1>6. pc[t] \in Holding /\ pc'[t] \notin Holding => Owner = t /\ Owner' = Null
  BY <1>2, OwnerIs, OwnerIsNext DEF MutualExclusion
<1>7. pc[t] \notin Holding => Owner # t
  BY <1>2, <1>4, OwnerIs DEF MiniLockAssumption
<1>8. head.locked => Owner # Null
  BY <1>2, <1>4 DEF LockedIffHeld
<1> QED
  BY <1>1, <1>3, <1>5, <1>6, <1>7, <1>8

\* A step that leaves the owner and the wishes alone stutters.
LEMMA MappedSilent ==
  ASSUME TypeOK, Excl, Excl', TypeOK', NEW t \in Threads,
         \A u \in Threads \ {t} : pc'[u] = pc[u],
         pc'[t] \in Holding <=> pc[t] \in Holding,
         WantOf(pc'[t]) = WantOf(pc[t])
  PROVE  UNCHANGED <<Owner, Want>>
<1>1. /\ Want' = [Want EXCEPT ![t] = Want[t]]
      /\ Owner' = Owner
  BY MappedStep
<1>2. Want' = Want
  BY <1>1 DEF Want
<1> QED
  BY <1>1, <1>2

\* Winning the LOCKED bit is the Grant of the abstract lock.
LEMMA MappedGrant ==
  ASSUME TypeOK, Excl, Excl', TypeOK', NEW t \in Threads,
         \A u \in Threads \ {t} : pc'[u] = pc[u],
         pc[t] \in {"lock", "spin", "push", "try"}, pc'[t] = "own", ~head.locked
  PROVE  Lock!Grant(t)
<1>1. /\ pc[t] \notin Holding /\ pc'[t] \in Holding
      /\ WantOf(pc[t]) # "none" /\ WantOf(pc'[t]) = "none"
  BY DEF Holding, WantOf, Waiting
<1>2. /\ Owner = Null /\ Owner' = t
      /\ Want[t] # "none" /\ Want' = [Want EXCEPT ![t] = "none"]
  BY <1>1, MappedStep
<1> QED
  BY <1>2 DEF Lock!Grant

\* Every step is a step of the abstract lock or a stutter.
LEMMA RefinementStep ==
  IInv /\ IInv' /\ [Next]_vars => [Lock!AbsNext]_(Lock!absVars)
<1> SUFFICES ASSUME IInv, IInv', [Next]_vars
             PROVE  Lock!AbsNext \/ UNCHANGED <<Owner, Want>>
  BY DEF Lock!absVars
<1>i. TypeOK /\ TypeOK' /\ Excl /\ Excl'
  BY DEF IInv
<1>l. \A t \in Threads : Lock!Grant(t) => Lock!AbsNext
  BY DEF Lock!AbsNext
<1>1. ASSUME NEW t \in Threads, Call(t) PROVE Lock!AbsNext
  <2>1. /\ pc[t] = "idle" /\ pc'[t] \in {"lock", "try"}
        /\ \A u \in Threads \ {t} : pc'[u] = pc[u]
    BY <1>1, <1>i DEF Call, CallLock, CallTryLock, Goto, TypeOK
  <2>2. /\ pc[t] \notin Holding /\ pc'[t] \notin Holding /\ WantOf(pc[t]) = "none"
        /\ WantOf(pc'[t]) \in {"lock", "try"}
    BY <2>1 DEF Holding, WantOf, Waiting
  <2>3. /\ Want[t] = "none" /\ Owner # t /\ Owner' = Owner
        /\ Want' = [Want EXCEPT ![t] = WantOf(pc'[t])]
    BY <2>1, <2>2, <1>i, MappedStep
  <2>4. Lock!Request(t)
    BY <2>2, <2>3 DEF Lock!Request, Lock!Requests
  <2> QED
    BY <2>4 DEF Lock!AbsNext
<1>2. ASSUME NEW t \in Threads,
             MakeNode(t) \/ PushNode(t) \/ Park(t) \/ CallUnlock(t) \/ PopLoad(t)
               \/ PopNext(t) \/ PopCas(t) \/ Wake(t)
      PROVE  UNCHANGED <<Owner, Want>>
  <2>1. \/ pc[t] \in Waiting /\ pc'[t] \in Waiting
        \/ pc[t] \in Holding /\ pc'[t] \in Holding
        \/ pc[t] = "wake" /\ pc'[t] = "idle"
    BY <1>2, <1>i DEF MakeNode, PushNode, Park, CallUnlock, PopLoad, PopNext, PopCas,
         Wake, CompareExchange, PopTest, Goto, TypeOK, Waiting, Holding
  <2>2. \A u \in Threads \ {t} : pc'[u] = pc[u]
    BY <1>2, <1>i DEF MakeNode, PushNode, Park, CallUnlock, PopLoad, PopNext, PopCas,
         Wake, CompareExchange, Goto, TypeOK
  <2>3. /\ pc'[t] \in Holding <=> pc[t] \in Holding
        /\ WantOf(pc'[t]) = WantOf(pc[t])
    BY <2>1 DEF WantOf, Waiting, Holding
  <2> QED
    BY <2>2, <2>3, <1>i, MappedSilent
<1>3. ASSUME NEW t \in Threads, LockFast(t) \/ Spin(t) \/ LockInstead(t)
      PROVE  Lock!AbsNext \/ UNCHANGED <<Owner, Want>>
  <2>1. /\ pc[t] \in {"lock", "spin", "push"}
        /\ \A u \in Threads \ {t} : pc'[u] = pc[u]
        /\ pc'[t] \in {"spin", "push"} \/ (pc'[t] = "own" /\ ~head.locked)
    BY <1>3, <1>i DEF LockFast, Spin, LockInstead, CompareExchange, Goto, TypeOK,
         Unlocked, GetPtr
  <2>2. CASE pc'[t] \in {"spin", "push"}
    <3>1. /\ pc'[t] \in Holding <=> pc[t] \in Holding
          /\ WantOf(pc'[t]) = WantOf(pc[t])
      BY <2>1, <2>2 DEF WantOf, Waiting, Holding
    <3> QED
      BY <3>1, <2>1, <1>i, MappedSilent
  <2>3. CASE pc'[t] = "own" /\ ~head.locked
    BY <2>1, <2>3, <1>i, <1>l, MappedGrant
  <2> QED
    BY <2>1, <2>2, <2>3
<1>4. ASSUME NEW t \in Threads, TryLock(t)
      PROVE  Lock!AbsNext \/ UNCHANGED <<Owner, Want>>
  <2>1. /\ pc[t] = "try"
        /\ \A u \in Threads \ {t} : pc'[u] = pc[u]
        /\ \/ pc'[t] = "own" /\ ~head.locked
           \/ pc'[t] = "idle" /\ head.locked
           \/ pc'[t] = "try"
    BY <1>4, <1>i DEF TryLock, CompareExchange, Goto, TypeOK, GetPtr
  <2>2. CASE pc'[t] = "own" /\ ~head.locked
    BY <2>1, <2>2, <1>i, <1>l, MappedGrant
  <2>3. CASE pc'[t] = "idle" /\ head.locked
    <3>1. /\ WantOf(pc[t]) = "try" /\ WantOf(pc'[t]) = "none"
          /\ pc[t] \notin Holding /\ pc'[t] \notin Holding
      BY <2>1, <2>3 DEF WantOf, Waiting, Holding
    <3>2. /\ Want[t] = "try" /\ Owner # Null /\ Owner' = Owner
          /\ Want' = [Want EXCEPT ![t] = "none"]
      BY <3>1, <2>1, <2>3, <1>i, MappedStep
    <3>3. Lock!Refuse(t)
      BY <3>2 DEF Lock!Refuse
    <3> QED
      BY <3>3 DEF Lock!AbsNext
  <2>4. CASE pc'[t] = "try"
    BY <2>1, <2>4, <1>i, MappedSilent
  <2> QED
    BY <2>1, <2>2, <2>3, <2>4
<1>5. ASSUME NEW t \in Threads, UnlockEmpty(t) \/ Release(t)
      PROVE  Lock!AbsNext \/ UNCHANGED <<Owner, Want>>
  <2>1. /\ pc[t] \in {"unlock", "release"}
        /\ \A u \in Threads \ {t} : pc'[u] = pc[u]
        /\ pc'[t] \in {"idle", "wake", "pop"}
    BY <1>5, <1>i DEF UnlockEmpty, Release, CompareExchange, Goto, TypeOK
  <2>2. /\ WantOf(pc[t]) = "none" /\ WantOf(pc'[t]) = "none"
        /\ pc[t] \in Holding
        /\ pc'[t] \in Holding <=> pc'[t] = "pop"
    BY <2>1 DEF WantOf, Waiting, Holding
  <2>3. CASE pc'[t] = "pop"
    BY <2>1, <2>2, <2>3, <1>i, MappedSilent
  <2>4. CASE pc'[t] # "pop"
    <3>1. /\ Owner = t /\ Owner' = Null /\ Want[t] = "none"
          /\ Want' = [Want EXCEPT ![t] = "none"]
      BY <2>1, <2>2, <2>4, <1>i, MappedStep
    <3>2. Want' = Want
      BY <3>1 DEF Want
    <3>3. Lock!Yield(t)
      BY <3>1, <3>2 DEF Lock!Yield
    <3> QED
      BY <3>3 DEF Lock!AbsNext
  <2> QED
    BY <2>3, <2>4
<1>6. CASE UNCHANGED vars
  BY <1>6 DEF vars, Owner, Want
<1> QED
  BY <1>1, <1>2, <1>3, <1>4, <1>5, <1>6 DEF Next, Step

\* RawMiniLock implements the safety of AbstractLock: the lock is granted only
\* when nobody owns it, and try_lock fails only while somebody does.
THEOREM MiniLockRefinement == Spec => Lock!AbsSpec
<1>1. Init => Lock!AbsInit
  BY DEF Init, Lock!AbsInit, Owner, Want, Waiting, Holding
<1> QED
  BY <1>1, RefinementStep, MiniLockInvariant, PTL DEF Spec, Lock!AbsSpec
-----------------------------------------------------------------------------
(* Parkers are used as AbstractPark asks, and Parking implements.          *)

Phase ==
  [t \in Threads |-> IF pc[t] # "park" THEN "running"
                     ELSE IF flag[t] THEN "woken" ELSE "asleep"]

Parkers == INSTANCE AbstractPark WITH Sleepers <- Threads, phase <- Phase

\* A step of a thread that neither goes to sleep nor comes back.
LEMMA PhaseFrame ==
  ASSUME NEW t \in Threads,
         \A u \in Threads \ {t} : pc'[u] = pc[u] /\ flag'[u] = flag[u],
         pc[t] # "park", pc'[t] # "park"
  PROVE  UNCHANGED Phase
BY DEF Phase

\* The one Waker of each Parker is used once at most, while its thread is in
\* park(), although it is used after the lock has been given back: so RawMiniLock
\* relies on nothing of Parker and Waker but what Parking is shown to keep.
THEOREM MiniLockUsesParkers == Spec => Parkers!AbsSpec
<1>1. Init => Parkers!AbsInit
  BY DEF Init, Parkers!AbsInit, Phase
<1>2. IInv /\ [Next]_vars => [Parkers!AbsNext]_Phase
  <2> SUFFICES ASSUME IInv, [Next]_vars PROVE Parkers!AbsNext \/ UNCHANGED Phase
    OBVIOUS
  <2>v. TypeOK /\ NodeReady /\ WakeTargetParked
    BY DEF IInv, QueueInv
  <2> USE <2>v DEF TypeOK, Goto
  <2>1. ASSUME NEW t \in Threads,
               CallLock(t) \/ CallTryLock(t) \/ LockFast(t) \/ Spin(t) \/ MakeNode(t)
                 \/ LockInstead(t) \/ TryLock(t)
        PROVE  UNCHANGED Phase
    <3>1. /\ \A u \in Threads \ {t} : pc'[u] = pc[u] /\ flag'[u] = flag[u]
          /\ pc[t] # "park" /\ pc'[t] # "park"
      BY <2>1 DEF CallLock, CallTryLock, LockFast, Spin, MakeNode, LockInstead, TryLock,
           CompareExchange, DropNode
    <3> QED
      BY <3>1, PhaseFrame
  <2>2. ASSUME NEW t \in Threads,
               CallUnlock(t) \/ UnlockEmpty(t) \/ PopLoad(t) \/ PopNext(t) \/ PopCas(t)
                 \/ Release(t)
        PROVE  UNCHANGED Phase
    <3>1. /\ \A u \in Threads \ {t} : pc'[u] = pc[u] /\ flag'[u] = flag[u]
          /\ pc[t] # "park" /\ pc'[t] # "park"
      BY <2>2 DEF CallUnlock, UnlockEmpty, PopLoad, PopNext, PopCas, PopTest, Release,
           CompareExchange
    <3> QED
      BY <3>1, PhaseFrame
  <2>3. ASSUME NEW t \in Threads, PushNode(t) PROVE Parkers!AbsNext \/ UNCHANGED Phase
    <3>1. /\ \A u \in Threads \ {t} : pc'[u] = pc[u]
          /\ UNCHANGED flag /\ pc[t] = "push" /\ ~flag[t] /\ pc'[t] \in {"park", "push"}
      BY <2>3 DEF PushNode, CompareExchange, NodeReady
    <3>2. CASE pc'[t] = "push"
      BY <3>1, <3>2, PhaseFrame
    <3>3. CASE pc'[t] = "park"
      <4>1. Parkers!Sleep(t)
        BY <3>1, <3>3 DEF Phase, Parkers!Sleep
      <4> QED
        BY <4>1 DEF Parkers!AbsNext
    <3> QED
      BY <3>1, <3>2, <3>3
  <2>4. ASSUME NEW t \in Threads, Park(t) PROVE Parkers!AbsNext
    <3>1. Parkers!Return(t)
      BY <2>4 DEF Park, DropNode, Phase, Parkers!Return
    <3> QED
      BY <3>1 DEF Parkers!AbsNext
  <2>5. ASSUME NEW t \in Threads, Wake(t) PROVE Parkers!AbsNext
    <3>1. /\ taken[t] \in Threads /\ pc[taken[t]] = "park" /\ ~flag[taken[t]]
          /\ pc[t] = "wake" /\ taken[t] # t
      BY <2>5 DEF Wake, WakeTargetParked
    <3>2. Parkers!Rouse(taken[t])
      BY <2>5, <3>1 DEF Wake, Phase, Parkers!Rouse
    <3> QED
      BY <3>1, <3>2 DEF Parkers!AbsNext
  <2>6. CASE UNCHANGED vars
    BY <2>6 DEF vars, Phase
  <2> QED
    BY <2>1, <2>2, <2>3, <2>4, <2>5, <2>6 DEF Next, Call, Step
<1> QED
  BY <1>1, <1>2, MiniLockInvariant, PTL DEF Spec, Parkers!AbsSpec
-----------------------------------------------------------------------------
(* Nobody waits for ever because everybody does.                           *)

\* A parked thread is queued, has been woken, or is about to be: a Waker that
\* pop() has taken is never lost.
Attended ==
  \A t \in Threads : pc[t] = "park" =>
    waker[t] \/ flag[t] \/ \E u \in Threads : pc[u] \in {"release", "wake"} /\ taken[u] = t

LEMMA AttendedFrame ==
  ASSUME Attended, NEW t \in Threads, pc[t] \notin {"park", "release", "wake"},
         pc'[t] # "park",
         \A u \in Threads \ {t} :
           pc'[u] = pc[u] /\ waker'[u] = waker[u] /\ flag'[u] = flag[u] /\ taken'[u] = taken[u]
  PROVE  Attended'
BY DEF Attended

LEMMA AttendedStep == IInv /\ Attended /\ [Next]_vars => Attended'
<1> SUFFICES ASSUME IInv, Attended, [Next]_vars PROVE Attended'
  OBVIOUS
<1>v. TypeOK /\ NodeReady /\ PopReadsLiveNode /\ WakeTargetParked
  BY DEF IInv, QueueInv
<1> USE <1>v DEF TypeOK, Goto
<1>1. ASSUME NEW t \in Threads,
             CallLock(t) \/ CallTryLock(t) \/ LockFast(t) \/ Spin(t) \/ MakeNode(t)
               \/ LockInstead(t) \/ TryLock(t)
      PROVE  Attended'
  <2>1. /\ pc[t] \notin {"park", "release", "wake"} /\ pc'[t] # "park"
        /\ \A u \in Threads \ {t} :
             pc'[u] = pc[u] /\ waker'[u] = waker[u] /\ flag'[u] = flag[u] /\ taken'[u] = taken[u]
    BY <1>1 DEF CallLock, CallTryLock, LockFast, Spin, MakeNode, LockInstead, TryLock,
         CompareExchange, DropNode
  <2> QED
    BY <2>1, AttendedFrame
<1>2. ASSUME NEW t \in Threads,
             CallUnlock(t) \/ UnlockEmpty(t) \/ PopLoad(t) \/ PopNext(t)
      PROVE  Attended'
  <2>1. /\ pc[t] \notin {"park", "release", "wake"} /\ pc'[t] # "park"
        /\ \A u \in Threads \ {t} :
             pc'[u] = pc[u] /\ waker'[u] = waker[u] /\ flag'[u] = flag[u] /\ taken'[u] = taken[u]
    BY <1>2 DEF CallUnlock, UnlockEmpty, PopLoad, PopNext, PopTest, CompareExchange
  <2> QED
    BY <2>1, AttendedFrame
<1>3. ASSUME NEW t \in Threads, PushNode(t) PROVE Attended'
  <2>1. /\ \A u \in Threads \ {t} : pc'[u] = pc[u]
        /\ UNCHANGED <<waker, flag, taken>> /\ pc[t] = "push" /\ waker[t]
    BY <1>3 DEF PushNode, CompareExchange, NodeReady
  <2> QED
    BY <2>1 DEF Attended
<1>4. ASSUME NEW t \in Threads, PopCas(t) PROVE Attended'
  <2>1. CASE head = seen[t]
    <3>1. seen[t].ptr \in Threads /\ pc[t] = "pop_cas"
      BY <1>4 DEF PopCas, PopReadsLiveNode, Queued
    <3>2. /\ \A u \in Threads \ {t} : pc'[u] = pc[u] /\ taken'[u] = taken[u]
          /\ \A u \in Threads \ {seen[t].ptr} : waker'[u] = waker[u]
          /\ UNCHANGED flag /\ pc'[t] = "release" /\ taken'[t] = seen[t].ptr
      BY <1>4, <2>1, <3>1 DEF PopCas, CompareExchange
    <3> QED
      BY <3>1, <3>2 DEF Attended
  <2>2. CASE head # seen[t]
    <3>1. /\ pc[t] \notin {"park", "release", "wake"} /\ pc'[t] # "park"
          /\ \A u \in Threads \ {t} : pc'[u] = pc[u]
          /\ UNCHANGED <<waker, flag, taken>>
      BY <1>4, <2>2 DEF PopCas, PopTest, CompareExchange
    <3> QED
      BY <3>1, AttendedFrame
  <2> QED
    BY <2>1, <2>2
<1>5. ASSUME NEW t \in Threads, Release(t) PROVE Attended'
  BY <1>5 DEF Release, Attended
<1>6. ASSUME NEW t \in Threads, Wake(t) PROVE Attended'
  BY <1>6 DEF Wake, Attended, WakeTargetParked
<1>7. ASSUME NEW t \in Threads, Park(t) PROVE Attended'
  BY <1>7 DEF Park, DropNode, Attended
<1>8. CASE UNCHANGED vars
  BY <1>8 DEF vars, Attended
<1> QED
  BY <1>1, <1>2, <1>3, <1>4, <1>5, <1>6, <1>7, <1>8 DEF Next, Call, Step

\* The loop of try_lock() goes round with an unlocked word only.
TryReads == \A t \in Threads : pc[t] = "try" => ~seen[t].locked

LEMMA TryReadsStep == TypeOK /\ TryReads /\ [Next]_vars => TryReads'
<1> SUFFICES ASSUME TypeOK, TryReads, [Next]_vars PROVE TryReads'
  OBVIOUS
<1> USE DEF TypeOK, TryReads, Goto
<1>1. ASSUME NEW t \in Threads,
             CallLock(t) \/ LockFast(t) \/ Spin(t) \/ MakeNode(t) \/ PushNode(t)
               \/ LockInstead(t) \/ Park(t)
      PROVE  TryReads'
  <2>1. /\ \A u \in Threads \ {t} : pc'[u] = pc[u] /\ seen'[u] = seen[u]
        /\ pc'[t] # "try"
    BY <1>1 DEF CallLock, LockFast, Spin, MakeNode, PushNode, LockInstead, Park,
         CompareExchange, Keep
  <2> QED
    BY <2>1
<1>2. ASSUME NEW t \in Threads,
             CallUnlock(t) \/ UnlockEmpty(t) \/ PopLoad(t) \/ PopNext(t) \/ PopCas(t)
               \/ Release(t) \/ Wake(t)
      PROVE  TryReads'
  <2>1. /\ \A u \in Threads \ {t} : pc'[u] = pc[u] /\ seen'[u] = seen[u]
        /\ pc'[t] # "try"
    BY <1>2 DEF CallUnlock, UnlockEmpty, PopLoad, PopNext, PopCas, PopTest, Release, Wake,
         CompareExchange, Keep
  <2> QED
    BY <2>1
<1>3. ASSUME NEW t \in Threads, CallTryLock(t) PROVE TryReads'
  BY <1>3 DEF CallTryLock, Keep, InScope, Unlocked
<1>4. ASSUME NEW t \in Threads, TryLock(t) PROVE TryReads'
  BY <1>4 DEF TryLock, CompareExchange, Keep, InScope
<1>5. CASE UNCHANGED vars
  BY <1>5 DEF vars
<1> QED
  BY <1>1, <1>2, <1>3, <1>4, <1>5 DEF Next, Call, Step

\* A thread whose next step waits for nobody; the owner leaves of his own accord.
Ready(t) ==
  \/ pc[t] \notin {"idle", "park", "try", "spin"}
  \/ pc[t] = "spin" /\ spins[t] \in 0..SpinLimit
  \/ pc[t] = "try" /\ ~seen[t].locked
  \/ pc[t] = "park" /\ flag[t]

\* The threads never all wait for each other.
NeverStuck == (\E t \in Threads : pc[t] # "idle") => \E t \in Threads : Ready(t)

\* As long as a call is under way, somebody's next step waits for nobody: a
\* sleeper has been popped by a thread that will wake him, or is on the stack
\* of a lock that is held or wanted by somebody awake.
THEOREM MiniLockNeverStuck == Spec => []NeverStuck
<1>1. Init => Attended /\ TryReads
  BY DEF Init, Attended, TryReads
<1>2. IInv => TypeOK
  BY DEF IInv
<1>3. IInv /\ Attended /\ TryReads => NeverStuck
  <2> SUFFICES ASSUME IInv, Attended, TryReads, NEW t \in Threads, pc[t] # "idle",
                      \A u \in Threads : ~Ready(u)
               PROVE  FALSE
    BY DEF NeverStuck
  <2>1. TypeOK /\ Excl /\ NoLostWakeup
    BY DEF IInv
  <2>2. \A u \in Threads : pc[u] \in {"idle", "park"} /\ (pc[u] = "park" => ~flag[u])
    BY <2>1 DEF Ready, TypeOK, TryReads, Locations
  <2>3. Queued # {}
    BY <2>2 DEF Attended, Queued
  <2>4. head.locked
    BY <2>2, <2>3 DEF IInv, NoLostWakeup
  <2> QED
    BY <2>1, <2>2, <2>4 DEF Excl, LockedIffHeld, Holding
<1> QED
  BY <1>1, <1>2, <1>3, AttendedStep, TryReadsStep, MiniLockInvariant, PTL DEF Spec
=============================================================================
