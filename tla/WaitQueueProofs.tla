-------------------------- MODULE WaitQueueProofs ---------------------------
(* What pushing, popping and removing do to a list seen as a sequence.     *)
EXTENDS WaitQueues, Naturals, FiniteSets, FiniteSetTheorems, TLAPS

\* q lists the members of U that are in S, each once.
Lists(q, S, U) ==
  /\ q \in Seq(U)
  /\ \A i, j \in 1..Len(q) : q[i] = q[j] => i = j
  /\ \A t \in U : t \in S <=> \E i \in 1..Len(q) : q[i] = t

\* A list that repeats nothing is no longer than its universe.
LEMMA ListsBound ==
  ASSUME NEW U, IsFiniteSet(U), NEW q, NEW S, Lists(q, S, U)
  PROVE  \E n \in 0..Cardinality(U) : q \in [1..n -> U]
<1> DEFINE n == Len(q)
<1>1. q \in [1..n -> U] /\ n \in Nat
  BY DEF Lists
<1> HIDE DEF n
<1>2. q \in Injection(1..n, U)
  BY <1>1 DEF Lists, Injection, IsInjective, n
<1>3. Cardinality(1..n) <= Cardinality(U)
  BY <1>2, FS_Injection
<1>4. Cardinality(1..n) = n
  BY <1>1, FS_Interval
<1>5. Cardinality(U) \in Nat
  BY FS_CardinalityType
<1>6. n \in 0..Cardinality(U)
  BY <1>1, <1>3, <1>4, <1>5
<1> QED
  BY <1>1, <1>6

\* The list is as long as there are members on it.
LEMMA ListsCard ==
  ASSUME NEW U, NEW q, NEW S \in SUBSET U, Lists(q, S, U)
  PROVE  IsFiniteSet(S) /\ Cardinality(S) = Len(q)
<1> DEFINE n == Len(q)
<1>1. n \in Nat /\ q \in [1..n -> U]
  BY DEF Lists
<1>2. /\ \A i \in 1..n : q[i] \in S
      /\ \A t \in S : \E i \in 1..n : q[i] = t
      /\ \A i, j \in 1..n : q[i] = q[j] => i = j
  BY <1>1 DEF Lists
<1> HIDE DEF n
<1>3. q \in Bijection(1..n, S)
  BY <1>1, <1>2 DEF Bijection, Injection, IsInjective, Surjection
<1>4. IsFiniteSet(1..n) /\ Cardinality(1..n) = n
  BY <1>1, FS_Interval
<1> QED
  BY <1>3, <1>4, FS_Bijection DEF ExistsBijection, n

\* push_head.
LEMMA ListsAppend ==
  ASSUME NEW U, NEW q, NEW S, Lists(q, S, U), NEW t \in U, t \notin S
  PROVE  Lists(Append(q, t), S \cup {t}, U)
<1> DEFINE r == Append(q, t)
<1>1. /\ q \in Seq(U) /\ Len(q) \in Nat
      /\ r \in Seq(U) /\ Len(r) = Len(q) + 1
      /\ \A i \in 1..Len(q) : r[i] = q[i] /\ q[i] \in U /\ i \in 1..Len(r)
      /\ r[Len(q) + 1] = t /\ Len(q) + 1 \in 1..Len(r)
      /\ \A i \in 1..Len(r) : i \in 1..Len(q) \/ i = Len(q) + 1
  BY DEF Lists
<1> HIDE DEF r
<1>2. \A i \in 1..Len(q) : q[i] # t
  BY DEF Lists
<1>3. \A i, j \in 1..Len(r) : r[i] = r[j] => i = j
  <2> SUFFICES ASSUME NEW i \in 1..Len(r), NEW j \in 1..Len(r), r[i] = r[j]
               PROVE  i = j
    OBVIOUS
  <2>1. CASE i \in 1..Len(q) /\ j \in 1..Len(q)
    BY <2>1, <1>1 DEF Lists
  <2>2. CASE i = Len(q) + 1 \/ j = Len(q) + 1
    BY <2>2, <1>1, <1>2
  <2> QED
    BY <2>1, <2>2, <1>1
<1>4. ASSUME NEW u \in U
      PROVE  u \in S \cup {t} <=> \E i \in 1..Len(r) : r[i] = u
  <2>1. u \in S <=> \E i \in 1..Len(q) : q[i] = u
    BY DEF Lists
  <2> QED
    BY <2>1, <1>1
<1> QED
  BY <1>1, <1>3, <1>4 DEF Lists, r

\* pop_tail: the oldest node is the first of the sequence.
LEMMA ListsTail ==
  ASSUME NEW U, NEW q, NEW S, Lists(q, S, U), q # <<>>
  PROVE  /\ Head(q) \in U /\ Head(q) \in S
         /\ Lists(Tail(q), S \ {Head(q)}, U)
<1> DEFINE r == Tail(q)
<1>1. /\ q \in Seq(U) /\ Len(q) \in Nat \ {0}
      /\ Head(q) = q[1] /\ 1 \in 1..Len(q) /\ q[1] \in U
      /\ r \in Seq(U) /\ Len(r) = Len(q) - 1
      /\ \A i \in 1..Len(r) : r[i] = q[i + 1] /\ i + 1 \in 1..Len(q)
      /\ \A i \in 1..Len(q) : i = 1 \/ (i - 1 \in 1..Len(r) /\ q[i] = r[i - 1])
  BY DEF Lists
<1> HIDE DEF r
<1>2. q[1] \in S
  BY <1>1 DEF Lists
<1>3. \A i, j \in 1..Len(r) : r[i] = r[j] => i = j
  <2> SUFFICES ASSUME NEW i \in 1..Len(r), NEW j \in 1..Len(r), r[i] = r[j]
               PROVE  i = j
    OBVIOUS
  <2>1. i + 1 = j + 1
    BY <1>1 DEF Lists
  <2> QED
    BY <2>1
<1>4. ASSUME NEW u \in U
      PROVE  u \in S \ {q[1]} <=> \E i \in 1..Len(r) : r[i] = u
  <2>1. u \in S <=> \E i \in 1..Len(q) : q[i] = u
    BY DEF Lists
  <2>2. \A i \in 1..Len(r) : r[i] # q[1]
    <3> SUFFICES ASSUME NEW i \in 1..Len(r) PROVE r[i] # q[1]
      OBVIOUS
    <3>1. r[i] = q[i + 1] /\ i + 1 \in 1..Len(q) /\ i + 1 # 1
      BY <1>1
    <3> QED
      BY <3>1, <1>1 DEF Lists
  <2> QED
    BY <2>1, <2>2, <1>1
<1> QED
  BY <1>1, <1>2, <1>3, <1>4 DEF Lists, r

\* remove_node.
LEMMA ListsUnlink ==
  ASSUME NEW U, NEW q, NEW S, Lists(q, S, U), NEW t \in U, t \in S
  PROVE  Lists(Unlink(q, t), S \ {t}, U)
<1> DEFINE k == CHOOSE i \in DOMAIN q : q[i] = t
           r == [j \in 1..(Len(q) - 1) |-> IF j < k THEN q[j] ELSE q[j + 1]]
<1>1. q \in Seq(U) /\ Len(q) \in Nat /\ DOMAIN q = 1..Len(q)
  BY DEF Lists
<1>2. k \in 1..Len(q) /\ q[k] = t
  BY <1>1 DEF Lists
<1> HIDE DEF k
<1>3. Len(q) - 1 \in Nat
  BY <1>1, <1>2
<1>4. /\ \A j \in 1..(Len(q) - 1) :
           /\ j \in 1..Len(q) /\ j + 1 \in 1..Len(q)
           /\ j < k => r[j] = q[j]
           /\ ~(j < k) => r[j] = q[j + 1]
      /\ r \in [1..(Len(q) - 1) -> U]
  BY <1>1, <1>2
<1>5. r = Unlink(q, t)
  BY DEF Unlink, k
<1> HIDE DEF r
<1>6. r \in Seq(U) /\ Len(r) = Len(q) - 1
  <2> DEFINE n == Len(q) - 1
  <2>1. n \in Nat /\ r \in [1..n -> U]
    BY <1>3, <1>4
  <2> HIDE DEF n
  <2>2. r \in Seq(U) /\ Len(r) = n
    BY <2>1
  <2> QED
    BY <2>2 DEF n
<1>7. \A i, j \in 1..Len(r) : r[i] = r[j] => i = j
  <2> SUFFICES ASSUME NEW i \in 1..Len(r), NEW j \in 1..Len(r), r[i] = r[j]
               PROVE  i = j
    OBVIOUS
  <2> DEFINE at(n) == IF n < k THEN n ELSE n + 1
  <2>1. /\ at(i) \in 1..Len(q) /\ r[i] = q[at(i)]
        /\ at(j) \in 1..Len(q) /\ r[j] = q[at(j)]
    BY <1>4, <1>6
  <2>2. at(i) = at(j)
    BY <2>1 DEF Lists
  <2> QED
    BY <2>2, <1>2, <1>6
<1>8. ASSUME NEW u \in U
      PROVE  u \in S \ {t} <=> \E i \in 1..Len(r) : r[i] = u
  <2>1. u \in S <=> \E i \in 1..Len(q) : q[i] = u
    BY DEF Lists
  <2>2. ASSUME NEW i \in 1..Len(r) PROVE r[i] # t /\ \E j \in 1..Len(q) : q[j] = r[i]
    <3>1. CASE i < k
      BY <3>1, <1>2, <1>4, <1>6 DEF Lists
    <3>2. CASE ~(i < k)
      <4>1. r[i] = q[i + 1] /\ i + 1 \in 1..Len(q) /\ i + 1 # k
        BY <3>2, <1>2, <1>4, <1>6
      <4> QED
        BY <4>1, <1>2 DEF Lists
    <3> QED
      BY <3>1, <3>2
  <2>3. ASSUME NEW j \in 1..Len(q), j # k PROVE \E i \in 1..Len(r) : r[i] = q[j]
    <3>1. CASE j < k
      <4>1. j \in 1..Len(r) /\ r[j] = q[j]
        BY <3>1, <1>2, <1>4, <1>6
      <4> QED
        BY <4>1
    <3>2. CASE ~(j < k)
      <4>1. j - 1 \in 1..Len(r) /\ ~(j - 1 < k) /\ (j - 1) + 1 = j
        BY <3>2, <2>3, <1>1, <1>2, <1>6
      <4>2. r[j - 1] = q[j]
        BY <4>1, <1>4, <1>6
      <4> QED
        BY <4>1, <4>2
    <3> QED
      BY <3>1, <3>2
  <2> QED
    BY <2>1, <2>2, <2>3, <1>2
<1> QED
  BY <1>5, <1>6, <1>7, <1>8 DEF Lists

\* A removal makes the list one shorter.
LEMMA UnlinkLen ==
  ASSUME NEW U, NEW q, NEW S, Lists(q, S, U), NEW t \in U, t \in S
  PROVE  Len(Unlink(q, t)) = Len(q) - 1 /\ Len(q) \in Nat \ {0}
<1> DEFINE k == CHOOSE i \in DOMAIN q : q[i] = t
           n == Len(q) - 1
           r == [j \in 1..n |-> IF j < k THEN q[j] ELSE q[j + 1]]
<1>1. Len(q) \in Nat \ {0} /\ n \in Nat
  BY DEF Lists
<1>2. Unlink(q, t) = r
  BY DEF Unlink
<1> HIDE DEF n, k
<1>3. Len(r) = n
  BY <1>1
<1> QED
  BY <1>1, <1>2, <1>3 DEF n

\* push_head on a list that is seen from the head.
LEMMA ListsPush ==
  ASSUME NEW U, NEW q, NEW S, Lists(q, S, U), NEW t \in U, t \notin S
  PROVE  Lists(<<t>> \o q, S \cup {t}, U)
<1> DEFINE r == <<t>> \o q
<1>1. /\ q \in Seq(U) /\ Len(q) \in Nat
      /\ r \in Seq(U) /\ Len(r) = Len(q) + 1
      /\ r[1] = t /\ 1 \in 1..Len(r)
      /\ \A i \in 1..Len(q) : r[i + 1] = q[i] /\ q[i] \in U /\ i + 1 \in 1..Len(r)
      /\ \A i \in 1..Len(r) : i = 1 \/ (i - 1 \in 1..Len(q) /\ r[i] = q[i - 1])
  BY DEF Lists
<1> HIDE DEF r
<1>2. \A i \in 1..Len(q) : q[i] # t
  BY DEF Lists
<1>3. \A i, j \in 1..Len(r) : r[i] = r[j] => i = j
  <2> SUFFICES ASSUME NEW i \in 1..Len(r), NEW j \in 1..Len(r), r[i] = r[j]
               PROVE  i = j
    OBVIOUS
  <2>1. CASE i # 1 /\ j # 1
    <3>1. /\ i - 1 \in 1..Len(q) /\ r[i] = q[i - 1]
          /\ j - 1 \in 1..Len(q) /\ r[j] = q[j - 1]
      BY <2>1, <1>1
    <3>2. i - 1 = j - 1
      BY <3>1 DEF Lists
    <3> QED
      BY <3>2
  <2>2. CASE i = 1 \/ j = 1
    BY <2>2, <1>1, <1>2
  <2> QED
    BY <2>1, <2>2
<1>4. ASSUME NEW u \in U
      PROVE  u \in S \cup {t} <=> \E i \in 1..Len(r) : r[i] = u
  <2>1. u \in S <=> \E i \in 1..Len(q) : q[i] = u
    BY DEF Lists
  <2> QED
    BY <2>1, <1>1
<1> QED
  BY <1>1, <1>3, <1>4 DEF Lists, r
-----------------------------------------------------------------------------
(* The same list seen from its head, as AbstractList has it.               *)

\* The list the other way round: from the head, where nodes are pushed, to the
\* tail.
Reversed(q) == [i \in 1..Len(q) |-> q[Len(q) + 1 - i]]

LEMMA ReversedType ==
  ASSUME NEW U, NEW q \in Seq(U)
  PROVE  /\ Reversed(q) \in Seq(U) /\ Len(Reversed(q)) = Len(q)
         /\ \A i \in 1..Len(q) : Reversed(q)[i] = q[Len(q) + 1 - i]
<1> DEFINE n == Len(q)
           r == [i \in 1..n |-> q[n + 1 - i]]
<1>1. n \in Nat /\ \A i \in 1..n : q[n + 1 - i] \in U
  OBVIOUS
<1> HIDE DEF n
<1>2. r \in [1..n -> U] /\ r \in Seq(U) /\ Len(r) = n
  BY <1>1
<1>3. r = Reversed(q)
  BY DEF Reversed, n
<1> QED
  BY <1>2, <1>3 DEF n

\* Two lists of the same length with the same nodes are equal.
LEMMA SameList ==
  ASSUME NEW U, NEW p \in Seq(U), NEW q \in Seq(U), Len(p) = Len(q),
         \A i \in 1..Len(p) : p[i] = q[i]
  PROVE  p = q
OBVIOUS

\* What is appended comes first.
LEMMA ReversedAppend ==
  ASSUME NEW U, NEW q \in Seq(U), NEW t \in U
  PROVE  Reversed(Append(q, t)) = <<t>> \o Reversed(q)
<1> DEFINE a == Append(q, t)
           r == <<t>> \o Reversed(q)
<1>1. /\ a \in Seq(U) /\ Len(a) = Len(q) + 1 /\ Len(q) \in Nat
      /\ a[Len(q) + 1] = t /\ \A i \in 1..Len(q) : a[i] = q[i]
  OBVIOUS
<1>2. /\ Reversed(q) \in Seq(U) /\ Len(Reversed(q)) = Len(q)
      /\ \A i \in 1..Len(q) : Reversed(q)[i] = q[Len(q) + 1 - i]
  BY ReversedType
<1>3. /\ Reversed(a) \in Seq(U) /\ Len(Reversed(a)) = Len(a)
      /\ \A i \in 1..Len(a) : Reversed(a)[i] = a[Len(a) + 1 - i]
  BY <1>1, ReversedType
<1>4. /\ r \in Seq(U) /\ Len(r) = Len(q) + 1 /\ r[1] = t
      /\ \A i \in 2..Len(q) + 1 : r[i] = Reversed(q)[i - 1]
  BY <1>1, <1>2
<1> HIDE DEF a, r
<1>5. ASSUME NEW i \in 1..Len(q) + 1 PROVE Reversed(a)[i] = r[i]
  <2>1. CASE i = 1
    BY <2>1, <1>1, <1>3, <1>4
  <2>2. CASE i # 1
    <3>1. /\ i \in 2..Len(q) + 1 /\ i - 1 \in 1..Len(q)
          /\ Len(a) + 1 - i = Len(q) + 1 - (i - 1) /\ Len(a) + 1 - i \in 1..Len(q)
      BY <2>2, <1>1
    <3> QED
      BY <3>1, <1>1, <1>2, <1>3, <1>4
  <2> QED
    BY <2>1, <2>2
<1>6. Reversed(a) = r
  BY <1>1, <1>3, <1>4, <1>5, SameList
<1> QED
  BY <1>6 DEF a, r

\* What is popped from the front was at the end.
LEMMA ReversedTail ==
  ASSUME NEW U, NEW q \in Seq(U), q # <<>>
  PROVE  LET r == Reversed(q) IN
           /\ r # <<>> /\ r[Len(r)] = Head(q)
           /\ Reversed(Tail(q)) = SubSeq(r, 1, Len(r) - 1)
<1> DEFINE r == Reversed(q)
           a == Tail(q)
           s == SubSeq(r, 1, Len(r) - 1)
<1>1. /\ Len(q) \in Nat \ {0} /\ a \in Seq(U) /\ Len(a) = Len(q) - 1
      /\ \A i \in 1..Len(a) : a[i] = q[i + 1]
      /\ Head(q) = q[1]
  OBVIOUS
<1>2. /\ r \in Seq(U) /\ Len(r) = Len(q)
      /\ \A i \in 1..Len(q) : r[i] = q[Len(q) + 1 - i]
  BY ReversedType
<1>3. /\ Reversed(a) \in Seq(U) /\ Len(Reversed(a)) = Len(a)
      /\ \A i \in 1..Len(a) : Reversed(a)[i] = a[Len(a) + 1 - i]
  BY <1>1, ReversedType
<1> HIDE DEF r, a
<1>4. /\ s \in Seq(U) /\ Len(s) = Len(q) - 1
      /\ \A i \in 1..Len(q) - 1 : s[i] = r[i]
  BY <1>1, <1>2
<1> HIDE DEF s
<1>5. ASSUME NEW i \in 1..Len(a) PROVE Reversed(a)[i] = s[i]
  <2>1. /\ Len(a) + 1 - i \in 1..Len(a) /\ i \in 1..Len(q) /\ i \in 1..Len(q) - 1
        /\ (Len(a) + 1 - i) + 1 = Len(q) + 1 - i
    BY <1>1
  <2> QED
    BY <2>1, <1>1, <1>2, <1>3, <1>4
<1>6. Reversed(a) = s
  BY <1>1, <1>3, <1>4, <1>5, SameList
<1>7. r # <<>> /\ r[Len(r)] = Head(q)
  BY <1>1, <1>2
<1> QED
  BY <1>6, <1>7 DEF a, r, s

\* What is removed is removed from its place.
LEMMA ReversedUnlink ==
  ASSUME NEW U, NEW q, NEW S, Lists(q, S, U), NEW t \in U, t \in S
  PROVE  LET r == Reversed(q) IN
           \E i \in DOMAIN r :
             /\ r[i] = t
             /\ Reversed(Unlink(q, t)) =
                  [j \in 1..(Len(r) - 1) |-> IF j < i THEN r[j] ELSE r[j + 1]]
<1> DEFINE r == Reversed(q)
           k == CHOOSE i \in DOMAIN q : q[i] = t
           u == Unlink(q, t)
           n == Len(q) - 1
           i == Len(q) + 1 - k
           s == [j \in 1..n |-> IF j < i THEN r[j] ELSE r[j + 1]]
<1>1. /\ q \in Seq(U) /\ Len(q) \in Nat /\ DOMAIN q = 1..Len(q)
      /\ k \in 1..Len(q) /\ q[k] = t
  BY DEF Lists
<1>2. u = [j \in 1..n |-> IF j < k THEN q[j] ELSE q[j + 1]]
  BY DEF Unlink
<1>3. u \in Seq(U) /\ Len(u) = n
  BY ListsUnlink, UnlinkLen DEF Lists
<1>4. /\ r \in Seq(U) /\ Len(r) = Len(q) /\ DOMAIN r = 1..Len(q)
      /\ \A j \in 1..Len(q) : r[j] = q[Len(q) + 1 - j]
  BY <1>1, ReversedType
<1>5. /\ Reversed(u) \in Seq(U) /\ Len(Reversed(u)) = n
      /\ \A j \in 1..n : Reversed(u)[j] = u[n + 1 - j]
  BY <1>3, ReversedType
<1> HIDE DEF r, k, u
<1>6. n \in Nat /\ i \in 1..Len(q) /\ n + 1 = Len(q)
  BY <1>1
<1>7. \A j \in 1..n : s[j] \in U
  BY <1>4, <1>6
<1>8. s \in Seq(U) /\ Len(s) = n
  <2>1. n \in Nat /\ s \in [1..n -> U]
    BY <1>6, <1>7
  <2> HIDE DEF n, s
  <2> QED
    BY <2>1
<1>9. ASSUME NEW j \in 1..n PROVE Reversed(u)[j] = s[j]
  <2>1. n + 1 - j \in 1..n /\ j \in 1..Len(q) /\ j + 1 \in 1..Len(q)
    BY <1>6
  <2>2. u[n + 1 - j] = IF n + 1 - j < k THEN q[n + 1 - j] ELSE q[n + 2 - j]
    BY <2>1, <1>2, <1>1
  <2>3. r[j] = q[n + 2 - j] /\ r[j + 1] = q[n + 1 - j]
    <3>1. Len(q) + 1 - j = n + 2 - j /\ Len(q) + 1 - (j + 1) = n + 1 - j
      <4>1. n \in Int /\ j \in Int /\ Len(q) = n + 1
        BY <1>6
      <4> HIDE DEF n
      <4> QED
        BY <4>1
    <3>2. r[j] = q[Len(q) + 1 - j] /\ r[j + 1] = q[Len(q) + 1 - (j + 1)]
      BY <2>1, <1>4
    <3> QED
      BY <3>1, <3>2
  <2>4. j < i <=> ~(n + 1 - j < k)
    BY <1>1, <1>6
  <2> QED
    BY <2>2, <2>3, <2>4, <1>5
<1>10. Reversed(u) = s
  BY <1>3, <1>5, <1>8, <1>9, SameList
<1>11. r[i] = t
  <2>1. Len(q) + 1 - i = k
    BY <1>1
  <2> QED
    BY <2>1, <1>1, <1>4, <1>6
<1> QED
  BY <1>4, <1>6, <1>10, <1>11 DEF r, u
=============================================================================
