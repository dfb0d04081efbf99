------------------------ MODULE IntrusiveListProofs -------------------------
(***************************************************************************)
(* Proofs about IntrusiveList, for any set of node addresses and whichever *)
(* of their owners may give up.  A behaviour ends where a pop is torn; that *)
(* this never happens to an owner who waits is proved here, too.           *)
(*                                                                         *)
(* The argument carries the order of the list along as a witness q: a push *)
(* puts a node before or behind it, and Unlink, whichever of its four      *)
(* cases it takes, closes the gap.  All else follows from where the nodes  *)
(* of the list, the victim and the cursor are.  The same witness gives the *)
(* refinement of AbstractList: Listing chooses an order, the links leave   *)
(* only one (OneOrder), so it is the one that the push or the removal made.*)
(***************************************************************************)
EXTENDS IntrusiveList, FiniteSetTheorems, SequenceTheorems, WellFoundedInduction, TLAPS

LinksOK ==
  /\ head \in Nodes \cup {Null} /\ tail \in Nodes \cup {Null}
  /\ count \in Nat
  /\ next \in [Nodes -> Nodes \cup {Null}] /\ prev \in [Nodes -> Nodes \cup {Null}]

VarsOK ==
  /\ LinksOK
  /\ listed \in [Nodes -> BOOLEAN]
  /\ data \in [Nodes -> BOOLEAN]
  /\ on_list \in [Nodes -> BOOLEAN]
  /\ life \in [Nodes -> {"none", "made", "pushed", "woken", "dropping"}]
  /\ op \in Pops \cup {"none", "scan", "stop"}
  /\ victim \in Nodes \cup {Null}
  /\ cursor \in Nodes \cup {Null}

\* The operation under the list lock, the node it takes off and the place
\* where the scan goes on belong together.
InOp ==
  /\ op = "none" => victim = Null
  /\ victim # Null => ~on_list[victim]

\* The node that is being taken off has not been given back to its owner, who
\* may have given it up; who does not is still waiting.
Kept ==
  /\ victim # Null => life[victim] \in {"pushed", "dropping", "none"}
  /\ victim \in Patient => life[victim] = "pushed"
  /\ \A n \in Patient : life[n] # "dropping"

IInv ==
  /\ VarsOK /\ ListIntact /\ LinkedAlive /\ DataPresent /\ ScanSafe /\ NoDirtyPush
  /\ InOp /\ Kept
-----------------------------------------------------------------------------
(* The order of the list                                                   *)

\* A node that is on the list is somewhere in its order.
LEMMA Somewhere ==
  ASSUME VarsOK, NEW q \in [1..count -> Nodes], Order(q), NEW n \in OnList
  PROVE  \E k \in 1..count : n = q[k]
BY DEF VarsOK, LinksOK, Order

\* A list that is not empty has a head and a tail that are on it, and the
\* next of a node on the list is another one of it or Null.
LEMMA Ends ==
  ASSUME VarsOK, ListIntact
  PROVE  /\ head # Null => head \in OnList
         /\ tail # Null => tail \in OnList
         /\ head = Null <=> tail = Null
         /\ head = Null <=> OnList = {}
         /\ \A n \in OnList : next[n] # Null => next[n] \in OnList \ {n}
         /\ \A n \in OnList : prev[n] # Null => prev[n] \in OnList
         /\ OnList # {} => count - 1 \in Nat
<1>1. PICK q \in [1..count -> Nodes] : Order(q)
  BY DEF ListIntact
<1>2. count = 0 \/ (1 \in 1..count /\ count \in 1..count)
  BY DEF VarsOK, LinksOK
<1>3. \A i \in 1..count : q[i] \in OnList /\ q[i] # Null
  BY <1>1, ListAssumption DEF Order
<1>4. ASSUME NEW n \in OnList, next[n] # Null
      PROVE  next[n] \in OnList \ {n}
  <2>1. PICK k \in 1..count : n = q[k]
    BY <1>1, Somewhere
  <2>2. k # count /\ next[n] = q[k + 1]
    BY <1>1, <1>4, <2>1 DEF Order
  <2>3. k + 1 \in 1..count /\ k \in 1..count /\ k + 1 # k
    BY <2>1, <2>2 DEF VarsOK, LinksOK
  <2> QED
    BY <1>1, <1>3, <2>1, <2>2, <2>3 DEF Order
<1>6. ASSUME NEW n \in OnList, prev[n] # Null
      PROVE  prev[n] \in OnList
  <2>1. PICK k \in 1..count : n = q[k]
    BY <1>1, Somewhere
  <2>2. k # 1 /\ prev[n] = q[k - 1]
    BY <1>1, <1>6, <2>1 DEF Order
  <2>3. k - 1 \in 1..count
    BY <2>1, <2>2 DEF VarsOK, LinksOK
  <2> QED
    BY <1>3, <2>2, <2>3
<1>5. count = 0 <=> OnList = {}
  <2>1. CASE count = 0
    <3>1. 1..count = {}
      BY <2>1
    <3> QED
      BY <1>1, <2>1, <3>1 DEF Order
  <2>2. CASE count # 0
    <3>1. q[1] \in OnList
      BY <1>2, <1>3, <2>2
    <3> QED
      BY <2>2, <3>1
  <2> QED
    BY <2>1, <2>2
<1> QED
  <2>1. count # 0 => count - 1 \in Nat
    BY DEF VarsOK, LinksOK
  <2>2. /\ head # Null => head \in OnList
        /\ tail # Null => tail \in OnList
        /\ head = Null <=> count = 0
        /\ tail = Null <=> count = 0
    BY <1>1, <1>2, <1>3 DEF Order
  <2> QED
    BY <1>4, <1>5, <1>6, <2>1, <2>2

\* A push at the head.
LEMMA PushHeadOrder ==
  ASSUME VarsOK, NEW q \in [1..count -> Nodes], Order(q),
         NEW n \in Nodes, PushHead(n), n \notin OnList,
         next[n] = Null, prev[n] = Null, OnList' = OnList \cup {n}
  PROVE  \E r \in [1..count' -> Nodes] :
           /\ Order(r)' /\ count' = count + 1
           /\ r[1] = n /\ \A i \in 1..count : r[i + 1] = q[i]
<1>1. Order(q)
  OBVIOUS
<1>2. /\ count' = count + 1 /\ count \in Nat
      /\ head' = n
      /\ \A i \in 1..count + 1 : i # 1 => i - 1 \in 1..count
      /\ \A i \in 1..count : i + 1 \in 1..count + 1 /\ i + 1 # 1
      /\ 1 \in 1..count + 1 /\ count + 1 \in 1..count + 1
  BY DEF PushHead, Enter, VarsOK, LinksOK
<1>3. PICK r \in [1..count + 1 -> Nodes] :
        /\ r[1] = n
        /\ \A i \in 1..count + 1 : i # 1 => r[i] = q[i - 1]
        /\ \A i \in 1..count : r[i + 1] = q[i]
  <2> DEFINE f == [i \in 1..count + 1 |-> IF i = 1 THEN n ELSE q[i - 1]]
  <2>1. /\ f \in [1..count + 1 -> Nodes]
        /\ f[1] = n
        /\ \A i \in 1..count + 1 : i # 1 => f[i] = q[i - 1]
        /\ \A i \in 1..count : f[i + 1] = q[i]
    BY <1>1, <1>2
  <2> QED
    BY <2>1
<1>4. \A i \in 1..count : q[i] \in OnList /\ q[i] # n /\ q[i] \in Nodes
  BY <1>1 DEF Order
<1>5. \A i, j \in 1..count + 1 : r[i] = r[j] => i = j
  <2> SUFFICES ASSUME NEW i \in 1..count + 1, NEW j \in 1..count + 1, r[i] = r[j]
               PROVE  i = j
    OBVIOUS
  <2>1. CASE i = 1 \/ j = 1
    BY <1>2, <1>3, <1>4, <2>1
  <2>2. CASE i # 1 /\ j # 1
    <3>1. i - 1 \in 1..count /\ j - 1 \in 1..count /\ q[i - 1] = q[j - 1]
      BY <1>2, <1>3, <2>2
    <3>2. i - 1 = j - 1
      BY <1>1, <3>1 DEF Order
    <3> QED
      BY <3>2
  <2> QED
    BY <2>1, <2>2
<1>6. OnList' = {r[i] : i \in 1..count + 1}
  <2>1. ASSUME NEW m \in OnList
        PROVE  \E i \in 1..count + 1 : m = r[i]
    <3>1. PICK k \in 1..count : m = q[k]
      BY <1>1, Somewhere
    <3> QED
      BY <1>2, <1>3, <3>1
  <2>2. ASSUME NEW i \in 1..count + 1
        PROVE  r[i] \in OnList'
    BY <1>2, <1>3, <1>4
  <2> QED
    BY <1>2, <1>3, <2>1, <2>2
<1>7. CASE count = 0
  <2>1. head = Null /\ tail' = n /\ UNCHANGED <<next, prev>>
    BY <1>1, <1>7 DEF PushHead, Order
  <2>2. 1..count + 1 = {1}
    BY <1>7
  <2>3. Order(r)'
    BY <1>2, <1>3, <1>5, <1>6, <1>7, <2>1, <2>2 DEF Order
  <2> QED
    BY <1>2, <1>3, <2>3
<1>8. CASE count # 0
  <2>1. /\ 1 \in 1..count /\ count \in 1..count /\ count + 1 # 1
        /\ head = q[1] /\ tail = q[count] /\ head \in Nodes /\ head # Null
    BY <1>1, <1>2, <1>4, <1>8, ListAssumption DEF Order
  <2>2. /\ tail' = tail
        /\ next' = [next EXCEPT ![n] = q[1]] /\ prev' = [prev EXCEPT ![q[1]] = n]
    BY <2>1 DEF PushHead
  <2>3. /\ next'[n] = q[1]
        /\ \A m \in Nodes : m # n => next'[m] = next[m]
        /\ prev'[q[1]] = n
        /\ \A m \in Nodes : m # q[1] => prev'[m] = prev[m]
    BY <2>1, <2>2 DEF VarsOK, LinksOK
  <2>4. /\ next'[r[1]] = r[1 + 1] /\ prev'[r[1]] = Null
    BY <1>3, <1>4, <2>1, <2>3
  <2>5. ASSUME NEW i \in 1..count
        PROVE  /\ next'[r[i + 1]] = (IF i + 1 = count + 1 THEN Null ELSE r[i + 1 + 1])
               /\ prev'[r[i + 1]] = r[i]
    <3>1. r[i + 1] = q[i] /\ next'[q[i]] = next[q[i]]
      BY <1>3, <1>4, <2>3
    <3>2. next[q[i]] = (IF i + 1 = count + 1 THEN Null ELSE r[i + 1 + 1])
      <4>1. i = count \/ i + 1 \in 1..count
        BY <1>2
      <4> QED
        BY <1>1, <1>2, <1>3, <4>1 DEF Order
    <3>3. prev'[q[i]] = r[i]
      <4>1. CASE i = 1
        BY <1>3, <2>3, <4>1
      <4>2. CASE i # 1
        <5>1. q[i] # q[1] /\ prev[q[i]] = q[i - 1]
          BY <1>1, <2>1, <4>2 DEF Order
        <5>2. i \in 1..count + 1
          BY <1>2
        <5> QED
          BY <1>3, <1>4, <2>3, <4>2, <5>1, <5>2
      <4> QED
        BY <4>1, <4>2
    <3> QED
      BY <3>1, <3>2, <3>3
  <2>6. ASSUME NEW j \in 1..count + 1
        PROVE  /\ next'[r[j]] = (IF j = count + 1 THEN Null ELSE r[j + 1])
               /\ prev'[r[j]] = (IF j = 1 THEN Null ELSE r[j - 1])
    <3>1. CASE j = 1
      BY <1>2, <2>1, <2>4, <3>1
    <3>2. CASE j # 1
      <4>1. PICK i \in 1..count : j = i + 1
        <5>1. j - 1 \in 1..count /\ j = j - 1 + 1
          BY <1>2, <3>2
        <5> QED
          BY <5>1
      <4>2. i + 1 - 1 = i
        OBVIOUS
      <4> QED
        BY <2>5, <3>2, <4>1, <4>2
    <3> QED
      BY <3>1, <3>2
  <2>7. tail' = r[count + 1]
    BY <1>3, <2>1, <2>2
  <2>8. Order(r)'
    <3>1. /\ head' = (IF count' = 0 THEN Null ELSE r[1])
          /\ tail' = (IF count' = 0 THEN Null ELSE r[count'])
      BY <1>2, <1>3, <2>7
    <3>2. /\ \A i, j \in 1..count' : r[i] = r[j] => i = j
          /\ OnList' = {r[i] : i \in 1..count'}
      BY <1>2, <1>5, <1>6
    <3>3. \A i \in 1..count' :
            /\ next'[r[i]] = (IF i = count' THEN Null ELSE r[i + 1])
            /\ prev'[r[i]] = (IF i = 1 THEN Null ELSE r[i - 1])
      BY <1>2, <2>6
    <3> QED
      BY <3>1, <3>2, <3>3 DEF Order
  <2> QED
    BY <1>2, <1>3, <2>8
<1> QED
  BY <1>7, <1>8

\* A push at the tail.
LEMMA PushTailOrder ==
  ASSUME VarsOK, NEW q \in [1..count -> Nodes], Order(q),
         NEW n \in Nodes, PushTail(n), n \notin OnList,
         next[n] = Null, prev[n] = Null, OnList' = OnList \cup {n}
  PROVE  \E r \in [1..count' -> Nodes] :
           /\ Order(r)' /\ count' = count + 1
           /\ r[count + 1] = n /\ \A i \in 1..count : r[i] = q[i]
<1>1. Order(q)
  OBVIOUS
<1>2. /\ count' = count + 1 /\ count \in Nat
      /\ tail' = n
      /\ \A i \in 1..count + 1 : i # count + 1 => i \in 1..count
      /\ \A i \in 1..count : i \in 1..count + 1 /\ i # count + 1
      /\ count + 1 \in 1..count + 1 /\ count + 1 # count
  BY DEF PushTail, Enter, VarsOK, LinksOK
<1>3. PICK r \in [1..count + 1 -> Nodes] :
        /\ r[count + 1] = n
        /\ \A i \in 1..count : r[i] = q[i]
  <2> DEFINE f == [i \in 1..count + 1 |-> IF i = count + 1 THEN n ELSE q[i]]
  <2>1. /\ f \in [1..count + 1 -> Nodes]
        /\ f[count + 1] = n
        /\ \A i \in 1..count : f[i] = q[i]
    BY <1>1, <1>2
  <2> QED
    BY <2>1
<1>4. \A i \in 1..count : q[i] \in OnList /\ q[i] # n /\ q[i] \in Nodes
  BY <1>1 DEF Order
<1>5. \A i, j \in 1..count + 1 : r[i] = r[j] => i = j
  <2> SUFFICES ASSUME NEW i \in 1..count + 1, NEW j \in 1..count + 1, r[i] = r[j]
               PROVE  i = j
    OBVIOUS
  <2>1. CASE i = count + 1 \/ j = count + 1
    BY <1>2, <1>3, <1>4, <2>1
  <2>2. CASE i # count + 1 /\ j # count + 1
    BY <1>1, <1>2, <1>3, <2>2 DEF Order
  <2> QED
    BY <2>1, <2>2
<1>6. OnList' = {r[i] : i \in 1..count + 1}
  <2>1. ASSUME NEW m \in OnList
        PROVE  \E i \in 1..count + 1 : m = r[i]
    <3>1. PICK k \in 1..count : m = q[k]
      BY <1>1, Somewhere
    <3> QED
      BY <1>2, <1>3, <3>1
  <2>2. ASSUME NEW i \in 1..count + 1
        PROVE  r[i] \in OnList'
    BY <1>2, <1>3, <1>4
  <2> QED
    BY <1>2, <1>3, <2>1, <2>2
<1>7. CASE count = 0
  <2>1. tail = Null /\ head' = n /\ UNCHANGED <<next, prev>>
    BY <1>1, <1>7 DEF PushTail, Order
  <2>2. 1..count + 1 = {1}
    BY <1>7
  <2>3. Order(r)'
    BY <1>2, <1>3, <1>5, <1>6, <1>7, <2>1, <2>2 DEF Order
  <2> QED
    BY <1>2, <1>3, <2>3
<1>8. CASE count # 0
  <2>1. /\ 1 \in 1..count /\ count \in 1..count
        /\ head = q[1] /\ tail = q[count] /\ tail \in Nodes /\ tail # Null
    BY <1>1, <1>2, <1>4, <1>8, ListAssumption DEF Order
  <2>2. /\ head' = head
        /\ prev' = [prev EXCEPT ![n] = q[count]]
        /\ next' = [next EXCEPT ![q[count]] = n]
    BY <2>1 DEF PushTail
  <2>3. /\ prev'[n] = q[count]
        /\ \A m \in Nodes : m # n => prev'[m] = prev[m]
        /\ next'[q[count]] = n
        /\ \A m \in Nodes : m # q[count] => next'[m] = next[m]
    BY <2>1, <2>2 DEF VarsOK, LinksOK
  <2>4. /\ next'[r[count + 1]] = Null /\ prev'[r[count + 1]] = r[count + 1 - 1]
    <3>1. count + 1 - 1 = count
      BY <1>2
    <3> QED
      BY <1>3, <1>4, <2>1, <2>3, <3>1
  <2>5. ASSUME NEW i \in 1..count
        PROVE  /\ next'[r[i]] = r[i + 1]
               /\ prev'[r[i]] = (IF i = 1 THEN Null ELSE r[i - 1])
    <3>1. r[i] = q[i] /\ prev'[q[i]] = prev[q[i]]
      BY <1>3, <1>4, <2>3
    <3>2. prev[q[i]] = (IF i = 1 THEN Null ELSE r[i - 1])
      <4>1. i = 1 \/ i - 1 \in 1..count
        BY <1>2
      <4> QED
        BY <1>1, <1>2, <1>3, <4>1 DEF Order
    <3>3. next'[q[i]] = r[i + 1]
      <4>1. CASE i = count
        BY <1>3, <2>3, <4>1
      <4>2. CASE i # count
        <5>1. q[i] # q[count] /\ next[q[i]] = q[i + 1] /\ i + 1 \in 1..count
          BY <1>1, <1>2, <2>1, <4>2 DEF Order
        <5> QED
          BY <1>3, <1>4, <2>3, <5>1
      <4> QED
        BY <4>1, <4>2
    <3> QED
      BY <3>1, <3>2, <3>3
  <2>6. ASSUME NEW j \in 1..count + 1
        PROVE  /\ next'[r[j]] = (IF j = count + 1 THEN Null ELSE r[j + 1])
               /\ prev'[r[j]] = (IF j = 1 THEN Null ELSE r[j - 1])
    <3>1. CASE j = count + 1
      BY <1>2, <1>8, <2>4, <3>1
    <3>2. CASE j # count + 1
      BY <1>2, <2>5, <3>2
    <3> QED
      BY <3>1, <3>2
  <2>7. head' = r[1]
    BY <1>3, <2>1, <2>2
  <2>8. Order(r)'
    BY <1>2, <1>3, <1>5, <1>6, <2>6, <2>7 DEF Order
  <2> QED
    BY <1>2, <1>3, <2>8
<1> QED
  BY <1>7, <1>8

\* A node is taken out, wherever in the list it is.  The four cases of
\* remove_node come to the same (<1>8): the neighbours of the node are joined,
\* and an end that was the node moves on to its neighbour.
LEMMA UnlinkOrder ==
  ASSUME VarsOK, NEW q \in [1..count -> Nodes], Order(q),
         NEW n \in OnList, NEW k \in 1..count, n = q[k], Unlink(n),
         OnList' = OnList \ {n}
  PROVE  \E r \in [1..count' -> Nodes] :
           /\ Order(r)' /\ count' = count - 1
           /\ \A i \in 1..count - 1 :
                /\ i < k => r[i] = q[i]
                /\ i >= k => r[i] = q[i + 1]
<1>1. Order(q)
  OBVIOUS
<1>2. n = q[k]
  OBVIOUS
<1>3. /\ count \in Nat /\ count - 1 \in Nat
      /\ \A i \in 1..count - 1 : i \in 1..count /\ i + 1 \in 1..count
      /\ \A i \in 1..count : i < k => i \in 1..count - 1
      /\ \A i \in 1..count : i > k => i - 1 \in 1..count - 1 /\ i - 1 >= k
  BY DEF VarsOK, LinksOK
<1>4. PICK r \in [1..count - 1 -> Nodes] :
        \A i \in 1..count - 1 :
          /\ i < k => r[i] = q[i]
          /\ i >= k => r[i] = q[i + 1]
  <2> DEFINE f == [i \in 1..count - 1 |-> IF i < k THEN q[i] ELSE q[i + 1]]
  <2>1. f \in [1..count - 1 -> Nodes]
    BY <1>3
  <2>2. \A i \in 1..count - 1 :
          /\ i < k => f[i] = q[i]
          /\ i >= k => f[i] = q[i + 1]
    BY <1>3
  <2> QED
    BY <2>1, <2>2
<1>5. \A i, j \in 1..count - 1 : r[i] = r[j] => i = j
  <2> SUFFICES ASSUME NEW i \in 1..count - 1, NEW j \in 1..count - 1, r[i] = r[j]
               PROVE  i = j
    OBVIOUS
  <2>1. \A a, b \in 1..count : q[a] = q[b] => a = b
    BY <1>1 DEF Order
  <2>2. /\ i \in 1..count /\ i + 1 \in 1..count /\ j \in 1..count /\ j + 1 \in 1..count
    BY <1>3
  <2> QED
    BY <1>4, <2>1, <2>2
<1>6. OnList' = {r[i] : i \in 1..count - 1}
  <2>1. ASSUME NEW m \in OnList \ {n}
        PROVE  \E i \in 1..count - 1 : m = r[i]
    <3>1. PICK j \in 1..count : m = q[j]
      BY <1>1, Somewhere
    <3>2. CASE j < k
      BY <1>3, <1>4, <3>1, <3>2
    <3>3. CASE j > k
      <4>1. j - 1 + 1 = j
        OBVIOUS
      <4> QED
        BY <1>3, <1>4, <3>1, <3>3, <4>1
    <3>4. j # k
      BY <1>2, <3>1
    <3> QED
      BY <3>2, <3>3, <3>4
  <2>2. ASSUME NEW i \in 1..count - 1
        PROVE  r[i] \in OnList \ {n}
    <3>1. CASE i < k
      BY <1>1, <1>2, <1>3, <1>4, <3>1 DEF Order
    <3>2. CASE i >= k
      BY <1>1, <1>2, <1>3, <1>4, <3>2 DEF Order
    <3> QED
      BY <3>1, <3>2
  <2> QED
    BY <2>1, <2>2
<1>7. /\ next[n] = (IF k = count THEN Null ELSE q[k + 1])
      /\ prev[n] = (IF k = 1 THEN Null ELSE q[k - 1])
      /\ head = q[1] /\ tail = q[count]
      /\ \A i \in 1..count :
           /\ next[q[i]] = (IF i = count THEN Null ELSE q[i + 1])
           /\ prev[q[i]] = (IF i = 1 THEN Null ELSE q[i - 1])
  BY <1>1, <1>2, <1>3 DEF Order
<1>8. /\ count' = count - 1
      /\ head' = (IF k = 1 THEN next[n] ELSE head)
      /\ tail' = (IF k = count THEN prev[n] ELSE tail)
      /\ k # 1 => next'[q[k - 1]] = next[n]
      /\ k # count => prev'[q[k + 1]] = prev[n]
      /\ \A i \in 1..count : i # k - 1 => next'[q[i]] = next[q[i]]
      /\ \A i \in 1..count : i # k + 1 => prev'[q[i]] = prev[q[i]]
  <2>1. /\ 1 \in 1..count /\ count \in 1..count
        /\ k # 1 => k - 1 \in 1..count
        /\ k # count => k + 1 \in 1..count
        /\ k + 1 # k /\ k - 1 # k /\ k + 1 # 1 /\ k - 1 # count
    BY <1>3
  <2>2. /\ head = n <=> k = 1
        /\ tail = n <=> k = count
        /\ n \in Nodes /\ n # Null
    BY <1>1, <1>2, <2>1, ListAssumption DEF Order
  <2>3. \A i, j \in 1..count : q[i] = q[j] => i = j
    BY <1>1 DEF Order
  <2>4. CASE UnlinkOnly(n)
    BY <1>7, <2>1, <2>2, <2>4 DEF UnlinkOnly, Unlink
  <2>5. CASE UnlinkHead(n)
    BY <1>2, <1>7, <2>1, <2>2, <2>3, <2>5 DEF UnlinkHead, Unlink, VarsOK, LinksOK
  <2>6. CASE UnlinkTail(n)
    BY <1>2, <1>7, <2>1, <2>2, <2>3, <2>6 DEF UnlinkTail, Unlink, VarsOK, LinksOK
  <2>7. CASE UnlinkMiddle(n)
    BY <1>2, <1>7, <2>1, <2>2, <2>3, <2>7 DEF UnlinkMiddle, Unlink, VarsOK, LinksOK
  <2> QED
    BY <2>4, <2>5, <2>6, <2>7 DEF Unlink
<1>9. head' = (IF count - 1 = 0 THEN Null ELSE r[1])
  BY <1>3, <1>4, <1>7, <1>8
<1>10. tail' = (IF count - 1 = 0 THEN Null ELSE r[count - 1])
  BY <1>3, <1>4, <1>7, <1>8
<1>11. ASSUME NEW i \in 1..count - 1
       PROVE  /\ next'[r[i]] = (IF i = count - 1 THEN Null ELSE r[i + 1])
              /\ prev'[r[i]] = (IF i = 1 THEN Null ELSE r[i - 1])
  <2>1. CASE i < k
    <3>1. r[i] = q[i]
      BY <1>4, <2>1
    <3>2. next'[q[i]] = (IF i = count - 1 THEN Null ELSE r[i + 1])
      <4>1. CASE i = k - 1
        BY <1>3, <1>4, <1>7, <1>8, <2>1, <4>1
      <4>2. CASE i # k - 1
        <5>1. i + 1 < k /\ i # count - 1 /\ i + 1 \in 1..count - 1 /\ i # count
          BY <1>3, <2>1, <4>2
        <5> QED
          BY <1>3, <1>4, <1>7, <1>8, <4>2, <5>1
      <4> QED
        BY <4>1, <4>2
    <3>3. prev'[q[i]] = (IF i = 1 THEN Null ELSE r[i - 1])
      BY <1>3, <1>4, <1>7, <1>8, <2>1
    <3> QED
      BY <3>1, <3>2, <3>3
  <2>2. CASE i >= k
    <3>1. r[i] = q[i + 1]
      BY <1>4, <2>2
    <3>2. next'[q[i + 1]] = (IF i = count - 1 THEN Null ELSE r[i + 1])
      BY <1>3, <1>4, <1>7, <1>8, <2>2
    <3>3. prev'[q[i + 1]] = (IF i = 1 THEN Null ELSE r[i - 1])
      BY <1>3, <1>4, <1>7, <1>8, <2>2
    <3> QED
      BY <3>1, <3>2, <3>3
  <2> QED
    BY <2>1, <2>2
<1>12. Order(r)'
  BY <1>4, <1>5, <1>6, <1>8, <1>9, <1>10, <1>11 DEF Order
<1> QED
  BY <1>4, <1>8, <1>12

LEMMA UnlinkIntact ==
  ASSUME VarsOK, ListIntact, NEW n \in OnList, Unlink(n),
         OnList' = OnList \ {n}
  PROVE  ListIntact'
<1>1. PICK q \in [1..count -> Nodes] : Order(q)
  BY DEF ListIntact
<1>2. PICK k \in 1..count : n = q[k]
  BY <1>1, Somewhere
<1>3. \E r \in [1..count' -> Nodes] : Order(r)'
  BY <1>1, <1>2, UnlinkOrder
<1> QED
  BY <1>3 DEF ListIntact
-----------------------------------------------------------------------------
(* The inductive invariant                                                 *)

LEMMA InitIInv == Init => IInv
<1> SUFFICES ASSUME Init PROVE IInv
  OBVIOUS
<1>1. VarsOK
  BY ListAssumption DEF Init, VarsOK, LinksOK, Pops
<1>2. OnList = {}
  BY ListAssumption DEF Init, OnList
<1>3. ListIntact
  <2>1. PICK q \in [1..count -> Nodes] : TRUE
    <3>1. 1..0 = {}
      OBVIOUS
    <3>2. [i \in {} |-> Null] \in [{} -> Nodes]
      OBVIOUS
    <3> QED
      BY <3>1, <3>2 DEF Init
  <2>2. 1..count = {}
    BY DEF Init
  <2>3. Order(q)
    BY <1>2, <2>2 DEF Init, Order
  <2> QED
    BY <2>3 DEF ListIntact
<1> QED
  BY <1>1, <1>2, <1>3, ListAssumption
  DEF Init, IInv, LinkedAlive, DataPresent, ScanSafe, NoDirtyPush, Clean, InOp, Kept, OnList,
      Pops

\* While no pop is torn, all nodes of the list are there.
LEMMA OnListLife ==
  ASSUME IInv, ~Torn
  PROVE  /\ \A n \in OnList : life[n] \in {"pushed", "dropping"}
         /\ op = "none" => victim = Null
BY ListAssumption DEF IInv, LinkedAlive, Kept, Torn, OnList, InOp

\* Nothing that the order of the list is made of changes.
LEMMA KeepOrder ==
  ASSUME NEW q \in [1..count -> Nodes], Order(q),
         UNCHANGED <<head, tail, count>>, OnList' = OnList,
         \A n \in OnList : next'[n] = next[n] /\ prev'[n] = prev[n]
  PROVE  Order(q)'
<1>1. \A i \in 1..count : q[i] \in OnList
  BY DEF Order
<1> QED
  BY <1>1 DEF Order

LEMMA SameOrder ==
  ASSUME ListIntact, UNCHANGED <<head, tail, count>>, OnList' = OnList,
         \A n \in OnList : next'[n] = next[n] /\ prev'[n] = prev[n]
  PROVE  ListIntact'
<1>1. PICK q \in [1..count -> Nodes] : Order(q)
  BY DEF ListIntact
<1>3. Order(q)'
  BY <1>1, KeepOrder
<1> QED
  BY <1>1, <1>3 DEF ListIntact

LEMMA MakeNodeIInv ==
  ASSUME IInv, ~Torn, NEW n \in Nodes, MakeNode(n)
  PROVE  IInv'
<1> USE DEF IInv
<1>1. VarsOK'
  BY ListAssumption DEF MakeNode, VarsOK, LinksOK
<1>2. n \notin OnList /\ ~on_list[n] /\ n # victim
  BY OnListLife DEF MakeNode, OnList
<1>3. OnList' = OnList
  BY <1>2 DEF MakeNode, OnList, VarsOK
<1>4. ListIntact'
  <2>1. \A m \in OnList : next'[m] = next[m] /\ prev'[m] = prev[m]
    BY <1>2 DEF MakeNode, VarsOK, LinksOK, OnList
  <2> QED
    BY <1>3, <2>1, SameOrder DEF MakeNode
<1> QED
  BY <1>1, <1>2, <1>3, <1>4, ListAssumption
  DEF MakeNode, VarsOK, LinksOK, LinkedAlive, DataPresent, ScanSafe, NoDirtyPush, Clean,
      InOp, Kept, OnList

\* What the two pushes do beside the links they set.
LEMMA EnterIInv ==
  ASSUME IInv, NEW n \in Nodes, Enter(n), LinksOK', ListIntact',
         \A m \in Nodes \ (OnList \cup {n}) : next'[m] = next[m] /\ prev'[m] = prev[m]
  PROVE  IInv'
<1> USE DEF IInv
<1>1. VarsOK'
  BY DEF Enter, VarsOK
<1>2. n \notin OnList /\ n # victim /\ victim = Null
  BY ListAssumption DEF Enter, LinkedAlive, OnList, InOp
<1>3. OnList' = OnList \cup {n}
  BY <1>2 DEF Enter, OnList, VarsOK
<1>4. NoDirtyPush'
  <2> SUFFICES ASSUME NEW m \in Nodes, life'[m] = "made" PROVE Clean(m)'
    BY DEF NoDirtyPush
  <2>1. m # n /\ life[m] = "made"
    BY DEF Enter, VarsOK
  <2>2. m \notin OnList
    BY <1>2, <2>1, ListAssumption DEF LinkedAlive, OnList
  <2> QED
    BY <2>1, <2>2 DEF Enter, Clean, NoDirtyPush, VarsOK
<1> QED
  BY <1>1, <1>2, <1>3, <1>4, ListAssumption
  DEF Enter, VarsOK, LinkedAlive, DataPresent, ScanSafe, InOp, Kept, OnList

LEMMA PushHeadIInv ==
  ASSUME IInv, NEW n \in Nodes, PushHead(n)
  PROVE  IInv'
<1> USE DEF IInv
<1>1. Enter(n) /\ count' = count + 1
  BY DEF PushHead, Enter
<1>2. n \notin OnList /\ victim = Null /\ next[n] = Null /\ prev[n] = Null
  BY <1>1, ListAssumption DEF Enter, LinkedAlive, OnList, InOp, Clean
<1>3. OnList' = OnList \cup {n}
  BY <1>1, <1>2 DEF Enter, OnList, VarsOK
<1>4. ListIntact'
  <2>1. PICK q \in [1..count -> Nodes] : Order(q)
    BY DEF ListIntact
  <2>2. \E r \in [1..count' -> Nodes] : Order(r)'
    BY <1>2, <1>3, <2>1, PushHeadOrder
  <2> QED
    BY <2>2 DEF ListIntact
<1>5. head = Null \/ head \in OnList
  BY Ends
<1>6. LinksOK'
  BY <1>1, <1>5 DEF PushHead, VarsOK, LinksOK, OnList
<1>7. \A m \in Nodes \ (OnList \cup {n}) : next'[m] = next[m] /\ prev'[m] = prev[m]
  BY <1>5 DEF PushHead, VarsOK, LinksOK, OnList
<1> QED
  BY <1>1, <1>4, <1>6, <1>7, EnterIInv

LEMMA PushTailIInv ==
  ASSUME IInv, NEW n \in Nodes, PushTail(n)
  PROVE  IInv'
<1> USE DEF IInv
<1>1. Enter(n) /\ count' = count + 1
  BY DEF PushTail, Enter
<1>2. n \notin OnList /\ victim = Null /\ next[n] = Null /\ prev[n] = Null
  BY <1>1, ListAssumption DEF Enter, LinkedAlive, OnList, InOp, Clean
<1>3. OnList' = OnList \cup {n}
  BY <1>1, <1>2 DEF Enter, OnList, VarsOK
<1>4. ListIntact'
  <2>1. PICK q \in [1..count -> Nodes] : Order(q)
    BY DEF ListIntact
  <2>2. \E r \in [1..count' -> Nodes] : Order(r)'
    BY <1>2, <1>3, <2>1, PushTailOrder
  <2> QED
    BY <2>2 DEF ListIntact
<1>5. tail = Null \/ tail \in OnList
  BY Ends
<1>6. LinksOK'
  BY <1>1, <1>5 DEF PushTail, VarsOK, LinksOK, OnList
<1>7. \A m \in Nodes \ (OnList \cup {n}) : next'[m] = next[m] /\ prev'[m] = prev[m]
  BY <1>5 DEF PushTail, VarsOK, LinksOK, OnList
<1> QED
  BY <1>1, <1>4, <1>6, <1>7, EnterIInv

\* Unlink writes to nodes of the list only.
LEMMA UnlinkLocal ==
  ASSUME VarsOK, ListIntact, NEW n \in OnList, Unlink(n)
  PROVE  /\ LinksOK'
         /\ \A m \in Nodes \ OnList : next'[m] = next[m] /\ prev'[m] = prev[m]
<1>1. n \in Nodes /\ OnList \subseteq Nodes /\ count - 1 \in Nat
  BY Ends DEF OnList
<1>2. /\ next[n] # Null => next[n] \in OnList
      /\ prev[n] # Null => prev[n] \in OnList
  BY Ends
<1>3. CASE UnlinkOnly(n)
  BY <1>1, <1>3 DEF UnlinkOnly, Unlink, VarsOK, LinksOK
<1>4. CASE UnlinkHead(n)
  BY <1>1, <1>2, <1>4, ListAssumption DEF UnlinkHead, Unlink, VarsOK, LinksOK
<1>5. CASE UnlinkTail(n)
  BY <1>1, <1>2, <1>5, ListAssumption DEF UnlinkTail, Unlink, VarsOK, LinksOK
<1>6. CASE UnlinkMiddle(n)
  BY <1>1, <1>2, <1>6, ListAssumption DEF UnlinkMiddle, Unlink, VarsOK, LinksOK
<1> QED
  BY <1>3, <1>4, <1>5, <1>6 DEF Unlink

\* The swap of is_on_list makes the node the victim: the list does not change.
LEMMA SwapOrder ==
  ASSUME VarsOK, ListIntact, NEW n \in Nodes, victim = Null, Swap(n)
  PROVE  OnList' = OnList /\ ListIntact'
<1>1. OnList' = OnList
  BY ListAssumption DEF Swap, OnList, VarsOK
<1> QED
  BY <1>1, SameOrder DEF Swap, links

LEMMA PopIInv ==
  ASSUME IInv, NEW n \in OnList, victim = Null, Swap(n), op' \in Pops,
         op = "none" \/ op = "pop_all", UNCHANGED <<data, cursor>>
  PROVE  IInv'
<1> USE DEF IInv
<1>1. n \in Nodes /\ n # Null /\ cursor = Null
  BY ListAssumption DEF OnList, ScanSafe
<1>2. OnList' = OnList /\ ListIntact'
  BY <1>1, SwapOrder
<1>3. VarsOK'
  BY <1>1 DEF Swap, links, VarsOK, LinksOK
<1> QED
  BY <1>1, <1>2, <1>3
  DEF Swap, links, VarsOK, LinkedAlive, DataPresent, ScanSafe, NoDirtyPush, Clean, InOp, Kept,
      Pops

LEMMA ScanRemoveIInv ==
  ASSUME IInv, NEW a \in ScanActions, ScanRemove(a)
  PROVE  IInv'
<1> USE DEF IInv, ScanActions
<1>1. /\ cursor \in Nodes /\ victim = Null /\ Swap(cursor) /\ op' = a
      /\ data' = [data EXCEPT ![cursor] = FALSE]
      /\ cursor \in OnList
  BY DEF ScanRemove, VarsOK, ScanSafe, OnList
<1>2. OnList' = OnList /\ ListIntact'
  BY <1>1, SwapOrder
<1>3. cursor' = Null \/ (a = "scan" /\ cursor' = next[cursor] /\ next[cursor] # Null)
  BY DEF ScanRemove
<1>4. cursor' # Null => cursor' \in OnList \ {cursor}
  BY <1>1, <1>3, Ends
<1>5. VarsOK'
  BY <1>1, <1>3 DEF Swap, links, VarsOK, LinksOK
<1>6. ScanSafe'
  BY <1>1, <1>3, <1>4 DEF Swap, VarsOK, ScanSafe, OnList
<1> QED
  BY <1>1, <1>2, <1>5, <1>6, ListAssumption
  DEF Swap, links, VarsOK, LinkedAlive, DataPresent, NoDirtyPush, Clean, InOp, Kept, Pops

LEMMA FinishIInv ==
  ASSUME IInv, Finish
  PROVE  IInv'
<1> USE DEF IInv
<1>1. /\ victim \in Nodes /\ victim \in OnList /\ Unlink(victim) /\ ~on_list[victim]
      /\ victim' = Null /\ data' = [data EXCEPT ![victim] = FALSE]
      /\ op' \in {op, "none"}
      /\ life' = [life EXCEPT ![victim] = IF @ = "pushed" THEN "woken" ELSE @]
      /\ UNCHANGED <<listed, on_list, cursor>>
  BY DEF Finish, VarsOK, OnList, InOp
<1>2. OnList' = OnList \ {victim}
  BY <1>1, ListAssumption DEF OnList
<1>3. ListIntact'
  BY <1>1, <1>2, UnlinkIntact
<1>4. /\ LinksOK'
      /\ \A m \in Nodes \ OnList : next'[m] = next[m] /\ prev'[m] = prev[m]
  BY <1>1, UnlinkLocal
<1>5. ScanSafe'
  BY <1>1, ListAssumption DEF Finish, ScanSafe, VarsOK
<1> QED
  BY <1>1, <1>2, <1>3, <1>4, <1>5, ListAssumption
  DEF VarsOK, LinkedAlive, DataPresent, NoDirtyPush, Clean, InOp, Kept

LEMMA DropNodeIInv ==
  ASSUME IInv, ~Torn, NEW n \in Nodes, DropNode(n)
  PROVE  IInv'
<1> USE DEF IInv
<1>1. OnList' = OnList
  BY DEF DropNode, OnList
<1>2. ListIntact'
  BY <1>1, SameOrder DEF DropNode, links
<1> QED
  BY <1>1, <1>2
  DEF DropNode, Dropped, links, VarsOK, LinksOK, LinkedAlive, DataPresent, ScanSafe,
      NoDirtyPush, Clean, InOp, Kept, Torn, OnList

LEMMA DropRemoveIInv ==
  ASSUME IInv, NEW n \in Nodes, DropRemove(n)
  PROVE  IInv'
<1> USE DEF IInv
<1>1. /\ victim = Null /\ cursor = Null /\ life[n] = "dropping"
      /\ life' = [life EXCEPT ![n] = "none"]
      /\ UNCHANGED <<listed, data, op, victim, cursor>>
  BY DEF DropRemove, InOp, ScanSafe
<1>2. OnList = {m \in Nodes : on_list[m]}
  BY <1>1, ListAssumption DEF OnList
<1>3. Kept'
  BY <1>1, ListAssumption DEF Kept, VarsOK
<1>4. CASE on_list[n]
  <2>1. n \in OnList /\ Unlink(n) /\ on_list' = [on_list EXCEPT ![n] = FALSE]
    BY <1>2, <1>4 DEF DropRemove
  <2>2. OnList' = OnList \ {n}
    BY <1>1, <2>1, ListAssumption DEF OnList, VarsOK
  <2>3. ListIntact'
    BY <2>1, <2>2, UnlinkIntact
  <2>4. /\ LinksOK'
        /\ \A m \in Nodes \ OnList : next'[m] = next[m] /\ prev'[m] = prev[m]
    BY <2>1, UnlinkLocal
  <2> QED
    BY <1>1, <1>2, <1>3, <2>1, <2>2, <2>3, <2>4, ListAssumption
    DEF VarsOK, LinkedAlive, DataPresent, ScanSafe, NoDirtyPush, Clean, InOp
<1>5. CASE ~on_list[n]
  <2>1. UNCHANGED <<links, on_list>> /\ OnList' = OnList /\ n \notin OnList
    BY <1>1, <1>2, <1>5 DEF DropRemove, OnList
  <2>2. ListIntact'
    BY <2>1, SameOrder DEF links
  <2> QED
    BY <1>1, <1>3, <1>5, <2>1, <2>2, ListAssumption
    DEF links, VarsOK, LinksOK, LinkedAlive, DataPresent, ScanSafe, NoDirtyPush, Clean, InOp
<1> QED
  BY <1>4, <1>5
-----------------------------------------------------------------------------
LEMMA StepIInv ==
  ASSUME IInv, [Next]_vars
  PROVE  IInv'
<1>1. ASSUME ~Torn, NEW n \in Nodes, MakeNode(n) PROVE IInv'
  BY <1>1, MakeNodeIInv
<1>2. ASSUME NEW n \in Nodes, PushHead(n) PROVE IInv'
  BY <1>2, PushHeadIInv
<1>3. ASSUME NEW n \in Nodes, PushTail(n) PROVE IInv'
  BY <1>3, PushTailIInv
<1>4. ASSUME ~Torn, NEW n \in Nodes, DropNode(n) PROVE IInv'
  BY <1>4, DropNodeIInv
<1>5. ASSUME NEW n \in Nodes, DropRemove(n) PROVE IInv'
  BY <1>5, DropRemoveIInv
<1>6. ASSUME PopHead \/ PopTail \/ PopAll PROVE IInv'
  <2>1. /\ head # Null => head \in OnList
        /\ tail # Null => tail \in OnList
        /\ op = "none" => victim = Null
    BY Ends DEF IInv, InOp
  <2>2. CASE PopHead
    BY <2>1, <2>2, PopIInv DEF PopHead, Pops
  <2>3. CASE PopTail
    BY <2>1, <2>3, PopIInv DEF PopTail, Pops
  <2>4. CASE PopAll
    BY <2>1, <2>4, PopIInv DEF PopAll, Pops
  <2> QED
    BY <1>6, <2>2, <2>3, <2>4
<1>7. ASSUME Scan \/ ScanRetain PROVE IInv'
  <2>1. OnList' = OnList /\ victim = Null
    BY <1>7 DEF Scan, ScanRetain, OnList, IInv, InOp
  <2>2. ListIntact'
    BY <1>7, <2>1, SameOrder DEF Scan, ScanRetain, links, IInv
  <2>3. cursor' # Null => cursor' \in Nodes /\ on_list[cursor'] /\ op' = "scan"
    <3>1. \A n \in OnList : n \in Nodes /\ on_list[n]
      BY <2>1, ListAssumption DEF OnList
    <3>2. CASE Scan
      BY <3>1, <3>2, Ends DEF Scan, IInv
    <3>3. CASE ScanRetain
      <4>1. cursor \in OnList
        BY <3>3 DEF ScanRetain, IInv, ScanSafe, VarsOK, OnList
      <4>2. next[cursor] # Null => next[cursor] \in OnList
        BY <4>1, Ends DEF IInv
      <4> QED
        BY <3>1, <3>3, <4>2 DEF ScanRetain
    <3> QED
      BY <1>7, <3>2, <3>3
  <2>4. op' \in {"scan", "none"}
    BY <1>7 DEF Scan, ScanRetain
  <2>5. UNCHANGED <<links, listed, data, on_list, life, victim>>
    BY <1>7 DEF Scan, ScanRetain
  <2> QED
    BY <2>1, <2>2, <2>3, <2>4, <2>5, ListAssumption
    DEF IInv, links, VarsOK, LinksOK, LinkedAlive, DataPresent, ScanSafe, NoDirtyPush,
        Clean, InOp, Kept, Pops
<1>8. ASSUME NEW a \in ScanActions, ScanRemove(a) PROVE IInv'
  BY <1>8, ScanRemoveIInv
<1>9. ASSUME Finish PROVE IInv'
  BY <1>9, FinishIInv
<1>10. ASSUME UNCHANGED vars PROVE IInv'
  <2>1. OnList' = OnList
    BY <1>10 DEF vars, OnList
  <2>2. ListIntact'
    BY <1>10, <2>1, SameOrder DEF vars, links, IInv
  <2> QED
    BY <1>10, <2>1, <2>2
    DEF vars, links, IInv, VarsOK, LinksOK, LinkedAlive, DataPresent, ScanSafe,
        NoDirtyPush, Clean, InOp, Kept
<1> QED
  BY <1>1, <1>2, <1>3, <1>4, <1>5, <1>6, <1>7, <1>8, <1>9, <1>10 DEF Next, Locked, Undefined

LEMMA IInvAlways == Spec => []IInv
<1>1. IInv /\ [Next]_vars => IInv'
  BY StepIInv
<1> QED
  BY InitIInv, <1>1, PTL DEF Spec
-----------------------------------------------------------------------------
(* Theorems                                                                *)

\* Every variable keeps its type; in particular count never exceeds the number
\* of nodes there are, nor goes below 0.
THEOREM ListTypeCorrect == Spec => []TypeOK
<1>1. ASSUME IInv PROVE count \in 0..Cardinality(Nodes)
  <2>1. PICK q \in [1..count -> Nodes] : Order(q)
    BY <1>1 DEF IInv, ListIntact
  <2>2. q \in Injection(1..count, Nodes)
    BY <2>1 DEF Order, Injection, IsInjective
  <2>3. Cardinality(1..count) <= Cardinality(Nodes)
    BY <2>2, ListAssumption, FS_Injection
  <2>4. count \in Nat /\ Cardinality(1..count) = count
    BY <1>1, FS_Interval DEF IInv, VarsOK, LinksOK
  <2>5. Cardinality(Nodes) \in Nat
    BY ListAssumption, FS_CardinalityType
  <2> QED
    BY <2>3, <2>4, <2>5
<1>2. IInv => TypeOK
  BY <1>1 DEF IInv, VarsOK, LinksOK, TypeOK
<1> QED
  BY <1>2, IInvAlways, PTL

\* Head, tail, count and the links of both directions are one list of exactly
\* the nodes whose is_on_list is up and the one that is being taken off, for
\* any number of nodes, whatever pushes, pops, scans and drops come together.
THEOREM ListIsIntact == Spec => []ListIntact
BY IInvAlways, PTL DEF IInv

\* Every node on the list is there, and so is the one that a pop is taking off
\* unless its owner gives up.
THEOREM ListLinkedAlive == Spec => []LinkedAlive
BY IInvAlways, PTL DEF IInv

\* Where nobody gives up, as in lock() and Barrier::wait(), no pop is torn.
THEOREM ListNeverTorn == Patient = Nodes => (Spec => []~Torn)
<1> SUFFICES ASSUME Patient = Nodes PROVE Spec => []~Torn
  OBVIOUS
<1>1. IInv => ~Torn
  BY DEF IInv, VarsOK, LinkedAlive, Torn
<1> QED
  BY <1>1, IInvAlways, PTL

\* The unwrap() of scan() and the debug_assert!s of the pops hold.
THEOREM ListDataPresent == Spec => []DataPresent
BY IInvAlways, PTL DEF IInv

\* scan() goes on from a node that is on the list, whatever its closure has
\* removed.
THEOREM ListScanSafe == Spec => []ScanSafe
BY IInvAlways, PTL DEF IInv

\* A push of a new node never reports DirtyNode, although remove_node leaves
\* the links of the nodes it removes as they are.
THEOREM ListNoDirtyPush == Spec => []NoDirtyPush
BY IInvAlways, PTL DEF IInv
-----------------------------------------------------------------------------
(* The list implements AbstractList                                        *)

\* A sequence of c nodes without its k-th.
Without(q, k, c) == [j \in 1..(c - 1) |-> IF j < k THEN q[j] ELSE q[j + 1]]

LEMMA Length ==
  ASSUME NEW c \in Nat, NEW q \in [1..c -> Nodes]
  PROVE  q \in Seq(Nodes) /\ Len(q) = c /\ DOMAIN q = 1..c
OBVIOUS

LEMMA UnlinkIs ==
  ASSUME NEW c \in Nat, NEW q \in [1..c -> Nodes], NEW k \in 1..c,
         \A i, j \in 1..c : q[i] = q[j] => i = j
  PROVE  Queue!Unlink(q, q[k]) = Without(q, k, c)
<1>1. Len(q) = c /\ DOMAIN q = 1..c
  BY Length
<1>2. (CHOOSE i \in DOMAIN q : q[i] = q[k]) = k
  BY <1>1
<1> QED
  BY <1>1, <1>2 DEF Queue!Unlink, Without

\* What the ends of the list look like as a sequence.
LEMMA AtTheFront ==
  ASSUME NEW c \in Nat, NEW q \in [1..c -> Nodes], NEW n \in Nodes,
         NEW r \in [1..c + 1 -> Nodes], r[1] = n, \A i \in 1..c : r[i + 1] = q[i]
  PROVE  r = <<n>> \o q
<1>1. <<n>> \in Seq(Nodes) /\ Len(<<n>>) = 1 /\ q \in Seq(Nodes) /\ Len(q) = c
  BY Length
<1>2. /\ <<n>> \o q \in Seq(Nodes) /\ Len(<<n>> \o q) = c + 1
      /\ \A i \in 1..c + 1 :
           (<<n>> \o q)[i] = IF i <= 1 THEN <<n>>[i] ELSE q[i - 1]
  BY <1>1, ConcatProperties
<1>3. ASSUME NEW i \in 1..c + 1 PROVE r[i] = (<<n>> \o q)[i]
  <2>1. CASE i = 1
    BY <1>2, <2>1
  <2>2. CASE i # 1
    <3>1. i - 1 \in 1..c /\ i = i - 1 + 1 /\ ~(i <= 1)
      BY <2>2
    <3> QED
      BY <1>2, <3>1
  <2> QED
    BY <2>1, <2>2
<1>4. r \in Seq(Nodes) /\ Len(r) = c + 1
  BY Length
<1> QED
  BY <1>2, <1>3, <1>4, SeqEqual

LEMMA AtTheBack ==
  ASSUME NEW c \in Nat, NEW q \in [1..c -> Nodes], NEW n \in Nodes,
         NEW r \in [1..c + 1 -> Nodes], r[c + 1] = n, \A i \in 1..c : r[i] = q[i]
  PROVE  r = Append(q, n)
<1>1. q \in Seq(Nodes) /\ Len(q) = c
  BY Length
<1>2. /\ Append(q, n) \in Seq(Nodes) /\ Len(Append(q, n)) = c + 1
      /\ \A i \in 1..c : Append(q, n)[i] = q[i]
      /\ Append(q, n)[c + 1] = n
  BY <1>1, AppendProperties
<1>3. ASSUME NEW i \in 1..c + 1 PROVE r[i] = Append(q, n)[i]
  BY <1>2
<1>4. r \in Seq(Nodes) /\ Len(r) = c + 1
  BY Length
<1> QED
  BY <1>2, <1>3, <1>4, SeqEqual

LEMMA WithoutEnds ==
  ASSUME NEW c \in Nat \ {0}, NEW q \in [1..c -> Nodes]
  PROVE  /\ q # <<>> /\ Head(q) = q[1]
         /\ Without(q, 1, c) = Tail(q)
         /\ Without(q, c, c) = SubSeq(q, 1, Len(q) - 1)
<1>1. q \in Seq(Nodes) /\ Len(q) = c
  BY Length
<1>2. q # <<>> /\ Head(q) = q[1]
  BY <1>1
<1>3. Without(q, 1, c) = Tail(q)
  <2>1. /\ Tail(q) \in Seq(Nodes) /\ Len(Tail(q)) = c - 1
        /\ \A i \in 1..c - 1 : Tail(q)[i] = q[i + 1]
    BY <1>1, <1>2, HeadTailProperties
  <2>2. /\ Without(q, 1, c) \in [1..c - 1 -> Nodes]
        /\ \A i \in 1..c - 1 : Without(q, 1, c)[i] = q[i + 1]
    BY DEF Without
  <2>3. Without(q, 1, c) \in Seq(Nodes) /\ Len(Without(q, 1, c)) = c - 1
    BY <2>2, Length
  <2> QED
    BY <2>1, <2>2, <2>3, SeqEqual
<1>4. Without(q, c, c) = SubSeq(q, 1, Len(q) - 1)
  BY <1>1 DEF Without
<1> QED
  BY <1>2, <1>3, <1>4

\* The links nx lead from each of the c nodes of q to the one behind it.
Follows(q, c, nx) == \A i \in 1..c : i # c => nx[q[i]] = q[i + 1]

\* The links from the head on leave no choice: there is one order.
LEMMA OneOrder ==
  ASSUME NEW c \in Nat, NEW q \in [1..c -> Nodes], NEW r \in [1..c -> Nodes],
         NEW nx,
         c # 0 => q[1] = r[1],
         Follows(q, c, nx), Follows(r, c, nx)
  PROVE  q = r
<1> DEFINE D == {i \in 1..c : q[i] # r[i]}
<1>1. SUFFICES ASSUME D # {} PROVE FALSE
  OBVIOUS
<1>2. D \subseteq Nat
  OBVIOUS
<1>3. PICK x \in D : \A y \in D : ~(<<y, x>> \in OpToRel(<, Nat))
  <2> HIDE DEF D
  <2> QED
    BY <1>1, <1>2, NatLessThanWellFounded, WFMin
<1>4. x # 1
  OBVIOUS
<1>5. x - 1 \in 1..c /\ x - 1 # c /\ x - 1 + 1 = x /\ x - 1 < x /\ x - 1 \in Nat /\ x \in Nat
  BY <1>4
<1>6. x - 1 \notin D
  BY <1>3, <1>5 DEF OpToRel
<1> QED
  BY <1>5, <1>6 DEF Follows

\* So Listing is the order that the invariant speaks of, now and after a step.
LEMMA ListingIs ==
  /\ \A q \in [1..count -> Nodes] : VarsOK /\ Order(q) => Listing = q
  /\ \A q \in [1..count' -> Nodes] : VarsOK' /\ Order(q)' => Listing' = q
<1>1. ASSUME NEW q \in [1..count -> Nodes], VarsOK, Order(q)
      PROVE  Listing = q
  <2>1. ASSUME NEW r \in [1..count -> Nodes], Order(r) PROVE q = r
    <3>1. count \in Nat
      BY <1>1 DEF VarsOK, LinksOK
    <3>2. count # 0 => q[1] = r[1]
      BY <1>1, <2>1 DEF Order
    <3>3. Follows(q, count, next) /\ Follows(r, count, next)
      BY <1>1, <2>1 DEF Order, Follows
    <3> QED
      BY <3>1, <3>2, <3>3, OneOrder
  <2> QED
    BY <1>1, <2>1 DEF Listing
<1>2. ASSUME NEW q \in [1..count' -> Nodes], VarsOK', Order(q)'
      PROVE  Listing' = q
  <2>1. ASSUME NEW r \in [1..count' -> Nodes], Order(r)' PROVE q = r
    <3>1. count' \in Nat
      BY <1>2 DEF VarsOK, LinksOK
    <3>2. count' # 0 => q[1] = r[1]
      BY <1>2, <2>1 DEF Order
    <3>3. Follows(q, count', next') /\ Follows(r, count', next')
      BY <1>2, <2>1 DEF Order, Follows
    <3> QED
      BY <3>1, <3>2, <3>3, OneOrder
  <2> QED
    BY <1>2, <2>1 DEF Listing
<1> QED
  BY <1>1, <1>2

\* The sequence is that order without the node that is being taken off.
LEMMA ItemsIs ==
  ASSUME NEW q \in [1..count -> Nodes], VarsOK, Order(q)
  PROVE  /\ victim = Null => Items = q
         /\ \A k \in 1..count : victim = q[k] => Items = Without(q, k, count)
<1>1. Listing = q /\ count \in Nat
  BY ListingIs DEF VarsOK, LinksOK
<1>2. ASSUME NEW k \in 1..count, victim = q[k]
      PROVE  Items = Without(q, k, count)
  <2>1. victim # Null /\ \A i, j \in 1..count : q[i] = q[j] => i = j
    BY <1>2, ListAssumption DEF Order
  <2>2. Queue!Unlink(q, q[k]) = Without(q, k, count)
    BY <1>1, <2>1, UnlinkIs
  <2> QED
    BY <1>1, <1>2, <2>1, <2>2 DEF Items
<1> QED
  BY <1>1, <1>2 DEF Items

LEMMA ItemsNext ==
  ASSUME NEW q \in [1..count' -> Nodes], VarsOK', Order(q)'
  PROVE  /\ victim' = Null => Items' = q
         /\ \A k \in 1..count' : victim' = q[k] => Items' = Without(q, k, count')
<1>1. Listing' = q /\ count' \in Nat
  BY ListingIs DEF VarsOK, LinksOK
<1>2. ASSUME NEW k \in 1..count', victim' = q[k]
      PROVE  Items' = Without(q, k, count')
  <2>1. victim' # Null /\ \A i, j \in 1..count' : q[i] = q[j] => i = j
    BY <1>2, ListAssumption DEF Order
  <2>2. Queue!Unlink(q, q[k]) = Without(q, k, count')
    BY <1>1, <2>1, UnlinkIs
  <2> QED
    BY <1>1, <1>2, <2>1, <2>2 DEF Items
<1> QED
  BY <1>1, <1>2 DEF Items

\* What a step leaves alone of the list, it leaves alone of the sequence.
LEMMA ItemsSame ==
  ASSUME IInv, IInv', UNCHANGED <<head, tail, count, victim>>, OnList' = OnList,
         \A n \in OnList : next'[n] = next[n] /\ prev'[n] = prev[n]
  PROVE  UNCHANGED Items
<1>1. PICK q \in [1..count -> Nodes] : Order(q)
  BY DEF IInv, ListIntact
<1>2. Order(q)'
  BY <1>1, KeepOrder
<1>3. Listing = q /\ Listing' = q
  BY <1>1, <1>2, ListingIs DEF IInv
<1> QED
  BY <1>3 DEF Items

\* What is not on the list is not in the sequence.
LEMMA MembersOnList ==
  ASSUME IInv
  PROVE  Sequence!Members \subseteq OnList
<1> USE DEF IInv
<1>1. PICK q \in [1..count -> Nodes] : Order(q)
  BY DEF ListIntact
<1>2. count \in Nat /\ \A i \in 1..count : q[i] \in OnList
  BY <1>1 DEF VarsOK, LinksOK, Order
<1>3. CASE victim = Null
  <2>1. Items = q /\ DOMAIN Items = 1..count
    BY <1>1, <1>3, ItemsIs
  <2> QED
    BY <1>2, <2>1 DEF Sequence!Members
<1>4. CASE victim # Null
  <2>1. victim \in OnList
    BY <1>4 DEF OnList, VarsOK
  <2>2. PICK k \in 1..count : victim = q[k]
    BY <1>1, <2>1, Somewhere
  <2>3. Items = Without(q, k, count)
    BY <1>1, <2>2, ItemsIs
  <2>4. /\ DOMAIN Items = 1..(count - 1)
        /\ \A j \in 1..(count - 1) : Items[j] = (IF j < k THEN q[j] ELSE q[j + 1])
    BY <2>3 DEF Without
  <2>5. \A j \in 1..(count - 1) : j \in 1..count /\ j + 1 \in 1..count
    BY <1>2
  <2> QED
    BY <1>2, <2>4, <2>5 DEF Sequence!Members
<1> QED
  BY <1>3, <1>4
-----------------------------------------------------------------------------
(* One lemma for each kind of step                                         *)

LEMMA PushRefines ==
  ASSUME IInv, IInv', NEW n \in Nodes, PushHead(n) \/ PushTail(n)
  PROVE  Sequence!PushFront(n) \/ Sequence!PushBack(n)
<1> USE DEF IInv
<1>1. PICK q \in [1..count -> Nodes] : Order(q)
  BY DEF ListIntact
<1>2. Enter(n) /\ victim = Null /\ victim' = Null /\ op' = op
  BY DEF PushHead, PushTail, Enter, InOp
<1>3. n \notin OnList /\ next[n] = Null /\ prev[n] = Null
  BY <1>2, ListAssumption DEF Enter, LinkedAlive, OnList, Clean
<1>4. OnList' = OnList \cup {n}
  BY <1>2, <1>3 DEF Enter, OnList, VarsOK
<1>5. Items = q /\ count \in Nat /\ DOMAIN q = 1..count /\ UNCHANGED Given
  BY <1>1, <1>2, ItemsIs DEF VarsOK, LinksOK, Given
<1>6. n \notin There /\ There' = There \cup {n}
  BY <1>2 DEF Enter, There, VarsOK
<1>7. CASE PushHead(n)
  <2>1. PICK r \in [1..count' -> Nodes] :
          /\ Order(r)' /\ count' = count + 1
          /\ r[1] = n /\ \A i \in 1..count : r[i + 1] = q[i]
    BY <1>1, <1>3, <1>4, <1>7, PushHeadOrder
  <2>2. r = <<n>> \o q
    BY <1>5, <2>1, AtTheFront
  <2>3. Items' = r
    BY <1>2, <2>1, ItemsNext
  <2> QED
    BY <1>5, <1>6, <2>2, <2>3 DEF Sequence!PushFront
<1>8. CASE PushTail(n)
  <2>1. PICK r \in [1..count' -> Nodes] :
          /\ Order(r)' /\ count' = count + 1
          /\ r[count + 1] = n /\ \A i \in 1..count : r[i] = q[i]
    BY <1>1, <1>3, <1>4, <1>8, PushTailOrder
  <2>2. r = Append(q, n)
    BY <1>5, <2>1, AtTheBack
  <2>3. Items' = r
    BY <1>2, <2>1, ItemsNext
  <2> QED
    BY <1>5, <1>6, <2>2, <2>3 DEF Sequence!PushBack
<1> QED
  BY <1>7, <1>8

\* The swap of is_on_list takes the node out of the sequence, wherever it is.
LEMMA SwapRefines ==
  ASSUME IInv, IInv', NEW n \in Nodes, victim = Null, Swap(n)
  PROVE  /\ \E q \in [1..count -> Nodes], k \in 1..count :
              /\ Order(q) /\ n = q[k] /\ victim' = n
              /\ Items = q /\ Items' = Without(q, k, count)
         /\ UNCHANGED There
<1> USE DEF IInv
<1>1. PICK q \in [1..count -> Nodes] : Order(q)
  BY DEF ListIntact
<1>2. n \in OnList /\ victim' = n /\ count' = count
  BY DEF Swap, OnList, links
<1>3. PICK k \in 1..count : n = q[k]
  BY <1>1, <1>2, Somewhere
<1>4. OnList' = OnList
  BY SwapOrder
<1>5. Order(q)'
  BY <1>1, <1>4, KeepOrder DEF Swap, links
<1>6. Items = q
  BY <1>1, ItemsIs
<1>7. Items' = Without(q, k, count)
  BY <1>2, <1>3, <1>5, ItemsNext
<1>8. UNCHANGED There
  BY DEF Swap, There
<1> QED
  BY <1>1, <1>2, <1>3, <1>6, <1>7, <1>8

\* A node goes from the list for good: the sequence is the one without it.
LEMMA UnlinkRefines ==
  ASSUME IInv, IInv', NEW n \in OnList, Unlink(n), OnList' = OnList \ {n}, victim' = Null
  PROVE  \E q \in [1..count -> Nodes], k \in 1..count :
           Order(q) /\ n = q[k] /\ Items' = Without(q, k, count)
<1> USE DEF IInv
<1>1. PICK q \in [1..count -> Nodes] : Order(q)
  BY DEF ListIntact
<1>2. PICK k \in 1..count : n = q[k]
  BY <1>1, Somewhere
<1>3. PICK r \in [1..count' -> Nodes] :
        /\ Order(r)' /\ count' = count - 1
        /\ \A i \in 1..count - 1 :
             /\ i < k => r[i] = q[i]
             /\ i >= k => r[i] = q[i + 1]
  BY <1>1, <1>2, UnlinkOrder
<1>4. Items' = r
  BY <1>3, ItemsNext
<1>5. r = Without(q, k, count)
  <2>1. count \in Nat /\ k \in Nat
    BY DEF VarsOK, LinksOK
  <2>2. \A i \in 1..count - 1 : r[i] = (IF i < k THEN q[i] ELSE q[i + 1])
    BY <1>3, <2>1
  <2> QED
    BY <1>3, <2>2 DEF Without
<1> QED
  BY <1>1, <1>2, <1>4, <1>5

LEMMA PopRefines ==
  ASSUME IInv, IInv', PopHead \/ PopTail \/ PopAll
  PROVE  Sequence!TakeFront \/ Sequence!TakeBack
<1> USE DEF IInv
<1>1. victim = Null /\ Given = <<>>
  BY DEF PopHead, PopTail, PopAll, InOp, Given
<1>2. /\ head # Null => head \in Nodes
      /\ tail # Null => tail \in Nodes
  BY DEF VarsOK, LinksOK
<1>3. UNCHANGED There
  BY DEF PopHead, PopTail, PopAll, Swap, There
<1>4. CASE PopHead
  <2>1. PICK q \in [1..count -> Nodes], k \in 1..count :
          /\ Order(q) /\ head = q[k] /\ victim' = head
          /\ Items = q /\ Items' = Without(q, k, count)
    BY <1>1, <1>2, <1>4, SwapRefines DEF PopHead
  <2>2. count \in Nat \ {0} /\ 1 \in 1..count
    BY DEF VarsOK, LinksOK
  <2>3. k = 1 /\ head = q[1]
    BY <2>1, <2>2 DEF Order
  <2>4. Given' = <<"head", q[1]>>
    BY <1>2, <1>4, <2>1, <2>3, ListAssumption DEF PopHead, Given, ScanActions
  <2>5. q # <<>> /\ Head(q) = q[1] /\ Items' = Tail(q)
    BY <2>1, <2>2, <2>3, WithoutEnds
  <2> QED
    BY <1>1, <1>3, <2>1, <2>4, <2>5 DEF Sequence!TakeFront
<1>5. CASE PopTail \/ PopAll
  <2>1. PICK q \in [1..count -> Nodes], k \in 1..count :
          /\ Order(q) /\ tail = q[k] /\ victim' = tail
          /\ Items = q /\ Items' = Without(q, k, count)
    BY <1>1, <1>2, <1>5, SwapRefines DEF PopTail, PopAll
  <2>2. count \in Nat \ {0} /\ count \in 1..count /\ Len(q) = count
    BY Length DEF VarsOK, LinksOK
  <2>3. k = count /\ tail = q[count]
    BY <2>1, <2>2 DEF Order
  <2>4. Given' = <<"tail", q[Len(q)]>>
    BY <1>2, <1>5, <2>1, <2>2, <2>3, ListAssumption DEF PopTail, PopAll, Given, ScanActions
  <2>5. q # <<>> /\ Items' = SubSeq(q, 1, Len(q) - 1)
    BY <2>1, <2>2, <2>3, WithoutEnds
  <2> QED
    BY <1>1, <1>3, <2>1, <2>4, <2>5 DEF Sequence!TakeBack
<1> QED
  BY <1>4, <1>5

LEMMA ScanRemoveRefines ==
  ASSUME IInv, IInv', NEW a \in ScanActions, ScanRemove(a)
  PROVE  \E k \in DOMAIN Items : Sequence!TakeOut(k)
<1> USE DEF IInv
<1>1. cursor \in Nodes /\ cursor # Null /\ victim = Null /\ Swap(cursor) /\ op' = a
  BY DEF ScanRemove, VarsOK
<1>2. PICK q \in [1..count -> Nodes], k \in 1..count :
        cursor = q[k] /\ victim' = cursor /\ Items = q /\ Items' = Without(q, k, count)
  BY <1>1, SwapRefines
<1>3. UNCHANGED There
  BY <1>1, SwapRefines
<1>4. Given = <<>> /\ Given' = <<"scan", q[k]>>
  BY <1>1, <1>2 DEF ScanActions, Given, Pops
<1>5. Len(q) = count /\ DOMAIN q = 1..count
  BY Length DEF VarsOK, LinksOK
<1> QED
  BY <1>2, <1>3, <1>4, <1>5 DEF Sequence!TakeOut, Sequence!Without, Without

LEMMA FinishRefines ==
  ASSUME IInv, IInv', Finish
  PROVE  Sequence!Deliver
<1> USE DEF IInv
<1>1. /\ victim \in OnList /\ Unlink(victim) /\ victim # Null /\ victim' = Null
      /\ on_list' = on_list /\ ~on_list[victim]
  BY DEF Finish, VarsOK, OnList, InOp
<1>2. OnList' = OnList \ {victim}
  BY <1>1, ListAssumption DEF OnList
<1>3. PICK q \in [1..count -> Nodes], k \in 1..count :
        Order(q) /\ victim = q[k] /\ Items' = Without(q, k, count)
  BY <1>1, <1>2, UnlinkRefines
<1>4. UNCHANGED Items
  BY <1>3, ItemsIs
<1>5. UNCHANGED There
  BY DEF Finish, There, VarsOK
<1>6. Given' = <<>>
  BY <1>1 DEF Given
<1>7. Given # <<>>
  <2>1. op \in Pops \cup ScanActions
    BY <1>1 DEF InOp, VarsOK, ScanActions
  <2>2. Given \in {<<"head", victim>>, <<"tail", victim>>, <<"scan", victim>>}
    BY <1>1, <2>1 DEF Given, Pops
  <2>3. Len(Given) = 2
    BY <2>2
  <2> QED
    BY <2>3
<1> QED
  BY <1>4, <1>5, <1>6, <1>7 DEF Sequence!Deliver

LEMMA DropRemoveRefines ==
  ASSUME IInv, IInv', NEW n \in Nodes, DropRemove(n)
  PROVE  (\E k \in DOMAIN Items : Sequence!Withdraw(k)) \/ Sequence!Discard(n)
<1> USE DEF IInv
<1>1. victim = Null /\ victim' = Null /\ Given = <<>> /\ Given' = <<>>
  BY DEF DropRemove, InOp, Given
<1>2. There' = There \ {n}
  BY DEF DropRemove, There, VarsOK
<1>3. CASE on_list[n]
  <2>1. n \in OnList /\ Unlink(n) /\ on_list' = [on_list EXCEPT ![n] = FALSE]
    BY <1>3 DEF DropRemove, OnList
  <2>2. OnList' = OnList \ {n}
    BY <1>1, <2>1, ListAssumption DEF OnList, VarsOK
  <2>3. PICK q \in [1..count -> Nodes], k \in 1..count :
          Order(q) /\ n = q[k] /\ Items' = Without(q, k, count)
    BY <1>1, <2>1, <2>2, UnlinkRefines
  <2>4. Items = q /\ Len(q) = count /\ DOMAIN q = 1..count
    BY <1>1, <2>3, ItemsIs, Length DEF VarsOK, LinksOK
  <2> QED
    BY <1>1, <1>2, <2>3, <2>4 DEF Sequence!Withdraw, Sequence!Without, Without
<1>4. CASE ~on_list[n]
  <2>1. UNCHANGED <<links, on_list, victim>>
    BY <1>4 DEF DropRemove
  <2>2. UNCHANGED Items
    BY <2>1, ItemsSame DEF links, OnList
  <2>3. n \notin Sequence!Members
    BY <1>1, <1>4, MembersOnList, ListAssumption DEF OnList
  <2> QED
    BY <1>1, <1>2, <2>2, <2>3 DEF Sequence!Discard
<1> QED
  BY <1>3, <1>4

\* Steps that leave the list alone.
LEMMA QuietItems ==
  ASSUME IInv, IInv', ~Torn,
         \/ \E n \in Nodes : MakeNode(n) \/ DropNode(n)
         \/ Scan \/ ScanRetain \/ UNCHANGED vars
  PROVE  UNCHANGED <<Items, Given>>
<1> USE DEF IInv
<1>1. /\ UNCHANGED <<head, tail, count, victim>>
      /\ OnList' = OnList
      /\ \A n \in OnList : next'[n] = next[n] /\ prev'[n] = prev[n]
  <2>1. ASSUME NEW n \in Nodes, MakeNode(n) PROVE <1>1!:
    <3>1. n \notin OnList /\ ~on_list[n]
      BY <2>1, OnListLife DEF MakeNode, OnList
    <3> QED
      BY <2>1, <3>1 DEF MakeNode, OnList, VarsOK, LinksOK
  <2>2. ASSUME NEW n \in Nodes, DropNode(n) PROVE <1>1!:
    BY <2>2 DEF DropNode, links, OnList
  <2>3. CASE Scan \/ ScanRetain \/ UNCHANGED vars
    BY <2>3 DEF Scan, ScanRetain, vars, links, OnList
  <2> QED
    BY <2>1, <2>2, <2>3
<1>2. UNCHANGED Items
  BY <1>1, ItemsSame
<1>3. UNCHANGED Given
  <2>1. CASE UNCHANGED <<victim, op>>
    BY <2>1 DEF Given
  <2>2. CASE Scan \/ ScanRetain
    BY <2>2 DEF Scan, ScanRetain, Given, InOp
  <2> QED
    BY <2>1, <2>2 DEF MakeNode, DropNode, vars
<1> QED
  BY <1>2, <1>3

\* Steps that the sequence does not see.
LEMMA QuietRefines ==
  ASSUME IInv, IInv', ~Torn,
         (\E n \in Nodes : MakeNode(n)) \/ Scan \/ ScanRetain \/ UNCHANGED vars
  PROVE  UNCHANGED <<Items, Given, There>>
<1>1. UNCHANGED There
  BY DEF MakeNode, Scan, ScanRetain, vars, There, IInv, VarsOK
<1> QED
  BY <1>1, QuietItems

\* A node that is not on the list is dropped, unless a pop still uses it.
LEMMA DropNodeRefines ==
  ASSUME IInv, IInv', ~Torn, NEW n \in Nodes, DropNode(n)
  PROVE  Sequence!Discard(n) \/ UNCHANGED <<Items, Given, There>> \/ Torn'
<1> USE DEF IInv
<1>1. UNCHANGED <<Items, Given, victim>> /\ n # Null
  BY QuietItems, ListAssumption DEF DropNode
<1>2. CASE life[n] = "made" \/ on_list[n]
  <2>1. UNCHANGED There
    BY <1>2 DEF DropNode, Dropped, There, VarsOK, LinkedAlive
  <2> QED
    BY <1>1, <2>1
<1>3. CASE n = victim /\ ~on_list[n]
  BY <1>1, <1>3 DEF DropNode, Torn, VarsOK
<1>4. CASE life[n] # "made" /\ ~on_list[n] /\ n # victim
  <2>1. There' = There \ {n}
    BY <1>4 DEF DropNode, There, VarsOK
  <2>2. n \notin Sequence!Members
    BY <1>4, MembersOnList DEF OnList
  <2>3. Given # <<>> => Given[2] = victim
    BY DEF Given
  <2> QED
    BY <1>1, <1>4, <2>1, <2>2, <2>3 DEF Sequence!Discard
<1> QED
  BY <1>2, <1>3, <1>4

LEMMA StepRefines ==
  ASSUME IInv, [Next]_vars
  PROVE  [Sequence!AbsNext \/ Torn']_<<Items, Given, There>>
<1> DEFINE Refines == [Sequence!AbsNext \/ Torn']_<<Items, Given, There>>
<1>1. IInv'
  BY StepIInv
<1>2. ASSUME NEW n \in Nodes, PushHead(n) \/ PushTail(n) PROVE Refines
  BY <1>1, <1>2, PushRefines DEF Sequence!AbsNext
<1>3. ASSUME PopHead \/ PopTail \/ PopAll PROVE Refines
  BY <1>1, <1>3, PopRefines DEF Sequence!AbsNext
<1>4. ASSUME NEW a \in ScanActions, ScanRemove(a) PROVE Refines
  BY <1>1, <1>4, ScanRemoveRefines DEF Sequence!AbsNext
<1>5. ASSUME Finish PROVE Refines
  BY <1>1, <1>5, FinishRefines DEF Sequence!AbsNext
<1>6. ASSUME NEW n \in Nodes, DropRemove(n) PROVE Refines
  BY <1>1, <1>6, DropRemoveRefines DEF Sequence!AbsNext
<1>7. ASSUME ~Torn, (\E n \in Nodes : MakeNode(n)) \/ Scan \/ ScanRetain PROVE Refines
  BY <1>1, <1>7, QuietRefines
<1>8. ASSUME ~Torn, NEW n \in Nodes, DropNode(n) PROVE Refines
  BY <1>1, <1>8, DropNodeRefines DEF Sequence!AbsNext
<1>9. ASSUME UNCHANGED vars PROVE Refines
  <2>1. UNCHANGED <<Items, Given>>
    BY <1>9 DEF vars, links, Items, Listing, Order, OnList, Given
  <2> QED
    BY <1>9, <2>1 DEF vars, There
<1> QED
  BY <1>2, <1>3, <1>4, <1>5, <1>6, <1>7, <1>8, <1>9 DEF Next, Locked, Undefined

LEMMA InitRefines ==
  ASSUME Init
  PROVE  Sequence!AbsInit
<1>1. IInv /\ victim = Null /\ count = 0
  BY InitIInv DEF Init
<1>2. PICK q \in [1..count -> Nodes] : Order(q)
  BY <1>1 DEF IInv, ListIntact
<1>3. Items = q /\ Len(q) = 0 /\ q \in Seq(Nodes)
  BY <1>1, <1>2, ItemsIs, Length DEF IInv
<1>4. q = <<>>
  BY <1>3
<1>5. Given = <<>> /\ There = {}
  BY <1>1 DEF Init, Given, There
<1> QED
  BY <1>3, <1>4, <1>5 DEF Sequence!AbsInit

\* Until a pop is torn, the pointers implement a sequence, for any number of
\* nodes: every push adds at its end, every pop takes the node at the end it was
\* asked for, a drop or a scan takes its node from the middle and the others
\* keep their order.
THEOREM ListRefinement == Spec => Implements
<1>1. Init => Sequence!AbsInit
  BY InitRefines
<1>2. IInv /\ [Next]_vars => [Sequence!AbsNext \/ Torn']_<<Items, Given, There>>
  BY StepRefines
<1>3. Spec => []IInv
  BY IInvAlways
<1> QED
  BY <1>1, <1>2, <1>3, PTL DEF Spec, Implements, Sequence!absVars
=============================================================================
