--------------------------- MODULE IntrusiveList ----------------------------
(***************************************************************************)
(* ConcurrentIntrusiveList at the level of its pointers: a doubly linked   *)
(* list, under a MiniLock, of nodes that live in the frames (or futures)   *)
(* of the threads that wait.  A node is its address: it is made, pushed at *)
(* most once and dropped, and the address is used again.                   *)
(*                                                                         *)
(* Of an operation under the list lock the others see only is_on_list, and *)
(* only in Node::drop: a push and the removal by a drop are one action     *)
(* each, a pop is two, the swap of is_on_list and the rest.  with_lock is  *)
(* a sequence of operations that nobody interrupts, so it adds nothing; a  *)
(* push whose condition aborts it, an operation on an empty list and       *)
(* count() change nothing.  What the closures do is up to RawMutex and     *)
(* Barrier, except that the closure of a pop wakes the owner of the node.  *)
(*                                                                         *)
(* An owner that gives up (a timeout, a future that is dropped or polled   *)
(* again) may drop its node in the middle of a pop, which then reads       *)
(* memory that is free.  The model shows this state (Torn) and ends there. *)
(***************************************************************************)
EXTENDS Naturals, Sequences, FiniteSets

CONSTANTS Nodes,    \* the addresses of nodes
          Null,     \* not an address
          Patient   \* those whose owners do not give up: they stay until
                    \* they have been woken, in lock() and Barrier::wait()

ASSUME ListAssumption ==
  /\ IsFiniteSet(Nodes)
  /\ Null \notin Nodes
  /\ Patient \subseteq Nodes

VARIABLES head, tail, count,     \* IntrusiveList
          next, prev, listed,    \* Node::next, prev; Node::list is not null
          data,                  \* Node::data is Some
          on_list,               \* Node::is_on_list
          life,                  \* what has become of the node: pushed, its
                                 \* owner woken by a pop, its drop begun
          op,                    \* the operation that holds the list lock
          victim,                \* the node it is taking off the list
          cursor                 \* current_node of scan()

links == <<head, tail, count, next, prev>>
vars == <<links, listed, data, on_list, life, op, victim, cursor>>

Pops == {"pop_head", "pop_tail", "pop_all"}

TypeOK ==
  /\ head \in Nodes \cup {Null} /\ tail \in Nodes \cup {Null}
  /\ count \in 0..Cardinality(Nodes)
  /\ next \in [Nodes -> Nodes \cup {Null}] /\ prev \in [Nodes -> Nodes \cup {Null}]
  /\ listed \in [Nodes -> BOOLEAN]
  /\ data \in [Nodes -> BOOLEAN]
  /\ on_list \in [Nodes -> BOOLEAN]
  /\ life \in [Nodes -> {"none", "made", "pushed", "woken", "dropping"}]
  /\ op \in Pops \cup {"none", "scan", "stop"}
  /\ victim \in Nodes \cup {Null}
  /\ cursor \in Nodes \cup {Null}

Init ==
  /\ head = Null /\ tail = Null /\ count = 0
  /\ next = [n \in Nodes |-> Null] /\ prev = [n \in Nodes |-> Null]
  /\ listed = [n \in Nodes |-> FALSE]
  /\ data = [n \in Nodes |-> FALSE]
  /\ on_list = [n \in Nodes |-> FALSE]
  /\ life = [n \in Nodes |-> "none"]
  /\ op = "none"
  /\ victim = Null
  /\ cursor = Null
-----------------------------------------------------------------------------
(* Nodes and pushes                                                        *)

\* make_node, and the pin! that gives the node its address.
MakeNode(n) ==
  /\ life[n] = "none"
  /\ life' = [life EXCEPT ![n] = "made"]
  /\ next' = [next EXCEPT ![n] = Null] /\ prev' = [prev EXCEPT ![n] = Null]
  /\ listed' = [listed EXCEPT ![n] = FALSE]
  /\ data' = [data EXCEPT ![n] = TRUE]
  /\ on_list' = [on_list EXCEPT ![n] = FALSE]
  /\ UNCHANGED <<head, tail, count, op, victim, cursor>>

\* Anything else is answered with DirtyNode.
Clean(n) == ~on_list[n] /\ prev[n] = Null /\ next[n] = Null /\ ~listed[n]

\* What the two pushes have in common.
Enter(n) ==
  /\ op = "none" /\ life[n] = "made" /\ data[n] /\ Clean(n)
  /\ life' = [life EXCEPT ![n] = "pushed"]
  /\ on_list' = [on_list EXCEPT ![n] = TRUE]
  /\ listed' = [listed EXCEPT ![n] = TRUE]
  /\ count' = count + 1
  /\ UNCHANGED <<data, op, victim, cursor>>

\* Mutant of PushHead: the old head does not learn of the new one.
PushHeadOneWay(n) ==
  /\ Enter(n)
  /\ head' = n
  /\ tail' = IF head = Null THEN n ELSE tail
  /\ next' = [next EXCEPT ![n] = head]
  /\ UNCHANGED prev

\* push_head: with its condition satisfied.
PushHead(n) ==
  /\ Enter(n)
  /\ head' = n
  /\ IF head = Null
       THEN tail' = n /\ UNCHANGED <<next, prev>>
       ELSE /\ next' = [next EXCEPT ![n] = head]
            /\ prev' = [prev EXCEPT ![head] = n]
            /\ UNCHANGED tail

\* Mutant of PushTail: the node goes before the tail.
PushTailBefore(n) ==
  /\ Enter(n)
  /\ IF tail = Null
       THEN head' = n /\ tail' = n /\ UNCHANGED <<next, prev>>
       ELSE /\ next' = [m \in Nodes |-> IF m = n THEN tail ELSE IF m = prev[tail] THEN n ELSE next[m]]
            /\ prev' = [prev EXCEPT ![tail] = n, ![n] = prev[tail]]
            /\ head' = IF head = tail THEN n ELSE head
            /\ UNCHANGED tail

PushTail(n) ==
  /\ Enter(n)
  /\ tail' = n
  /\ IF tail = Null
       THEN head' = n /\ UNCHANGED <<next, prev>>
       ELSE /\ prev' = [prev EXCEPT ![n] = tail]
            /\ next' = [next EXCEPT ![tail] = n]
            /\ UNCHANGED head
-----------------------------------------------------------------------------
(* remove_node, after the swap.  The node keeps its own links.             *)

UnlinkOnly(n) ==
  /\ head = n /\ tail = n
  /\ head' = Null /\ tail' = Null
  /\ UNCHANGED <<next, prev>>

UnlinkHead(n) ==
  /\ head = n /\ tail # n
  /\ head' = next[n]
  /\ prev' = [prev EXCEPT ![next[n]] = Null]
  /\ UNCHANGED <<tail, next>>

UnlinkTail(n) ==
  /\ head # n /\ tail = n
  /\ tail' = prev[n]
  /\ next' = [next EXCEPT ![prev[n]] = Null]
  /\ UNCHANGED <<head, prev>>

\* Mutant of UnlinkMiddle: only the forward link is mended.
UnlinkMiddleForward(n) ==
  /\ head # n /\ tail # n
  /\ next' = [next EXCEPT ![prev[n]] = next[n]]
  /\ UNCHANGED <<head, tail, prev>>

UnlinkMiddle(n) ==
  /\ head # n /\ tail # n
  /\ next' = [next EXCEPT ![prev[n]] = next[n]]
  /\ prev' = [prev EXCEPT ![next[n]] = prev[n]]
  /\ UNCHANGED <<head, tail>>

Unlink(n) ==
  /\ UnlinkOnly(n) \/ UnlinkHead(n) \/ UnlinkTail(n) \/ UnlinkMiddle(n)
  /\ count' = count - 1
-----------------------------------------------------------------------------
(* pop_head, pop_tail, pop_all and scan                                    *)

\* Mutant of Swap: the Waker is used before the node is unlinked.
SwapWakes(n) ==
  /\ on_list[n]
  /\ on_list' = [on_list EXCEPT ![n] = FALSE]
  /\ victim' = n
  /\ life' = [life EXCEPT ![n] = "woken"]
  /\ UNCHANGED <<links, listed>>

\* The swap in remove_node of a node that is on the list.
Swap(n) ==
  /\ on_list[n]
  /\ on_list' = [on_list EXCEPT ![n] = FALSE]
  /\ victim' = n
  /\ UNCHANGED <<links, listed, life>>

PopHead ==
  /\ op = "none" /\ head # Null
  /\ Swap(head)
  /\ op' = "pop_head"
  /\ UNCHANGED <<data, cursor>>

PopTail ==
  /\ op = "none" /\ tail # Null
  /\ Swap(tail)
  /\ op' = "pop_tail"
  /\ UNCHANGED <<data, cursor>>

\* Each round of pop_all, the list lock in hand from the first one on.
PopAll ==
  /\ op = "none" \/ (op = "pop_all" /\ victim = Null)
  /\ tail # Null
  /\ Swap(tail)
  /\ op' = "pop_all"
  /\ UNCHANGED <<data, cursor>>

\* scan() of a list that is not empty.
Scan ==
  /\ op = "none" /\ count # 0
  /\ op' = "scan"
  /\ cursor' = head
  /\ UNCHANGED <<links, listed, data, on_list, life, victim>>

\* What scan() does after its closure: Continue or Stop.
ScanActions == {"scan", "stop"}

\* (Retain, a): the next node was read before the closure ran.
ScanRetain ==
  /\ op = "scan" /\ victim = Null /\ cursor # Null
  /\ \/ /\ cursor' = next[cursor]
        /\ op' = IF next[cursor] = Null THEN "none" ELSE "scan"
     \/ cursor' = Null /\ op' = "none"
  /\ UNCHANGED <<links, listed, data, on_list, life, victim>>

\* Mutant of ScanRemove: the next node is not read in advance.
ScanRemoveStays(a) ==
  /\ op = "scan" /\ victim = Null /\ cursor # Null
  /\ data' = [data EXCEPT ![cursor] = FALSE]
  /\ Swap(cursor)
  /\ op' = a
  /\ cursor' = IF a = "stop" THEN Null ELSE cursor

\* Mutant of ScanRemove: the data is dropped and the node is not removed.
ScanRemoveDataOnly(a) ==
  /\ op = "scan" /\ victim = Null /\ cursor # Null
  /\ data' = [data EXCEPT ![cursor] = FALSE]
  /\ cursor' = IF a = "stop" THEN Null ELSE next[cursor]
  /\ op' = IF cursor' = Null THEN "none" ELSE "scan"
  /\ UNCHANGED <<links, listed, on_list, life, victim>>

\* (Remove, a): the data is dropped, then the node is removed.
ScanRemove(a) ==
  /\ op = "scan" /\ victim = Null /\ cursor # Null
  /\ data' = [data EXCEPT ![cursor] = FALSE]
  /\ Swap(cursor)
  /\ op' = a
  /\ cursor' = IF a = "stop" THEN Null ELSE next[cursor]

\* The rest of the removal, which reads the links of the node; a pop then takes
\* the data, and its closure wakes the owner.  What scan() has removed is woken
\* by whoever called it (nobody does).
Finish ==
  /\ victim # Null
  /\ Unlink(victim)
  /\ data' = [data EXCEPT ![victim] = FALSE]
  /\ victim' = Null
  /\ op' = IF \/ op = "pop_all" /\ tail' # Null
              \/ op = "scan" /\ cursor # Null
             THEN op ELSE "none"
  /\ life' = [life EXCEPT ![victim] = IF @ = "pushed" THEN "woken" ELSE @]
  /\ UNCHANGED <<listed, on_list, cursor>>
-----------------------------------------------------------------------------
(* Node::drop                                                              *)

\* The node's frame or future ends: after an aborted push, once its owner has
\* been woken, or at any time if it gives up.
Dropped(n) == life[n] \in {"made", "woken"} \/ (life[n] = "pushed" /\ n \notin Patient)

\* Mutant of DropNode: is_on_list is not looked at.
DropNodeBlind(n) ==
  /\ Dropped(n)
  /\ life' = [life EXCEPT ![n] = "none"]
  /\ UNCHANGED <<links, listed, data, on_list, op, victim, cursor>>

\* The load of is_on_list, without the list lock.  If it is down the memory
\* is free at once.
DropNode(n) ==
  /\ Dropped(n)
  /\ life' = [life EXCEPT ![n] = IF on_list[n] THEN "dropping" ELSE "none"]
  /\ UNCHANGED <<links, listed, data, on_list, op, victim, cursor>>

\* Mutant of DropRemove: the node is unlinked even if it has been popped.
DropRemoveAgain(n) ==
  /\ life[n] = "dropping" /\ op = "none"
  /\ life' = [life EXCEPT ![n] = "none"]
  /\ on_list' = [on_list EXCEPT ![n] = FALSE]
  /\ Unlink(n)
  /\ UNCHANGED <<listed, data, op, victim, cursor>>

\* Mutant of DropRemove: the memory goes while the node is linked.
DropRemoveNot(n) ==
  /\ life[n] = "dropping" /\ op = "none"
  /\ life' = [life EXCEPT ![n] = "none"]
  /\ UNCHANGED <<links, listed, data, on_list, op, victim, cursor>>

\* It was up: remove_node under the list lock, unless somebody has popped the
\* node in the meantime.
DropRemove(n) ==
  /\ life[n] = "dropping" /\ op = "none"
  /\ life' = [life EXCEPT ![n] = "none"]
  /\ IF on_list[n]
       THEN on_list' = [on_list EXCEPT ![n] = FALSE] /\ Unlink(n)
       ELSE UNCHANGED <<links, on_list>>
  /\ UNCHANGED <<listed, data, op, victim, cursor>>
-----------------------------------------------------------------------------
Locked ==
  \/ PopHead \/ PopTail \/ PopAll
  \/ Scan \/ ScanRetain \/ \E a \in ScanActions : ScanRemove(a)
  \/ Finish

\* A node has been dropped between the swap of its is_on_list and the rest of
\* its removal.
Torn == victim # Null /\ life[victim] = "none"

\* What the rest of the removal then does is undefined, and so is all that
\* follows.
Undefined == Torn /\ UNCHANGED vars

Next ==
  \/ ~Torn /\ \E n \in Nodes :
       MakeNode(n) \/ PushHead(n) \/ PushTail(n) \/ DropNode(n) \/ DropRemove(n)
  \/ ~Torn /\ Locked
  \/ Undefined

Spec == Init /\ [][Next]_vars
-----------------------------------------------------------------------------
\* The nodes between head and tail: those whose is_on_list is up, and the one
\* that is on its way out.
OnList == {n \in Nodes : on_list[n] \/ n = victim}

\* q is the list from head to tail, in both directions.
Order(q) ==
  /\ \A i, j \in 1..count : q[i] = q[j] => i = j
  /\ OnList = {q[i] : i \in 1..count}
  /\ head = (IF count = 0 THEN Null ELSE q[1])
  /\ tail = (IF count = 0 THEN Null ELSE q[count])
  /\ \A i \in 1..count :
       /\ next[q[i]] = (IF i = count THEN Null ELSE q[i + 1])
       /\ prev[q[i]] = (IF i = 1 THEN Null ELSE q[i - 1])

\* Head, tail, count and the links describe one list, the same from either
\* end, of exactly the nodes that think they are on it: a drop, which trusts
\* is_on_list, never unlinks a node that is not there nor forgets one that is.
ListIntact == \E q \in [1..count -> Nodes] : Order(q)

\* A node is there while it is on the list, whoever gives up; and so is the
\* one that a pop is taking off, unless its owner gives up.
LinkedAlive ==
  /\ \A n \in OnList : listed[n]
  /\ \A n \in Nodes : on_list[n] => life[n] \in {"pushed", "dropping"}
  /\ victim \in Patient => life[victim] # "none"

\* A node on the list has its data, so the unwrap() of scan() and the
\* debug_assert!s of the pops hold, and so has one that is still to be pushed.
DataPresent ==
  \A n \in Nodes :
    on_list[n] \/ life[n] = "made" \/ (n = victim /\ op \in Pops) => data[n]

\* scan() goes on from a node that is still on the list, also when the node
\* before it has been removed.
ScanSafe == cursor # Null => op = "scan" /\ on_list[cursor] /\ cursor # victim

\* No push reports DirtyNode: nothing that goes on in the list writes to a
\* node that is not on it, whatever its address has been used for before.
NoDirtyPush == \A n \in Nodes : life[n] = "made" => Clean(n)
-----------------------------------------------------------------------------
(* The list implements AbstractList.                                       *)

Listing == CHOOSE q \in [1..count -> Nodes] : Order(q)

Queue == INSTANCE WaitQueues

Items == IF victim = Null THEN Listing ELSE Queue!Unlink(Listing, victim)

Given ==
  CASE victim # Null /\ op = "pop_head" -> <<"head", victim>>
    [] victim # Null /\ op \in {"pop_tail", "pop_all"} -> <<"tail", victim>>
    [] victim # Null /\ op \in ScanActions -> <<"scan", victim>>
    [] OTHER -> <<>>

There == {n \in Nodes : life[n] \in {"pushed", "woken", "dropping"}}

Sequence ==
  INSTANCE AbstractList WITH items <- Items, given <- Given, there <- There, None <- <<>>

\* Until a pop is torn, every step is a step of a sequence: pushes add at their
\* end, pops take from theirs, and a drop or a scan takes out its node and
\* nothing else.
Implements == Sequence!AbsInit /\ [][Sequence!AbsNext \/ Torn']_(Sequence!absVars)
=============================================================================
