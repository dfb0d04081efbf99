---------------------------- MODULE AbstractList ----------------------------
(***************************************************************************)
(* What the intrusive list promises to RawMutex and Barrier: a sequence of *)
(* nodes that grows at its ends, hands out the node at the end it was      *)
(* asked for, and lets any node withdraw without disturbing the others.    *)
(*                                                                         *)
(* What their owners owe it: a node is pushed once, and the one that       *)
(* somebody is taking off the list is not dropped before he has its data.  *)
(***************************************************************************)
EXTENDS Sequences, Naturals

CONSTANTS Nodes, None

VARIABLES items,  \* the nodes on the list, from the head to the tail
          given,  \* how somebody takes a node off the list, and which; or None
          there   \* the nodes that have been pushed and not dropped

absVars == <<items, given, there>>

AbsInit == items = <<>> /\ given = None /\ there = {}

Members == {items[i] : i \in DOMAIN items}

\* The owner of a node that is not there, so not on the list, pushes it.
PushFront(n) ==
  /\ n \notin there
  /\ items' = <<n>> \o items /\ there' = there \cup {n}
  /\ UNCHANGED given

PushBack(n) ==
  /\ n \notin there
  /\ items' = Append(items, n) /\ there' = there \cup {n}
  /\ UNCHANGED given

\* The sequence without the node at i; the others keep their order.
Without(i) == [j \in 1..(Len(items) - 1) |-> IF j < i THEN items[j] ELSE items[j + 1]]

\* A pop takes the node at its end, a scan takes any ...
TakeFront ==
  /\ given = None /\ items # <<>>
  /\ items' = Tail(items) /\ given' = <<"head", Head(items)>>
  /\ UNCHANGED there

TakeBack ==
  /\ given = None /\ items # <<>>
  /\ items' = SubSeq(items, 1, Len(items) - 1)
  /\ given' = <<"tail", items[Len(items)]>>
  /\ UNCHANGED there

TakeOut(i) ==
  /\ given = None
  /\ items' = Without(i) /\ given' = <<"scan", items[i]>>
  /\ UNCHANGED there

\* ... and has its data.
Deliver == given # None /\ given' = None /\ UNCHANGED <<items, there>>

\* The owner drops a node that is on the list: it leaves from wherever it is.
Withdraw(i) ==
  /\ items' = Without(i) /\ there' = there \ {items[i]}
  /\ UNCHANGED given

\* The owner drops a node that is not: nobody is taking it off.
Discard(n) ==
  /\ n \notin Members
  /\ given # None => given[2] # n
  /\ there' = there \ {n}
  /\ UNCHANGED <<items, given>>

AbsNext ==
  \/ \E n \in Nodes : PushFront(n) \/ PushBack(n) \/ Discard(n)
  \/ TakeFront \/ TakeBack \/ Deliver
  \/ \E i \in DOMAIN items : TakeOut(i) \/ Withdraw(i)
=============================================================================
