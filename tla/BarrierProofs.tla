--------------------------- MODULE BarrierProofs ----------------------------
(* Safety of Barrier for any number of threads and tasks and for every     *)
(* target.                                                                 *)
EXTENDS Barrier, WaitQueueProofs, SequenceTheorems

OnList == {c \in Callers : on_list[c]}

\* The list holds exactly the nodes that think they are on it.
QueueShape ==
  /\ Lists(queue, OnList, Callers)
  /\ \A c \in Callers : on_list[c] => pc[c] \in {"park", "replace", "remove"}

\* Who leads holds the list lock, and has popped a Waker before he wakes.
Leading ==
  /\ \A c \in Callers : pc[c] \in Leaders <=> list_lock = c
  /\ popped # Null <=> \E c \in Callers : pc[c] \in {"take", "wake"}

\* The next to come finds the list no longer than target - 1.
Room ==
  /\ \A c \in Callers : pc[c] # "idle" => target > 0
  /\ target > 0 => Len(queue) < target

\* Only tasks poll.
Polls == \A c \in Callers : pc[c] \in {"replace", "remove", "renew"} => c \in Tasks

\* For threads, and for tasks as long as no poll or drop has overlooked a
\* release: flags are up only for those that were popped and woken, and whoever
\* is parked is queued, about to be woken, or woken.
CalmFor(c) ==
  /\ flag[c] => ~on_list[c] /\ pc[c] # "enter" /\ popped # c
  /\ popped = c => ~on_list[c] /\ pc[c] \in {"park", "replace", "remove", "renew"}
  /\ pc[c] = "park" => on_list[c] \/ flag[c] \/ popped = c

Calm == \A c \in Callers : c \in Threads \/ ~raced => CalmFor(c)

\* TypeOK without the length of the list, which follows from its shape.
VarsOK ==
  /\ target \in Nat /\ target \in Targets
  /\ list_lock \in Callers \cup {Null}
  /\ on_list \in [Callers -> BOOLEAN]
  /\ flag \in [Callers -> BOOLEAN]
  /\ scheduled \subseteq Tasks
  /\ popped \in Callers \cup {Null}
  /\ goal \in [Callers -> {"idle", "renew"}]
  /\ pc \in [Callers -> Locations]
  /\ raced \in BOOLEAN

IInv == VarsOK /\ QueueShape /\ Leading /\ Room /\ Polls /\ Calm

LEMMA CallersFinite == IsFiniteSet(Callers) /\ Null \notin Callers /\ Tasks \subseteq Callers
BY BarrierAssumption, FS_Union DEF Callers

LEMMA Initially == Init => IInv
<1> SUFFICES ASSUME Init PROVE IInv
  OBVIOUS
<1>1. VarsOK
  BY BarrierAssumption DEF Init, VarsOK, Locations
<1>2. Lists(<<>>, {}, Callers) /\ OnList = {}
  BY DEF Lists, Init, OnList
<1>3. QueueShape
  BY <1>2 DEF Init, QueueShape
<1>4. Leading /\ Room /\ Polls /\ Calm
  BY CallersFinite, <1>1 DEF Init, Leading, Leaders, Room, Polls, Calm, CalmFor, VarsOK
<1> QED
  BY <1>1, <1>3, <1>4 DEF IInv
-----------------------------------------------------------------------------
\* Every step keeps the types.
LEMMA VarsStep == IInv /\ [Next]_vars => VarsOK'
<1> SUFFICES ASSUME IInv, [Next]_vars PROVE VarsOK'
  OBVIOUS
<1>v. VarsOK
  BY DEF IInv
<1> USE CallersFinite
<1> USE DEF VarsOK, Locations, Goto
<1> USE <1>v
<1>1. ASSUME NEW c \in Callers, Come(c) PROVE VarsOK'
  BY <1>1 DEF Come
<1>2. ASSUME NEW c \in Callers, Lead(c) PROVE VarsOK'
  BY <1>2 DEF Lead
<1>3. ASSUME NEW c \in Callers, Queue(c) PROVE VarsOK'
  BY <1>3 DEF Queue
<1>4. ASSUME NEW c \in Callers, Pop(c) PROVE VarsOK'
  <2>1. Head(queue) \in Callers
    BY <1>4, ListsTail DEF Pop, IInv, QueueShape
  <2> QED
    BY <1>4, <2>1 DEF Pop
<1>5. ASSUME NEW c \in Callers, Wake(c) PROVE VarsOK'
  <2>1. scheduled' \subseteq Tasks
    BY <1>5 DEF Wake
  <2> QED
    BY <1>5, <2>1 DEF Wake
<1>6. ASSUME NEW c \in Callers, TakeData(c) \/ Drained(c) PROVE VarsOK'
  BY <1>6 DEF TakeData, Drained
<1>7. ASSUME NEW c \in Callers, Unpark(c) PROVE VarsOK'
  BY <1>7 DEF Unpark
<1>8. ASSUME NEW c \in Callers, PollCheck(c) PROVE VarsOK'
  BY <1>8 DEF PollCheck, DropNode
<1>9. ASSUME NEW c \in Callers, Replace(c) PROVE VarsOK'
  BY <1>9 DEF Replace, DropNode
<1>10. ASSUME NEW c \in Callers, Cancel(c) PROVE VarsOK'
  BY <1>10 DEF Cancel, DropNode
<1>11. ASSUME NEW c \in Callers, RemoveNode(c) PROVE VarsOK'
  BY <1>11 DEF RemoveNode
<1>12. ASSUME NEW c \in Callers, NewParker(c) PROVE VarsOK'
  BY <1>12 DEF NewParker
<1>13. ASSUME UNCHANGED vars PROVE VarsOK'
  BY <1>13 DEF vars
<1> QED
  BY <1>1, <1>2, <1>3, <1>4, <1>5, <1>6, <1>7, <1>8, <1>9, <1>10, <1>11, <1>12, <1>13
  DEF Next, Step, Undefined
-----------------------------------------------------------------------------
\* Every step keeps the list in shape.
LEMMA ShapeStep == IInv /\ [Next]_vars => QueueShape'
<1> SUFFICES ASSUME IInv, [Next]_vars PROVE QueueShape'
  OBVIOUS
<1>v. VarsOK /\ QueueShape
  BY DEF IInv
<1>f. ASSUME UNCHANGED <<queue, on_list>>, NEW c \in Callers,
             \A d \in Callers \ {c} : pc'[d] = pc[d],
             on_list[c] => pc'[c] \in {"park", "replace", "remove"}
      PROVE  QueueShape'
  BY <1>f, <1>v DEF QueueShape, OnList
<1>1. ASSUME NEW c \in Callers,
             \/ Come(c) \/ Lead(c) \/ TakeData(c) \/ Wake(c) \/ Drained(c)
             \/ NewParker(c)
      PROVE  QueueShape'
  <2>1. /\ UNCHANGED <<queue, on_list>> /\ ~on_list[c]
        /\ \A d \in Callers \ {c} : pc'[d] = pc[d]
    BY <1>1, <1>v
    DEF Come, Lead, TakeData, Wake, Drained, NewParker, Goto, VarsOK, QueueShape
  <2> QED
    BY <2>1, <1>f
<1>2. ASSUME NEW c \in Callers, Queue(c) PROVE QueueShape'
  <2>1. c \notin OnList /\ OnList' = OnList \cup {c}
    BY <1>2, <1>v DEF Queue, OnList, VarsOK, QueueShape
  <2>2. Lists(queue', OnList', Callers)
    BY <1>2, <1>v, <2>1, ListsPush DEF Queue, QueueShape
  <2>3. \A d \in Callers : pc'[d] = IF d = c THEN "park" ELSE pc[d]
    BY <1>2, <1>v DEF Queue, Goto, VarsOK
  <2>4. \A d \in Callers : on_list'[d] => d = c \/ on_list[d]
    BY <1>2, <1>v DEF Queue, VarsOK
  <2> QED
    BY <1>v, <2>2, <2>3, <2>4 DEF QueueShape
<1>3. ASSUME NEW c \in Callers, Pop(c) PROVE QueueShape'
  <2>1. /\ Head(queue) \in Callers /\ Head(queue) \in OnList
        /\ Lists(Tail(queue), OnList \ {Head(queue)}, Callers)
    BY <1>3, <1>v, ListsTail DEF Pop, QueueShape
  <2>2. /\ OnList' = OnList \ {Head(queue)} /\ queue' = Tail(queue)
        /\ \A d \in Callers : on_list'[d] => on_list[d]
    BY <1>3, <1>v, <2>1 DEF Pop, OnList, VarsOK
  <2>3. ~on_list[c] /\ \A d \in Callers \ {c} : pc'[d] = pc[d]
    BY <1>3, <1>v DEF Pop, Goto, VarsOK, QueueShape
  <2> QED
    BY <1>v, <2>1, <2>2, <2>3 DEF QueueShape
<1>4. ASSUME NEW c \in Callers, Unpark(c) PROVE QueueShape'
  <2>1. ~on_list[c]
    BY <1>4 DEF Unpark, IInv, Calm, CalmFor
  <2>2. UNCHANGED <<queue, on_list>> /\ \A d \in Callers \ {c} : pc'[d] = pc[d]
    BY <1>4, <1>v DEF Unpark, Goto, VarsOK
  <2> QED
    BY <2>1, <2>2, <1>f
<1>5. ASSUME NEW c \in Callers, RemoveNode(c) PROVE QueueShape'
  <2>1. OnList' = OnList \ {c}
    BY <1>5, <1>v DEF RemoveNode, OnList, VarsOK
  <2>2. Lists(queue', OnList \ {c}, Callers)
    <3>1. CASE on_list[c]
      BY <3>1, <1>5, <1>v, ListsUnlink DEF RemoveNode, QueueShape, OnList
    <3>2. CASE ~on_list[c]
      <4>1. queue' = queue /\ OnList \ {c} = OnList
        BY <3>2, <1>5 DEF RemoveNode, OnList
      <4> QED
        BY <4>1, <1>v DEF QueueShape
    <3> QED
      BY <3>1, <3>2
  <2>3. \A d \in Callers : on_list'[d] => on_list[d] /\ pc'[d] = pc[d]
    BY <1>5, <1>v DEF RemoveNode, Goto, VarsOK
  <2> QED
    BY <1>v, <2>1, <2>2, <2>3 DEF QueueShape
<1>6. ASSUME NEW c \in Callers, PollCheck(c) \/ Replace(c) \/ Cancel(c)
      PROVE  QueueShape'
  <2>1. /\ UNCHANGED <<queue, on_list>>
        /\ \A d \in Callers \ {c} : pc'[d] = pc[d]
        /\ on_list[c] => pc'[c] \in {"remove", "replace"}
    BY <1>6, <1>v DEF PollCheck, Replace, Cancel, DropNode, Goto, VarsOK
  <2> QED
    BY <2>1, <1>f
<1>7. ASSUME UNCHANGED vars PROVE QueueShape'
  BY <1>7, <1>v DEF vars, QueueShape, OnList
<1> QED
  BY <1>1, <1>2, <1>3, <1>4, <1>5, <1>6, <1>7 DEF Next, Step, Undefined

\* Every step leaves the one who drains the list alone with it.
LEMMA LeadingStep == IInv /\ [Next]_vars => Leading' /\ Room' /\ Polls'
<1> SUFFICES ASSUME IInv, [Next]_vars PROVE Leading' /\ Room' /\ Polls'
  OBVIOUS
<1>v. VarsOK /\ Leading /\ Room /\ Polls
  BY DEF IInv
<1>q. Lists(queue, OnList, Callers) /\ Len(queue) \in Nat /\ queue \in Seq(Callers)
  BY DEF IInv, QueueShape, Lists
<1>t. Threads \cap Tasks = {}
  BY BarrierAssumption
<1> USE CallersFinite
<1> USE DEF VarsOK, Leading, Leaders, Room, Polls, Goto
<1> USE <1>v
<1>1. ASSUME NEW c \in Callers, Come(c) PROVE Leading' /\ Room' /\ Polls'
  BY <1>1 DEF Come
<1>2. ASSUME NEW c \in Callers, Lead(c) PROVE Leading' /\ Room' /\ Polls'
  BY <1>2 DEF Lead
<1>3. ASSUME NEW c \in Callers, Queue(c) PROVE Leading' /\ Room' /\ Polls'
  <2>1. Leading' /\ Polls'
    BY <1>3 DEF Queue
  <2>2. Len(queue') = Len(queue) + 1
    BY <1>3, <1>q, ConcatProperties DEF Queue
  <2>3. Room'
    BY <1>3, <1>q, <2>2 DEF Queue
  <2> QED
    BY <2>1, <2>3
<1>4. ASSUME NEW c \in Callers, Pop(c) PROVE Leading' /\ Room' /\ Polls'
  <2>1. Head(queue) \in Callers
    BY <1>4, <1>q, ListsTail DEF Pop
  <2>2. Leading' /\ Polls'
    BY <1>4, <2>1 DEF Pop
  <2>3. Len(queue') = Len(queue) - 1
    BY <1>4, <1>q DEF Pop
  <2>4. Room'
    BY <1>4, <1>q, <2>3 DEF Pop
  <2> QED
    BY <2>2, <2>4
<1>5. ASSUME NEW c \in Callers, Wake(c) PROVE Leading' /\ Room' /\ Polls'
  BY <1>5 DEF Wake
<1>6. ASSUME NEW c \in Callers, TakeData(c) \/ Drained(c) PROVE Leading' /\ Room' /\ Polls'
  BY <1>6 DEF TakeData, Drained
<1>7. ASSUME NEW c \in Callers, Unpark(c) PROVE Leading' /\ Room' /\ Polls'
  BY <1>7 DEF Unpark
<1>8. ASSUME NEW c \in Callers, PollCheck(c) PROVE Leading' /\ Room' /\ Polls'
  BY <1>8 DEF PollCheck, DropNode
<1>9. ASSUME NEW c \in Callers, Replace(c) PROVE Leading' /\ Room' /\ Polls'
  BY <1>9 DEF Replace, DropNode
<1>10. ASSUME NEW c \in Callers, Cancel(c) PROVE Leading' /\ Room' /\ Polls'
  BY <1>10 DEF Cancel, DropNode
<1>11. ASSUME NEW c \in Callers, RemoveNode(c) PROVE Leading' /\ Room' /\ Polls'
  <2>1. Leading' /\ Polls' /\ target' = target
    BY <1>11 DEF RemoveNode
  <2>2. Len(queue') <= Len(queue) /\ Len(queue') \in Nat
    <3>1. CASE on_list[c]
      <4>1. queue' = Unlink(queue, c) /\ c \in OnList
        BY <3>1, <1>11 DEF RemoveNode, OnList
      <4> QED
        BY <4>1, <1>q, UnlinkLen
    <3>2. CASE ~on_list[c]
      BY <3>2, <1>11, <1>q DEF RemoveNode
    <3> QED
      BY <3>1, <3>2
  <2>3. Room'
    BY <1>11, <1>q, <2>1, <2>2 DEF RemoveNode
  <2> QED
    BY <2>1, <2>3
<1>12. ASSUME NEW c \in Callers, NewParker(c) PROVE Leading' /\ Room' /\ Polls'
  BY <1>12 DEF NewParker
<1>13. ASSUME UNCHANGED vars PROVE Leading' /\ Room' /\ Polls'
  BY <1>13 DEF vars
<1> QED
  BY <1>1, <1>2, <1>3, <1>4, <1>5, <1>6, <1>7, <1>8, <1>9, <1>10, <1>11, <1>12, <1>13
  DEF Next, Step, Undefined

\* Every step keeps the flags right.
LEMMA CalmStep == IInv /\ [Next]_vars => Calm'
<1> SUFFICES ASSUME IInv, [Next]_vars PROVE Calm'
  OBVIOUS
<1>v. VarsOK /\ Leading /\ Polls /\ Calm
  BY DEF IInv
<1>l. \A c \in Callers : on_list[c] => pc[c] \in {"park", "replace", "remove"}
  BY DEF IInv, QueueShape
<1>q. Lists(queue, OnList, Callers)
  BY DEF IInv, QueueShape
<1>t. Threads \cap Tasks = {}
  BY BarrierAssumption
<1> USE CallersFinite, <1>t
<1> USE DEF VarsOK, Leading, Leaders, Polls, Calm, CalmFor, Goto
<1> USE <1>v
<1>1. ASSUME NEW c \in Callers, Come(c) PROVE Calm'
  BY <1>1, <1>l DEF Come
<1>2. ASSUME NEW c \in Callers, Lead(c) PROVE Calm'
  BY <1>2 DEF Lead
<1>3. ASSUME NEW c \in Callers, Queue(c) PROVE Calm'
  BY <1>3 DEF Queue
<1>4. ASSUME NEW c \in Callers, Pop(c) PROVE Calm'
  <2>1. Head(queue) \in Callers /\ Head(queue) \in OnList
    BY <1>4, <1>q, ListsTail DEF Pop
  <2>2. popped = Null /\ pc[c] = "drain"
    BY <1>4 DEF Pop
  <2>3. Head(queue) # c /\ pc[Head(queue)] \in {"park", "replace", "remove"}
    BY <2>1, <2>2, <1>l DEF OnList
  <2> QED
    BY <1>4, <2>1, <2>2, <2>3 DEF Pop, OnList
<1>5. ASSUME NEW c \in Callers, Wake(c) PROVE Calm'
  BY <1>5 DEF Wake
<1>6. ASSUME NEW c \in Callers, TakeData(c) \/ Drained(c) PROVE Calm'
  BY <1>6 DEF TakeData, Drained
<1>7. ASSUME NEW c \in Callers, Unpark(c) PROVE Calm'
  BY <1>7 DEF Unpark
<1>8. ASSUME NEW c \in Callers, PollCheck(c) PROVE Calm'
  BY <1>8 DEF PollCheck, DropNode
<1>9. ASSUME NEW c \in Callers, Replace(c) PROVE Calm'
  BY <1>9 DEF Replace, DropNode
<1>10. ASSUME NEW c \in Callers, Cancel(c) PROVE Calm'
  BY <1>10 DEF Cancel, DropNode
<1>11. ASSUME NEW c \in Callers, RemoveNode(c) PROVE Calm'
  <2>1. popped = Null
    BY <1>11 DEF RemoveNode
  <2> QED
    BY <1>11, <2>1 DEF RemoveNode
<1>12. ASSUME NEW c \in Callers, NewParker(c) PROVE Calm'
  BY <1>12, <1>l DEF NewParker
<1>13. ASSUME UNCHANGED vars PROVE Calm'
  BY <1>13 DEF vars
<1> QED
  BY <1>1, <1>2, <1>3, <1>4, <1>5, <1>6, <1>7, <1>8, <1>9, <1>10, <1>11, <1>12, <1>13
  DEF Next, Step, Undefined

LEMMA Inductive == IInv /\ [Next]_vars => IInv'
BY VarsStep, ShapeStep, LeadingStep, CalmStep DEF IInv

LEMMA Invariant == Spec => []IInv
BY Initially, Inductive, PTL DEF Spec
-----------------------------------------------------------------------------
\* Every variable of Barrier keeps its type.
THEOREM BarrierTypeCorrect == Spec => []TypeOK
<1>1. IInv => TypeOK
  BY CallersFinite, ListsBound DEF IInv, VarsOK, QueueShape, TypeOK
<1> QED
  BY <1>1, Invariant, PTL

\* lock_inner: the list never grows to the point where == target - 1 would be
\* missed, and holds exactly the nodes that think they are on it, as long as no
\* pop is torn.
THEOREM BarrierQueueBounded == Spec => []QueueBounded
<1>1. IInv => QueueBounded
  <2> SUFFICES ASSUME IInv PROVE QueueBounded
    OBVIOUS
  <2>1. Lists(queue, OnList, Callers) /\ DOMAIN queue = 1..Len(queue)
    BY DEF IInv, QueueShape, Lists
  <2>2. queue # <<>> => Len(queue) < target
    <3> SUFFICES ASSUME queue # <<>> PROVE Len(queue) < target
      OBVIOUS
    <3>1. Head(queue) \in Callers /\ Head(queue) \in OnList
      BY <2>1, ListsTail
    <3>2. target > 0
      BY <3>1 DEF IInv, QueueShape, OnList, Room
    <3> QED
      BY <3>2 DEF IInv, Room
  <2>3. \A c \in Callers : c \in OnList <=> on_list[c]
    BY DEF OnList
  <2> QED
    BY <2>1, <2>2, <2>3 DEF QueueBounded, Lists
<1> QED
  BY <1>1, Invariant, PTL

\* Waker::wake in the loop of the leader: the Parker it writes to is there and
\* its flag is down; and no pop of a thread is torn.
THEOREM BarrierWakeTarget == Spec => []WakeTargetAlive
<1>1. IInv => WakeTargetAlive
  BY CallersFinite, BarrierAssumption
  DEF IInv, VarsOK, Leading, Calm, CalmFor, Polls, Callers, WakeTargetAlive, Torn, HasNode
<1> QED
  BY <1>1, Invariant, PTL

\* Where only threads wait, no pop is torn.
THEOREM BarrierNeverTorn == Tasks = {} => (Spec => []~Torn)
<1> SUFFICES ASSUME Tasks = {} PROVE Spec => []~Torn
  OBVIOUS
<1>1. WakeTargetAlive => ~Torn
  BY DEF WakeTargetAlive
<1> QED
  BY <1>1, BarrierWakeTarget, PTL

\* While nobody drains the list, whoever is parked is queued or has been woken;
\* threads always, tasks until a poll or a drop has overlooked a release.
THEOREM BarrierNobodyForgotten == Spec => []NobodyForgotten
<1>1. IInv => NobodyForgotten
  BY CallersFinite DEF IInv, VarsOK, Leading, Calm, CalmFor, Callers, NobodyForgotten, Draining,
     Leaders
<1> QED
  BY <1>1, Invariant, PTL
-----------------------------------------------------------------------------
(* Barrier implements AbstractBarrier.                                     *)

LEMMA DrainingIs == IInv => (Draining <=> list_lock # Null)
BY CallersFinite DEF IInv, Leading, Leaders, Draining, VarsOK

LEMMA SameCardinality == \A S : Promise!Cardinality(S) = Cardinality(S)
BY Zenon DEF Promise!Cardinality, Cardinality

\* A step that the abstract barrier does not see.
LEMMA Unseen ==
  ASSUME target' = target, Draining' <=> Draining,
         ~Draining => \A d \in Callers : on_list'[d] <=> on_list[d],
         \A d \in Callers : Due(d)' <=> Due(d)
  PROVE  UNCHANGED Promise!absVars
<1>1. Released' = Released
  BY DEF Released
<1>2. Waiting' = Waiting
  BY DEF Waiting
<1> QED
  BY <1>1, <1>2 DEF Promise!absVars

\* A caller that was let go leaves.
LEMMA Leaves ==
  ASSUME NEW c \in Callers,
         target' = target, Draining' <=> Draining,
         \A d \in Callers : on_list'[d] <=> on_list[d],
         \A d \in Callers \ {c} : Due(d)' <=> Due(d),
         Due(c), ~Due(c)'
  PROVE  Promise!Leave(c)
<1>1. Released' = Released \ {c} /\ c \in Released
  BY DEF Released
<1>2. Waiting' = Waiting
  BY DEF Waiting
<1> QED
  BY <1>1, <1>2 DEF Promise!Leave

\* Until a release is overlooked every step is one of the abstract barrier.
LEMMA RefinementStep ==
  IInv /\ IInv' /\ [Next]_vars => [Promise!AbsNext \/ raced']_(Promise!absVars)
<1> SUFFICES ASSUME IInv, IInv', [Next]_vars, ~raced'
             PROVE  Promise!AbsNext \/ UNCHANGED Promise!absVars
  OBVIOUS
<1>v. VarsOK /\ Leading /\ Polls
  BY DEF IInv
<1>l. \A c \in Callers : on_list[c] => pc[c] \in {"park", "replace", "remove"}
  BY DEF IInv, QueueShape
<1>q. Lists(queue, OnList, Callers) /\ Cardinality(OnList) = Len(queue) /\ Len(queue) \in Nat
  <2>1. Lists(queue, OnList, Callers) /\ OnList \in SUBSET Callers
    BY DEF IInv, QueueShape, OnList
  <2>2. Len(queue) \in Nat
    BY <2>1 DEF Lists
  <2> QED
    BY <2>1, <2>2, ListsCard
<1>e. Draining <=> list_lock # Null
  BY DrainingIs
<1>f. Draining' <=> list_lock' # Null
  BY CallersFinite DEF IInv, Leading, Leaders, Draining, VarsOK
<1>d. (Draining <=> list_lock # Null) /\ (Draining' <=> list_lock' # Null)
  BY <1>e, <1>f
<1>c. ~raced /\ \A c \in Callers : CalmFor(c)
  BY <1>v DEF IInv, Calm, VarsOK, Next, Step, Undefined, Come, Lead, Queue, Pop, TakeData, Wake,
     Drained, Unpark, PollCheck, Replace, Cancel, RemoveNode, NewParker, vars
<1> USE CallersFinite, <1>d, <1>v
<1> USE DEF VarsOK, Leading, Leaders, CalmFor, Goto, Due
<1> HIDE DEF Draining
<1>1. ASSUME NEW c \in Callers, Come(c) PROVE UNCHANGED Promise!absVars
  BY <1>1, <1>l, <1>c, Unseen DEF Come
<1>2. ASSUME NEW c \in Callers, Lead(c) PROVE Promise!Trip(c)
  <2>1. /\ ~Draining /\ Draining' /\ UNCHANGED <<target, on_list, flag, popped>>
        /\ pc[c] = "enter" /\ pc'[c] = "drain" /\ \A d \in Callers \ {c} : pc'[d] = pc[d]
    BY <1>2 DEF Lead
  <2>2. Waiting = OnList /\ Waiting' = {}
    BY <2>1 DEF Waiting, OnList
  <2>3. \A d \in Callers : Due(d)' <=> Due(d) \/ d \in OnList
    BY <2>1, <1>l, <1>c DEF OnList
  <2>4. Released' = Released \cup Waiting
    BY <2>2, <2>3 DEF Released, OnList
  <2>5. c \notin Waiting \cup Released
    BY <2>1, <2>2, <1>l DEF Released, OnList
  <2>6. Cardinality(Waiting) + 1 = target
    BY <1>2, <1>q, <2>2 DEF Lead
  <2> QED
    BY <2>1, <2>2, <2>4, <2>5, <2>6, SameCardinality DEF Promise!Trip
<1>3. ASSUME NEW c \in Callers, Queue(c) PROVE Promise!Arrive(c)
  <2>1. /\ ~Draining /\ ~Draining' /\ UNCHANGED <<target, flag, popped>>
        /\ pc[c] = "enter" /\ pc'[c] = "park" /\ \A d \in Callers \ {c} : pc'[d] = pc[d]
        /\ \A d \in Callers : on_list'[d] <=> d = c \/ on_list[d]
    BY <1>3 DEF Queue
  <2>2. Waiting = OnList /\ Waiting' = Waiting \cup {c}
    BY <2>1 DEF Waiting, OnList
  <2>3. popped = Null
    BY <2>1
  <2>4. \A d \in Callers : Due(d)' <=> Due(d)
    BY <2>1, <2>3, <1>l, <1>c
  <2>5. Released' = Released
    BY <2>4 DEF Released
  <2>6. c \notin Waiting \cup Released
    BY <2>1, <2>2, <1>l DEF Released, OnList
  <2>7. target > 0 /\ Cardinality(Waiting) + 1 < target
    BY <1>3, <1>q, <2>1, <2>2 DEF Queue, IInv, Room
  <2> QED
    BY <2>1, <2>2, <2>5, <2>6, <2>7, SameCardinality DEF Promise!Arrive
<1>4. ASSUME NEW c \in Callers, Pop(c) PROVE UNCHANGED Promise!absVars
  <2>1. Head(queue) \in Callers /\ on_list[Head(queue)]
    <3>1. Head(queue) \in Callers /\ Head(queue) \in OnList
      BY <1>4, <1>q, ListsTail DEF Pop
    <3> QED
      BY <3>1 DEF OnList
  <2>2. Draining /\ Draining' /\ popped = Null
    BY <1>4 DEF Pop
  <2> QED
    BY <1>4, <2>1, <2>2, <1>l, Unseen DEF Pop
<1>5. ASSUME NEW c \in Callers, TakeData(c) \/ Wake(c) PROVE UNCHANGED Promise!absVars
  <2>1. Draining /\ Draining' /\ popped \in Callers
    BY <1>5 DEF TakeData, Wake
  <2>2. CASE TakeData(c)
    BY <2>1, <2>2, Unseen DEF TakeData
  <2>3. CASE Wake(c)
    BY <2>1, <2>3, <1>c, Unseen DEF Wake
  <2> QED
    BY <1>5, <2>2, <2>3
<1>6. ASSUME NEW c \in Callers, Drained(c) PROVE UNCHANGED Promise!absVars
  <2>1. \A d \in Callers : ~on_list[d]
    BY <1>6, <1>q DEF Drained, Lists, OnList
  <2>2. Draining /\ ~Draining' /\ popped = Null
    BY <1>6 DEF Drained
  <2>3. \A d \in Callers : Due(d)' <=> Due(d)
    BY <1>6, <2>1, <2>2 DEF Drained
  <2>4. Released' = Released
    BY <2>3 DEF Released
  <2>5. Waiting = {} /\ Waiting' = {}
    BY <1>6, <2>1, <2>2 DEF Waiting, Drained
  <2> QED
    BY <1>6, <2>4, <2>5 DEF Drained, Promise!absVars
<1>7. ASSUME NEW c \in Callers, Unpark(c) PROVE Promise!Leave(c)
  BY <1>7, <1>c, Leaves DEF Unpark
<1>8. ASSUME NEW c \in Callers, PollCheck(c)
      PROVE  Promise!Leave(c) \/ UNCHANGED Promise!absVars
  <2>1. CASE flag[c]
    BY <2>1, <1>8, <1>c, Leaves DEF PollCheck, DropNode
  <2>2. CASE ~flag[c]
    BY <2>2, <1>8, Unseen DEF PollCheck
  <2> QED
    BY <2>1, <2>2
<1>9. ASSUME NEW c \in Callers, Replace(c) PROVE UNCHANGED Promise!absVars
  BY <1>9, Unseen DEF Replace, DropNode
<1>10. ASSUME NEW c \in Callers, Cancel(c)
       PROVE  Promise!Leave(c) \/ UNCHANGED Promise!absVars
  <2>1. CASE on_list[c]
    BY <2>1, <1>10, Unseen DEF Cancel, DropNode
  <2>2. CASE ~on_list[c]
    <3>1. flag[c]
      BY <2>2, <1>10, <1>c DEF Cancel
    <3> QED
      BY <2>2, <3>1, <1>10, Leaves DEF Cancel, DropNode
  <2> QED
    BY <2>1, <2>2
<1>11. ASSUME NEW c \in Callers, RemoveNode(c)
       PROVE  \/ Promise!Withdraw(c) \/ Promise!Leave(c)
              \/ UNCHANGED Promise!absVars
  <2>1. /\ ~Draining /\ ~Draining' /\ popped = Null
        /\ UNCHANGED <<target, flag, popped>>
        /\ pc[c] = "remove" /\ pc'[c] \in {"idle", "renew"}
        /\ \A d \in Callers \ {c} : pc'[d] = pc[d]
        /\ \A d \in Callers : on_list'[d] <=> d # c /\ on_list[d]
    BY <1>11 DEF RemoveNode
  <2>2. CASE on_list[c]
    <3>1. Waiting' = Waiting \ {c} /\ c \in Waiting
      BY <2>1, <2>2 DEF Waiting
    <3>2. \A d \in Callers : Due(d)' <=> Due(d)
      BY <2>1, <2>2, <1>c
    <3>3. Released' = Released
      BY <3>2 DEF Released
    <3> QED
      BY <2>1, <3>1, <3>3 DEF Promise!Withdraw
  <2>3. CASE ~on_list[c] /\ flag[c] /\ pc'[c] = "idle"
    <3>1. \A d \in Callers : on_list'[d] <=> on_list[d]
      BY <2>1, <2>3
    <3> QED
      BY <2>1, <2>3, <3>1, Leaves
  <2>4. CASE ~on_list[c] /\ ~(flag[c] /\ pc'[c] = "idle")
    <3>1. \A d \in Callers : on_list'[d] <=> on_list[d]
      BY <2>1, <2>4
    <3> QED
      BY <2>1, <2>4, <3>1, Unseen
  <2> QED
    BY <2>2, <2>3, <2>4
<1>12. ASSUME NEW c \in Callers, NewParker(c) PROVE UNCHANGED Promise!absVars
  <2>1. ~flag[c] /\ popped # c
    BY <1>12 DEF NewParker
  <2> QED
    BY <1>12, <2>1, <1>l, Unseen DEF NewParker
<1>13. ASSUME UNCHANGED vars PROVE UNCHANGED Promise!absVars
  BY <1>13, Unseen DEF vars
<1> QED
  BY <1>1, <1>2, <1>3, <1>4, <1>5, <1>6, <1>7, <1>8, <1>9, <1>10, <1>11, <1>12, <1>13
  DEF Next, Step, Undefined, Promise!AbsNext

LEMMA MappedInit == Init => Promise!AbsInit
BY BarrierAssumption DEF Init, Promise!AbsInit, Waiting, Released, Due, Draining, Leaders

\* wait() and BarrierPoller: every step lets one caller arrive, trip the
\* barrier, leave or withdraw, or is invisible, until a poll or a drop has
\* overlooked a release or torn a pop.
THEOREM BarrierRefinement == Spec => Implements
BY MappedInit, Invariant, RefinementStep, PTL DEF Spec, Implements
-----------------------------------------------------------------------------
(* What Barrier asks of the layers below it                                *)

\* The list from its head, and the node that the leader is popping.
Given == IF \E c \in Callers : pc[c] = "take" THEN <<"head", popped>> ELSE <<>>

Sequence ==
  INSTANCE AbstractList
    WITH Nodes <- Callers, None <- <<>>, items <- queue, given <- Given, there <- HasNode

\* Who drops its node takes no other off the list, and if it is on its way off
\* the list, tears the pop.
LEMMA DropsNode ==
  ASSUME VarsOK, Lists(queue, OnList, Callers), NEW c \in Callers, ~on_list[c],
         UNCHANGED <<queue, popped>>, Given' = Given,
         HasNode' = HasNode \ {c}, popped # c \/ Given = <<>> \/ Torn'
  PROVE  Sequence!Discard(c) \/ Torn'
<1>1. c \notin Sequence!Members
  BY DEF Lists, OnList, Sequence!Members
<1>2. Given # <<>> => Given[2] = popped
  BY DEF Given
<1> QED
  BY <1>1, <1>2 DEF Sequence!Discard

LEMMA WithdrawsNode ==
  ASSUME VarsOK, Leading, Lists(queue, OnList, Callers), NEW c \in Callers, RemoveNode(c)
  PROVE  Sequence!AbsNext \/ Torn'
<1>1. /\ popped = Null /\ popped' = Null /\ Given = <<>> /\ Given' = <<>>
      /\ HasNode' = HasNode \ {c}
  <2>1. list_lock = Null /\ list_lock' = Null /\ popped' = popped
        /\ pc[c] = "remove" /\ pc'[c] \in {"idle", "renew"}
        /\ \A d \in Callers \ {c} : pc'[d] = pc[d]
    BY DEF RemoveNode, VarsOK, Goto
  <2>2. \A d \in Callers : pc[d] \notin Leaders
    BY <2>1, CallersFinite DEF Leading
  <2>3. \A d \in Callers : pc[d] \notin {"take", "wake"} /\ pc'[d] # "take"
    BY <2>1, <2>2 DEF Leaders
  <2> QED
    BY <2>1, <2>3 DEF Leading, Given, HasNode
<1>2. CASE ~on_list[c]
  <2>1. Sequence!Discard(c) \/ Torn'
    BY <1>1, <1>2, DropsNode DEF RemoveNode
  <2> QED
    BY <2>1 DEF Sequence!AbsNext
<1>3. CASE on_list[c]
  <2> DEFINE k == CHOOSE i \in DOMAIN queue : queue[i] = c
  <2>1. queue' = Sequence!Without(k)
    BY <1>3 DEF RemoveNode, Unlink, Sequence!Without
  <2>2. \E i \in DOMAIN queue : queue[i] = c
    BY <1>3 DEF Lists, OnList
  <2>3. k \in DOMAIN queue /\ queue[k] = c
    BY <2>2
  <2>4. Sequence!Withdraw(k)
    BY <1>1, <2>1, <2>3 DEF Sequence!Withdraw
  <2> QED
    BY <2>3, <2>4 DEF Sequence!AbsNext
<1> QED
  BY <1>2, <1>3

LEMMA UsesListStep ==
  IInv /\ [Next]_vars => [Sequence!AbsNext \/ Torn']_(Sequence!absVars)
<1> SUFFICES ASSUME IInv, [Next]_vars
             PROVE  Sequence!AbsNext \/ Torn' \/ UNCHANGED <<queue, Given, HasNode>>
  BY DEF Sequence!absVars
<1>v. VarsOK /\ Leading /\ Polls /\ Lists(queue, OnList, Callers)
  BY DEF IInv, QueueShape
<1>l. \A c \in Callers : on_list[c] => pc[c] \in {"park", "replace", "remove"}
  BY DEF IInv, QueueShape
<1>t. \A c \in Callers : pc[c] = "take" => list_lock = c
  BY <1>v DEF Leading, Leaders
<1>1. ASSUME NEW c \in Callers, Come(c) \/ Lead(c) \/ Drained(c) \/ NewParker(c)
      PROVE  UNCHANGED <<queue, Given, HasNode>>
  <2>1. /\ UNCHANGED <<queue, popped>>
        /\ pc[c] \notin {"park", "replace", "remove", "take"}
        /\ pc'[c] \notin {"park", "replace", "remove", "take"}
        /\ \A d \in Callers \ {c} : pc'[d] = pc[d]
    BY <1>1, <1>v DEF Come, Lead, Drained, NewParker, Goto, VarsOK
  <2> QED
    BY <2>1 DEF Given, HasNode
<1>2. ASSUME NEW c \in Callers, Queue(c) PROVE Sequence!PushFront(c)
  <2>1. /\ pc[c] = "enter" /\ pc'[c] = "park" /\ \A d \in Callers \ {c} : pc'[d] = pc[d]
        /\ UNCHANGED popped
    BY <1>2, <1>v DEF Queue, Goto, VarsOK
  <2>2. c \notin HasNode /\ HasNode' = HasNode \cup {c} /\ Given' = Given
    BY <2>1 DEF HasNode, Given
  <2> QED
    BY <1>2, <2>2 DEF Queue, Sequence!PushFront
<1>3. ASSUME NEW c \in Callers, Pop(c) PROVE Sequence!TakeFront
  <2>1. /\ pc[c] = "drain" /\ pc'[c] = "take" /\ \A d \in Callers \ {c} : pc'[d] = pc[d]
        /\ popped' = Head(queue)
    BY <1>3, <1>v DEF Pop, Goto, VarsOK
  <2>2. list_lock = c
    BY <2>1, <1>v DEF Leading, Leaders
  <2>3. \A d \in Callers : pc[d] # "take"
    BY <1>t, <2>1, <2>2
  <2>4. Given = <<>> /\ Given' = <<"head", Head(queue)>> /\ HasNode' = HasNode
    BY <2>1, <2>3 DEF Given, HasNode
  <2> QED
    BY <1>3, <2>4 DEF Pop, Sequence!TakeFront
<1>4. ASSUME NEW c \in Callers, TakeData(c) PROVE Sequence!Deliver
  <2>1. /\ pc[c] = "take" /\ pc'[c] = "wake" /\ \A d \in Callers \ {c} : pc'[d] = pc[d]
        /\ UNCHANGED queue
    BY <1>4, <1>v DEF TakeData, Goto, VarsOK
  <2>2. \A d \in Callers : pc'[d] # "take"
    BY <1>t, <2>1
  <2>3. Len(Given) = 2 /\ Given' = <<>> /\ HasNode' = HasNode
    BY <2>1, <2>2 DEF Given, HasNode
  <2> QED
    BY <2>1, <2>3 DEF Sequence!Deliver
<1>5. ASSUME NEW c \in Callers, Wake(c) PROVE UNCHANGED <<queue, Given, HasNode>>
  <2>1. /\ pc[c] = "wake" /\ pc'[c] = "drain" /\ \A d \in Callers \ {c} : pc'[d] = pc[d]
        /\ UNCHANGED queue
    BY <1>5, <1>v DEF Wake, Goto, VarsOK
  <2>2. list_lock = c
    BY <2>1, <1>v DEF Leading, Leaders
  <2>3. \A d \in Callers : pc[d] # "take" /\ pc'[d] # "take"
    BY <1>t, <2>1, <2>2
  <2> QED
    BY <2>1, <2>3 DEF Given, HasNode
<1>6. ASSUME NEW c \in Callers, RemoveNode(c) PROVE Sequence!AbsNext \/ Torn'
  BY <1>6, <1>v, WithdrawsNode
<1>7. ASSUME NEW c \in Callers, UNCHANGED <<queue, popped, on_list>>,
             pc[c] \in {"park", "replace"}, pc'[c] \notin Leaders \cup {"enter"},
             \A d \in Callers \ {c} : pc'[d] = pc[d],
             pc'[c] \in {"park", "replace", "remove"} \/ ~on_list[c]
      PROVE  Sequence!AbsNext \/ Torn' \/ UNCHANGED <<queue, Given, HasNode>>
  <2>1. Given' = Given
    BY <1>7 DEF Given, Leaders
  <2>2. CASE pc'[c] \in {"park", "replace", "remove"}
    BY <1>7, <2>1, <2>2 DEF HasNode
  <2>3. CASE pc'[c] \notin {"park", "replace", "remove"}
    <3>1. HasNode' = HasNode \ {c} /\ c \notin HasNode'
      BY <1>7, <2>3 DEF HasNode
    <3>2. popped # c \/ Given = <<>> \/ Torn'
      BY <1>7, <2>1, <3>1 DEF Given, Torn
    <3>3. Sequence!Discard(c) \/ Torn'
      BY <1>7, <1>v, <2>1, <2>3, <3>1, <3>2, DropsNode
    <3> QED
      BY <3>3 DEF Sequence!AbsNext
  <2> QED
    BY <2>2, <2>3
<1>8. ASSUME NEW c \in Callers, Unpark(c) \/ PollCheck(c) \/ Replace(c) \/ Cancel(c)
      PROVE  Sequence!AbsNext \/ Torn' \/ UNCHANGED <<queue, Given, HasNode>>
  <2>1. Unpark(c) => ~on_list[c]
    BY DEF Unpark, IInv, Calm, CalmFor
  <2>2. /\ UNCHANGED <<queue, popped, on_list>>
        /\ pc[c] \in {"park", "replace"} /\ pc'[c] \notin Leaders \cup {"enter"}
        /\ \A d \in Callers \ {c} : pc'[d] = pc[d]
        /\ pc'[c] \in {"park", "replace", "remove"} \/ ~on_list[c]
    BY <1>8, <1>v, <2>1
    DEF Unpark, PollCheck, Replace, Cancel, DropNode, Goto, VarsOK, Leaders
  <2> QED
    BY <1>7, <2>2
<1>9. CASE UNCHANGED vars
  BY <1>9 DEF vars, Given, HasNode
<1> QED
  BY <1>1, <1>2, <1>3, <1>4, <1>5, <1>6, <1>8, <1>9
  DEF Next, Step, Undefined, Sequence!AbsNext

\* lock_inner and BarrierPoller use their list as AbstractList asks them to,
\* until a task tears a pop: a node that is still there is never pushed, not
\* even when a task replaces it while the list is drained, one that a pop is
\* taking off is not dropped, and who leaves takes nobody else out.
THEOREM BarrierUsesList ==
  Spec => Sequence!AbsInit /\ [][Sequence!AbsNext \/ Torn']_(Sequence!absVars)
<1>1. Init => Sequence!AbsInit
  BY DEF Init, Sequence!AbsInit, Given, HasNode
<1> QED
  BY <1>1, UsesListStep, Invariant, PTL DEF Spec, Sequence!absVars

\* Threads alone use it so for ever.
THEOREM BarrierThreadsUseList ==
  Tasks = {} => (Spec => Sequence!AbsInit /\ [][Sequence!AbsNext]_(Sequence!absVars))
<1> SUFFICES ASSUME Tasks = {}
             PROVE  Spec => Sequence!AbsInit /\ [][Sequence!AbsNext]_(Sequence!absVars)
  OBVIOUS
<1>1. Spec => []~Torn
  BY BarrierNeverTorn
<1> QED
  BY <1>1, BarrierUsesList, PTL

\* What a thread is to its Parker.
Phase ==
  [t \in Threads |-> IF pc[t] # "park" THEN "running"
                     ELSE IF flag[t] THEN "woken" ELSE "asleep"]

Parkers == INSTANCE AbstractPark WITH Sleepers <- Threads, phase <- Phase

LEMMA ParkersStep == IInv /\ [Next]_vars => [Parkers!AbsNext]_Phase
<1> SUFFICES ASSUME IInv, [Next]_vars PROVE Parkers!AbsNext \/ UNCHANGED Phase
  OBVIOUS
<1>v. VarsOK /\ Leading /\ Polls
  BY DEF IInv
<1>c. \A t \in Threads : t \in Callers /\ CalmFor(t) /\ t \notin Tasks
  BY BarrierAssumption DEF IInv, Calm, Callers
<1>f. ASSUME NEW c \in Callers,
             \A t \in Threads \ {c} : pc'[t] = pc[t] /\ flag'[t] = flag[t],
             c \in Threads => pc[c] # "park" /\ pc'[c] # "park"
      PROVE  UNCHANGED Phase
  BY <1>f DEF Phase
<1> USE DEF VarsOK, Goto
<1> USE <1>v
<1>1. ASSUME NEW c \in Callers,
             \/ Come(c) \/ Lead(c) \/ Pop(c) \/ TakeData(c) \/ Drained(c)
             \/ NewParker(c)
      PROVE  UNCHANGED Phase
  <2>1. /\ \A t \in Threads \ {c} : pc'[t] = pc[t] /\ flag'[t] = flag[t]
        /\ pc[c] # "park" /\ pc'[c] # "park"
    BY <1>1, <1>c DEF Come, Lead, Pop, TakeData, Drained, NewParker
  <2> QED
    BY <2>1, <1>f
<1>2. ASSUME NEW c \in Callers, Replace(c) \/ RemoveNode(c) \/ PollCheck(c) \/ Cancel(c)
      PROVE  UNCHANGED Phase
  <2>1. /\ \A t \in Threads \ {c} : pc'[t] = pc[t] /\ flag'[t] = flag[t]
        /\ c \in Tasks
    BY <1>2, <1>c DEF Replace, RemoveNode, PollCheck, Cancel, DropNode, Polls
  <2> QED
    BY <2>1, <1>f, <1>c
<1>3. ASSUME NEW c \in Callers, Queue(c) PROVE Parkers!AbsNext \/ UNCHANGED Phase
  <2>1. CASE c \in Threads
    <3>1. ~flag[c]
      BY <1>3, <2>1, <1>c DEF Queue, CalmFor
    <3>2. Parkers!Sleep(c)
      BY <1>3, <2>1, <1>c, <3>1 DEF Queue, Phase, Parkers!Sleep
    <3> QED
      BY <2>1, <3>2 DEF Parkers!AbsNext
  <2>2. CASE c \notin Threads
    BY <1>3, <2>2, <1>c DEF Queue, Phase
  <2> QED
    BY <2>1, <2>2
<1>4. ASSUME NEW c \in Callers, Wake(c) PROVE Parkers!AbsNext \/ UNCHANGED Phase
  <2>1. popped \in Callers /\ pc[c] = "wake" /\ pc' = [pc EXCEPT ![c] = "drain"]
    BY <1>4 DEF Wake, Leading
  <2>2. CASE popped \in Threads
    <3>1. /\ ~flag[popped] /\ pc[popped] = "park" /\ flag' = [flag EXCEPT ![popped] = TRUE]
      BY <1>4, <2>2, <1>c DEF Wake, CalmFor, Polls
    <3>2. Parkers!Rouse(popped)
      BY <2>1, <2>2, <3>1, <1>c DEF Phase, Parkers!Rouse
    <3> QED
      BY <2>2, <3>2 DEF Parkers!AbsNext
  <2>3. CASE popped \notin Threads
    <3>1. \A t \in Threads : flag'[t] = flag[t]
      BY <1>4, <2>3, <1>c DEF Wake
    <3> QED
      BY <2>1, <3>1, <1>c DEF Phase
  <2> QED
    BY <2>2, <2>3
<1>5. ASSUME NEW c \in Callers, Unpark(c) PROVE Parkers!AbsNext
  <2>1. c \in Threads /\ Parkers!Return(c)
    BY <1>5, <1>c DEF Unpark, Phase, Parkers!Return
  <2> QED
    BY <2>1 DEF Parkers!AbsNext
<1>6. CASE UNCHANGED vars
  BY <1>6 DEF vars, Phase
<1> QED
  BY <1>1, <1>2, <1>3, <1>4, <1>5, <1>6 DEF Next, Step, Undefined

\* Barrier::wait: each Parker of a thread is woken once at most, while the
\* thread is in park(), whatever the tasks beside it do.
THEOREM BarrierUsesParkers == Spec => Parkers!AbsSpec
<1>1. Init => Parkers!AbsInit
  BY DEF Init, Parkers!AbsInit, Phase, Callers
<1> QED
  BY <1>1, ParkersStep, Invariant, PTL DEF Spec, Parkers!AbsSpec
-----------------------------------------------------------------------------
(* Whom a barrier leaves waiting                                           *)

\* A task whose flag is up while it waits has been scheduled.
Told == \A c \in Tasks : flag[c] /\ pc[c] \in {"enter", "park"} => c \in scheduled

\* What the step that a caller is at waits for.
Ready(c) ==
  \/ pc[c] \in Leaders \cup {"replace", "renew"}
  \/ pc[c] \in {"enter", "remove"} /\ list_lock = Null
  \/ pc[c] = "park" /\ IF c \in Threads THEN flag[c] ELSE c \in scheduled

\* A task that overlooked its release may wait for ever.
Overlooked(c) == raced /\ c \in Tasks /\ pc[c] = "park"

\* When nobody can take a step on its own, whoever is inside of the barrier is
\* queued, and fewer are than it takes.
NeverStuck ==
  ~Torn /\ (\A c \in Callers : ~Ready(c)) =>
    /\ \A c \in Callers :
         pc[c] # "idle" => (pc[c] = "park" /\ on_list[c]) \/ Overlooked(c)
    /\ queue # <<>> => Len(queue) < target

LEMMA ToldStep == IInv /\ Told /\ [Next]_vars => Told'
<1> SUFFICES ASSUME IInv, Told, [Next]_vars PROVE Told'
  OBVIOUS
<1>v. VarsOK /\ Leading
  BY DEF IInv
<1> USE CallersFinite, <1>v
<1> USE DEF VarsOK, Told, Goto
<1>1. ASSUME NEW c \in Callers, Come(c) \/ Lead(c) \/ Queue(c) \/ Pop(c) PROVE Told'
  BY <1>1 DEF Come, Lead, Queue, Pop
<1>2. ASSUME NEW c \in Callers, Wake(c) PROVE Told'
  <2>1. popped \in Callers /\ \A d \in Callers : d # popped => flag'[d] = flag[d]
    BY <1>2 DEF Wake, Leading
  <2>2. /\ scheduled' = scheduled \cup ({popped} \cap Tasks)
        /\ pc[c] = "wake" /\ pc' = [pc EXCEPT ![c] = "drain"]
    BY <1>2 DEF Wake
  <2> QED
    BY <2>1, <2>2
<1>3. ASSUME NEW c \in Callers, TakeData(c) \/ Drained(c) \/ Unpark(c) PROVE Told'
  BY <1>3 DEF TakeData, Drained, Unpark
<1>4. ASSUME NEW c \in Callers, PollCheck(c) \/ Replace(c) \/ Cancel(c) PROVE Told'
  BY <1>4 DEF PollCheck, Replace, Cancel, DropNode
<1>5. ASSUME NEW c \in Callers, RemoveNode(c) \/ NewParker(c) PROVE Told'
  BY <1>5 DEF RemoveNode, NewParker
<1>6. CASE UNCHANGED vars
  BY <1>6 DEF vars
<1> QED
  BY <1>1, <1>2, <1>3, <1>4, <1>5, <1>6 DEF Next, Step, Undefined

\* wait() and wait_async(): nobody is kept waiting by the list lock, by a
\* leader or by a wakeup that went astray; only by those who are still to come.
THEOREM BarrierNeverStuck == Spec => []NeverStuck
<1>1. Init => Told
  BY CallersFinite DEF Init, Told
<1>2. ASSUME IInv, Told, \A c \in Callers : ~Ready(c)
      PROVE  /\ \A c \in Callers :
                  pc[c] # "idle" => (pc[c] = "park" /\ on_list[c]) \/ Overlooked(c)
             /\ queue # <<>> => Len(queue) < target
  <2>1. list_lock = Null /\ popped = Null
    BY <1>2 DEF IInv, VarsOK, Leading, Leaders, Ready
  <2>2. ASSUME NEW c \in Callers, pc[c] # "idle"
        PROVE  (pc[c] = "park" /\ on_list[c]) \/ Overlooked(c)
    <3>1. pc[c] = "park"
      BY <1>2, <2>1, <2>2 DEF IInv, VarsOK, Locations, Leaders, Ready
    <3>2. CASE flag[c]
      BY <1>2, <3>1, <3>2 DEF Ready, Told, Callers
    <3>3. CASE ~flag[c] /\ ~Overlooked(c)
      <4>1. CalmFor(c)
        BY <1>2, <3>1, <3>3 DEF IInv, Calm, Overlooked, Callers
      <4> QED
        BY <2>1, <3>1, <3>3, <4>1, CallersFinite DEF CalmFor
    <3> QED
      BY <3>1, <3>2, <3>3
  <2>3. queue # <<>> => Len(queue) < target
    <3> SUFFICES ASSUME queue # <<>> PROVE Len(queue) < target
      OBVIOUS
    <3>1. Head(queue) \in Callers /\ on_list[Head(queue)]
      <4>1. Lists(queue, OnList, Callers)
        BY <1>2 DEF IInv, QueueShape
      <4>2. Head(queue) \in Callers /\ Head(queue) \in OnList
        BY <4>1, ListsTail
      <4> QED
        BY <4>2 DEF OnList
    <3>2. target > 0
      BY <1>2, <3>1 DEF IInv, QueueShape, Room
    <3> QED
      BY <1>2, <3>2 DEF IInv, Room
  <2> QED
    BY <2>2, <2>3
<1>3. IInv /\ Told => NeverStuck
  BY <1>2 DEF NeverStuck
<1> QED
  BY <1>1, <1>3, Invariant, ToldStep, PTL DEF Spec
=============================================================================
