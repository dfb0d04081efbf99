------------------------------ MODULE Barrier -------------------------------
(***************************************************************************)
(* colock's Barrier for threads (wait) and for tasks (wait_async and its   *)
(* BarrierPoller).  The wait queue is a sequence under its list lock, from *)
(* the head, where nodes are pushed and popped, to the tail; a node and    *)
(* its Parker are the thread or task they belong to.                       *)
(*                                                                         *)
(* One action per access that somebody else can see.  A task is run by an  *)
(* executor: it is polled when its waker has scheduled it, may be polled   *)
(* at any other time (select! and join! do that), and may be dropped.      *)
(*                                                                         *)
(* A pop is two steps, because the drop of a node looks at is_on_list and  *)
(* not at the list lock: a task that goes between them leaves the leader   *)
(* with a node that is gone or was made anew in its place.  The model      *)
(* shows this state (Torn) and ends there.                                 *)
(***************************************************************************)
EXTENDS WaitQueues, Naturals, Sequences, FiniteSets

CONSTANTS Threads,  \* the callers of wait()
          Tasks,    \* the tasks that await wait_async()
          Null,     \* neither
          Targets   \* the numbers that Barrier::new may be given

Callers == Threads \cup Tasks

ASSUME BarrierAssumption ==
  /\ IsFiniteSet(Threads) /\ IsFiniteSet(Tasks)
  /\ Threads \cap Tasks = {}
  /\ Null \notin Callers
  /\ Targets \subseteq Nat

VARIABLES target,     \* Barrier::target
          queue,      \* Barrier::wait_queue, from the head
          list_lock,  \* the holder of its inner_list
          on_list,    \* Node::is_on_list of each caller's node
          flag,       \* Parker::should_wakeup of each caller's Parker
          scheduled,  \* the tasks that their wakers have scheduled
          popped,     \* the caller whose Waker the leader has popped, or Null
          goal,       \* where a caller goes when it has removed its node
          pc,         \* where each caller is
          raced       \* has a Parker gone while the leader had, or had used,
                      \* its Waker, unseen by the caller?

vars == <<target, queue, list_lock, on_list, flag, scheduled, popped, goal, pc, raced>>

Locations ==
  {"idle", "enter", "park", "drain", "take", "wake", "replace", "remove", "renew"}

TypeOK ==
  /\ target \in Targets
  /\ \E n \in 0..Cardinality(Callers) : queue \in [1..n -> Callers]
  /\ list_lock \in Callers \cup {Null}
  /\ on_list \in [Callers -> BOOLEAN]
  /\ flag \in [Callers -> BOOLEAN]
  /\ scheduled \subseteq Tasks
  /\ popped \in Callers \cup {Null}
  /\ goal \in [Callers -> {"idle", "renew"}]
  /\ pc \in [Callers -> Locations]
  /\ raced \in BOOLEAN

Init ==
  /\ target \in Targets
  /\ queue = <<>>
  /\ list_lock = Null
  /\ on_list = [c \in Callers |-> FALSE]
  /\ flag = [c \in Callers |-> FALSE]
  /\ scheduled = {}
  /\ popped = Null
  /\ goal = [c \in Callers |-> "idle"]
  /\ pc = [c \in Callers |-> "idle"]
  /\ raced = FALSE

Goto(c, l) == pc' = [pc EXCEPT ![c] = l]
-----------------------------------------------------------------------------
(* lock_inner, for threads and tasks                                       *)

\* Somebody wants to wait and makes a Parker and a node.  (With a target of
\* 0 the call returns at once as a leader.)
Come(c) ==
  /\ pc[c] = "idle" /\ target > 0
  /\ flag' = [flag EXCEPT ![c] = FALSE]
  /\ scheduled' = scheduled \ {c}
  /\ Goto(c, "enter")
  /\ UNCHANGED <<target, queue, list_lock, on_list, popped, goal, raced>>

\* "we were the last ones": keep the list lock and wake everyone.
Lead(c) ==
  /\ pc[c] = "enter" /\ list_lock = Null
  /\ Len(queue) = target - 1
  /\ list_lock' = c
  /\ Goto(c, "drain")
  /\ UNCHANGED <<target, queue, on_list, flag, scheduled, popped, goal, raced>>

\* Mutant of Queue: the count is not looked at.
QueueAnyway(c) ==
  /\ pc[c] = "enter" /\ list_lock = Null
  /\ queue' = <<c>> \o queue
  /\ on_list' = [on_list EXCEPT ![c] = TRUE]
  /\ Goto(c, "park")
  /\ UNCHANGED <<target, list_lock, flag, scheduled, popped, goal, raced>>

\* push_head; a thread goes to sleep, a poll returns Pending.
Queue(c) ==
  /\ pc[c] = "enter" /\ list_lock = Null
  /\ Len(queue) # target - 1
  /\ queue' = <<c>> \o queue
  /\ on_list' = [on_list EXCEPT ![c] = TRUE]
  /\ Goto(c, "park")
  /\ UNCHANGED <<target, list_lock, flag, scheduled, popped, goal, raced>>

\* pop_head of the leader: up to the swap in remove_node.
Pop(c) ==
  /\ pc[c] = "drain" /\ queue # <<>>
  /\ queue' = Tail(queue)
  /\ on_list' = [on_list EXCEPT ![Head(queue)] = FALSE]
  /\ popped' = Head(queue)
  /\ Goto(c, "take")
  /\ UNCHANGED <<target, list_lock, flag, scheduled, goal, raced>>

\* The rest of pop_head: it reads the links of the node, takes its data and
\* writes is_on_list once more.
TakeData(c) ==
  /\ pc[c] = "take"
  /\ Goto(c, "wake")
  /\ UNCHANGED <<target, queue, list_lock, on_list, flag, scheduled, popped, goal, raced>>

\* Mutant of Wake: the task is scheduled but its flag stays down.
WakeTaskOnly(c) ==
  /\ pc[c] = "wake"
  /\ flag' = IF popped \in Tasks THEN flag ELSE [flag EXCEPT ![popped] = TRUE]
  /\ scheduled' = scheduled \cup ({popped} \cap Tasks)
  /\ popped' = Null
  /\ Goto(c, "drain")
  /\ UNCHANGED <<target, queue, list_lock, on_list, goal, raced>>

\* waker.wake(): the flag, then unpark() or the wake() of the task.  The
\* Parker of a task may be gone; then the store may hit one made since in its
\* place.
Wake(c) ==
  /\ pc[c] = "wake"
  /\ flag' = [flag EXCEPT ![popped] = TRUE] \/ (raced /\ popped \in Tasks /\ UNCHANGED flag)
  /\ scheduled' = scheduled \cup ({popped} \cap Tasks)
  /\ popped' = Null
  /\ Goto(c, "drain")
  /\ UNCHANGED <<target, queue, list_lock, on_list, goal, raced>>

\* Mutant of Drained: the leader leaves when it has woken one waiter.
DrainedEarly(c) ==
  /\ pc[c] = "drain"
  /\ list_lock' = Null
  /\ Goto(c, "idle")
  /\ UNCHANGED <<target, queue, on_list, flag, scheduled, popped, goal, raced>>

\* Everyone is awake: the leader returns BarrierWaitResult(true).
Drained(c) ==
  /\ pc[c] = "drain" /\ queue = <<>>
  /\ list_lock' = Null
  /\ Goto(c, "idle")
  /\ UNCHANGED <<target, queue, on_list, flag, scheduled, popped, goal, raced>>

\* Mutant of Unpark: park() returns without a look at the flag.
UnparkSpuriously(c) ==
  /\ c \in Threads /\ pc[c] = "park"
  /\ Goto(c, "idle")
  /\ UNCHANGED <<target, queue, list_lock, on_list, flag, scheduled, popped, goal, raced>>

\* park() of a thread returns, and so does wait(), with false.
Unpark(c) ==
  /\ c \in Threads /\ pc[c] = "park" /\ flag[c]
  /\ Goto(c, "idle")
  /\ UNCHANGED <<target, queue, list_lock, on_list, flag, scheduled, popped, goal, raced>>
-----------------------------------------------------------------------------
(* BarrierPoller: the polls after the first, and the drop of the future    *)

\* A node is dropped: a load of is_on_list, and the list lock if it is
\* up.  l is where the caller goes afterwards.
DropNode(c, l) ==
  IF on_list[c]
    THEN Goto(c, "remove") /\ goal' = [goal EXCEPT ![c] = l]
    ELSE Goto(c, l) /\ UNCHANGED goal

\* The load of should_wakeup: Ready(false), whereupon the future is dropped,
\* or on to a new node and Parker.
PollCheck(c) ==
  /\ c \in Tasks /\ pc[c] = "park"
  /\ scheduled' = scheduled \ {c}
  /\ IF flag[c] THEN DropNode(c, "idle") ELSE Goto(c, "replace") /\ UNCHANGED goal
  /\ UNCHANGED <<target, queue, list_lock, on_list, flag, popped, raced>>

\* node = None.
Replace(c) ==
  /\ pc[c] = "replace"
  /\ DropNode(c, "renew")
  /\ UNCHANGED <<target, queue, list_lock, on_list, flag, scheduled, popped, raced>>

\* The future is dropped, first its node and then its Parker.
Cancel(c) ==
  /\ c \in Tasks /\ pc[c] = "park"
  /\ DropNode(c, "idle")
  /\ raced' = (raced \/ popped = c)
  /\ UNCHANGED <<target, queue, list_lock, on_list, flag, scheduled, popped>>

\* Mutant of RemoveNode: the node stays in the queue.
RemoveNodeNot(c) ==
  /\ pc[c] = "remove" /\ list_lock = Null
  /\ on_list' = [on_list EXCEPT ![c] = FALSE]
  /\ Goto(c, goal[c])
  /\ goal' = [goal EXCEPT ![c] = "idle"]
  /\ UNCHANGED <<target, queue, list_lock, flag, scheduled, popped, raced>>

\* remove_node in the drop of a node, unless the leader has popped it.
RemoveNode(c) ==
  /\ pc[c] = "remove" /\ list_lock = Null
  /\ queue' = IF on_list[c] THEN Unlink(queue, c) ELSE queue
  /\ on_list' = [on_list EXCEPT ![c] = FALSE]
  /\ Goto(c, goal[c])
  /\ goal' = [goal EXCEPT ![c] = "idle"]
  /\ UNCHANGED <<target, list_lock, flag, scheduled, popped, raced>>

\* parker.insert(Parker::new()), in place of the old one.
NewParker(c) ==
  /\ pc[c] = "renew"
  /\ raced' = (raced \/ flag[c] \/ popped = c)
  /\ flag' = [flag EXCEPT ![c] = FALSE]
  /\ Goto(c, "enter")
  /\ UNCHANGED <<target, queue, list_lock, on_list, scheduled, popped, goal>>
-----------------------------------------------------------------------------
\* The callers whose node is there.
HasNode == {c \in Callers : pc[c] \in {"park", "replace", "remove"}}

\* A node has gone between the swap of its is_on_list and the rest of its pop.
Torn == popped \notin HasNode /\ \E c \in Callers : pc[c] = "take"

\* What the leader then does is undefined, and so is all that follows.
Undefined == Torn /\ UNCHANGED vars

Step(c) ==
  /\ ~Torn
  /\ \/ Lead(c) \/ Queue(c) \/ Pop(c) \/ TakeData(c) \/ Wake(c) \/ Drained(c)
     \/ Unpark(c) \/ (c \in scheduled /\ PollCheck(c))
     \/ Replace(c) \/ RemoveNode(c) \/ NewParker(c)

Next ==
  \/ \E c \in Callers : Step(c) \/ (~Torn /\ (Come(c) \/ PollCheck(c) \/ Cancel(c)))
  \/ Undefined

Spec == Init /\ [][Next]_vars

\* Threads run, a poll that has begun ends, and the executor polls what has
\* been scheduled.  Nobody has to come, to poll for no reason or to cancel.
FairSpec == Spec /\ \A c \in Callers : WF_vars(Step(c))
-----------------------------------------------------------------------------
\* The queue holds exactly the nodes that think they are on it, once each.
\* It never grows beyond the point where the next caller leads: the leader is
\* found with ==, so a longer queue would never be woken again.  A torn pop
\* leaves nothing to be said of the list.
QueueBounded ==
  ~Torn =>
    /\ \A i, j \in DOMAIN queue : queue[i] = queue[j] => i = j
    /\ \A c \in Callers : on_list[c] <=> \E i \in DOMAIN queue : queue[i] = c
    /\ queue # <<>> => Len(queue) < target

Leaders == {"drain", "take", "wake"}

Draining == \E c \in Callers : pc[c] \in Leaders

\* Let go, and not back yet.
Due(c) ==
  /\ pc[c] \notin Leaders \cup {"idle", "enter"}
  /\ \/ flag[c]
     \/ popped = c
     \/ Draining /\ on_list[c]

\* The leader writes to Parkers that are there, and that nobody has raised; and
\* the node of a thread is there until the leader is done with it.
WakeTargetAlive ==
  /\ popped # Null /\ (raced => popped \in Threads) =>
       pc[popped] \in {"park", "replace", "remove", "renew"} /\ ~flag[popped]
  /\ Torn => popped \in Tasks

\* Nobody sleeps for ever after the others have gone: while the barrier is at
\* rest whoever is parked is either queued or has its flag up.
NobodyForgotten ==
  ~Draining =>
    \A c \in Callers :
      pc[c] = "park" => on_list[c] \/ flag[c] \/ (raced /\ c \in Tasks)

\* Whoever is let go leaves, however many others come, poll and cancel; a drop
\* of its node may keep it waiting for the list lock, which is not fair.
LetGo ==
  \A c \in Callers : Due(c) ~> pc[c] \in {"idle", "remove"} \/ raced \/ Torn
-----------------------------------------------------------------------------
(* Barrier implements AbstractBarrier.                                     *)

Waiting == IF Draining THEN {} ELSE {c \in Callers : on_list[c]}

Released == {c \in Callers : Due(c)}

Promise == INSTANCE AbstractBarrier
             WITH size <- target, waiting <- Waiting, released <- Released

\* Until a poll or a drop overlooks that it has been let go or tears a pop,
\* every generation releases exactly its members and has one leader.
Implements == Promise!AbsInit /\ [][Promise!AbsNext \/ raced']_(Promise!absVars)
=============================================================================
