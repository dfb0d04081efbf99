------------------------------ MODULE Parking -------------------------------
(***************************************************************************)
(* parking::Parker and parking::Waker for one sleeping thread and the      *)
(* threads that wake it.  Every round of the sleeper makes a fresh Parker  *)
(* on its stack, gives the one Waker of it away and parks.  The std        *)
(* parking token belongs to the thread, not to the Parker, so an unpark()  *)
(* that is late by whole rounds still finds it.                            *)
(***************************************************************************)
CONSTANT Wakers  \* threads that call Waker::wake

VARIABLES should_wakeup,  \* Parker::should_wakeup of the sleeper's Parker
          token,          \* the sleeper's std::thread park token
          sleeper,        \* where the sleeper is
          waking          \* where each waker is in Waker::wake

vars == <<should_wakeup, token, sleeper, waking>>

TypeOK ==
  /\ should_wakeup \in BOOLEAN
  /\ token \in BOOLEAN
  /\ sleeper \in {"running", "check", "parked"}
  /\ waking \in [Wakers -> {"idle", "store", "unpark"}]

Init ==
  /\ should_wakeup = FALSE
  /\ token = FALSE
  /\ sleeper = "running"
  /\ waking = [w \in Wakers |-> "idle"]

\* Parker::new, prepare_park and waker(); the Waker reaches thread w.
Prepare(w) ==
  /\ sleeper = "running" /\ waking[w] = "idle"
  /\ should_wakeup' = FALSE
  /\ waking' = [waking EXCEPT ![w] = "store"]
  /\ sleeper' = "check"
  /\ UNCHANGED token

\* The loop condition of Parker::park: leave, or call thread::park.
CheckFlag ==
  /\ sleeper = "check"
  /\ sleeper' = IF should_wakeup THEN "running" ELSE "parked"
  /\ UNCHANGED <<should_wakeup, token, waking>>

\* Mutant of Unparked: park() does not look at its flag again.
UnparkedNoRecheck ==
  /\ sleeper = "parked" /\ token
  /\ token' = FALSE
  /\ sleeper' = "running"
  /\ UNCHANGED <<should_wakeup, waking>>

\* std::thread::park returns and consumes the token.
Unparked ==
  /\ sleeper = "parked" /\ token
  /\ token' = FALSE
  /\ sleeper' = "check"
  /\ UNCHANGED <<should_wakeup, waking>>

\* std::thread::park may return for no reason at all.
SpuriousReturn ==
  /\ sleeper = "parked"
  /\ sleeper' = "check"
  /\ UNCHANGED <<should_wakeup, token, waking>>

\* Mutant of Wake: unpark first, store the flag afterwards.
WakeUnparkFirst(w) ==
  /\ \/ /\ waking[w] = "store"
        /\ token' = TRUE
        /\ waking' = [waking EXCEPT ![w] = "unpark"]
        /\ UNCHANGED should_wakeup
     \/ /\ waking[w] = "unpark"
        /\ should_wakeup' = TRUE
        /\ waking' = [waking EXCEPT ![w] = "idle"]
        /\ UNCHANGED token
  /\ UNCHANGED sleeper

\* Waker::wake: store the flag through the raw Parker pointer, then unpark
\* the thread through the owned Thread handle.
Wake(w) ==
  /\ \/ /\ waking[w] = "store"
        /\ should_wakeup' = TRUE
        /\ waking' = [waking EXCEPT ![w] = "unpark"]
        /\ UNCHANGED token
     \/ /\ waking[w] = "unpark"
        /\ token' = TRUE
        /\ waking' = [waking EXCEPT ![w] = "idle"]
        /\ UNCHANGED should_wakeup
  /\ UNCHANGED sleeper

Next ==
  \/ CheckFlag \/ Unparked \/ SpuriousReturn
  \/ \E w \in Wakers : Prepare(w) \/ Wake(w)

Spec == Init /\ [][Next]_vars

\* Threads run; a Waker that was given away is used.  Nothing makes park()
\* return spuriously, and the sleeper need not start another round.
Fairness ==
  /\ WF_vars(CheckFlag) /\ WF_vars(Unparked)
  /\ \A w \in Wakers : WF_vars(Wake(w))

FairSpec == Spec /\ Fairness
-----------------------------------------------------------------------------
InPark == sleeper \in {"check", "parked"}

\* A flag that was raised before the sleeper parked, or while it is parked,
\* never goes unnoticed: a token is there or an unpark is still to come.
\* This rests on wake() storing the flag before it unparks.
WakeDelivered ==
  sleeper = "parked" /\ should_wakeup
    => token \/ \E w \in Wakers : waking[w] = "unpark"

\* The store in wake() goes through a raw pointer to a Parker on the
\* sleeper's stack.  Whoever is about to store is the only one, and the
\* sleeper is still inside the park() that keeps the Parker alive.
ParkerOutlivesStore ==
  \A w \in Wakers : waking[w] = "store" =>
    /\ InPark
    /\ ~should_wakeup
    /\ \A v \in Wakers : waking[v] = "store" => v = w

\* park() returns: no interleaving of a wake with the loop of park(), and
\* no stale token of an earlier round, leaves the sleeper asleep for good.
ParkReturns == InPark ~> sleeper = "running"
-----------------------------------------------------------------------------
(* Parker and Waker implement AbstractPark for their one sleeper.          *)

Phase ==
  [s \in {"sleeper"} |-> IF ~InPark THEN "running"
                         ELSE IF should_wakeup THEN "woken" ELSE "asleep"]

Park == INSTANCE AbstractPark WITH Sleepers <- {"sleeper"}, phase <- Phase

\* Seen from outside a wake is one step, the store of the flag, and park()
\* returns after it and not before: the unpark that follows, the rounds of the
\* loop, stale tokens and spurious returns are invisible.
ImplementsSafely == Park!AbsSpec
=============================================================================
