---------------------------- MODULE AbstractLock ----------------------------
(***************************************************************************)
(* What every lock of this repository promises: at most one owner, a       *)
(* try_lock that fails only while somebody owns the lock, a timed call     *)
(* that may give up, and an owner that may pass the lock to a waiter.      *)
(* RawMiniLock and RawMutex are shown to implement this specification.     *)
(***************************************************************************)
CONSTANTS Threads,  \* the callers of the lock
          Free,     \* "nobody": not a thread
          Panics    \* may a call end in a panic?

VARIABLES owner,    \* the thread that owns the lock, or Free
          want      \* the call each thread is inside of

absVars == <<owner, want>>

Requests == {"lock", "try", "timed"}

AbsTypeOK ==
  /\ owner \in Threads \cup {Free}
  /\ want \in [Threads -> Requests \cup {"none"}]

AbsInit ==
  /\ owner = Free
  /\ want = [t \in Threads |-> "none"]

\* A thread asks for the lock, even if it has forgotten that it owns it.
Request(t) ==
  /\ want[t] = "none"
  /\ \E r \in Requests : want' = [want EXCEPT ![t] = r]
  /\ UNCHANGED owner

\* A thread that asks is granted the lock, which nobody owned.
Grant(t) ==
  /\ want[t] # "none" /\ owner = Free
  /\ owner' = t
  /\ want' = [want EXCEPT ![t] = "none"]

\* A try_lock reports failure: only while somebody owns the lock.
Refuse(t) ==
  /\ want[t] = "try" /\ owner # Free
  /\ want' = [want EXCEPT ![t] = "none"]
  /\ UNCHANGED owner

\* A timed call gives up.
Expire(t) ==
  /\ want[t] = "timed"
  /\ want' = [want EXCEPT ![t] = "none"]
  /\ UNCHANGED owner

\* A call ends in a panic: its thread gets neither the lock nor an answer.
Abandon(t) ==
  /\ Panics /\ want[t] = "lock"
  /\ want' = [want EXCEPT ![t] = "none"]
  /\ UNCHANGED owner

\* The owner gives the lock back.
Yield(t) ==
  /\ owner = t
  /\ owner' = Free
  /\ UNCHANGED want

\* The owner gives the lock back and asks for it again.
Bump(t) ==
  /\ owner = t
  /\ owner' = Free
  /\ want' = [want EXCEPT ![t] = "lock"]

\* The owner passes the lock on to a thread that asks for it.
HandTo(t, u) ==
  /\ owner = t /\ want[u] # "none"
  /\ owner' = u
  /\ want' = [want EXCEPT ![u] = "none"]

AbsNext ==
  \E t \in Threads :
    \/ Request(t) \/ Grant(t) \/ Refuse(t) \/ Expire(t) \/ Abandon(t)
    \/ Yield(t) \/ Bump(t)
    \/ \E u \in Threads : HandTo(t, u)

AbsSpec == AbsInit /\ [][AbsNext]_absVars

\* A free lock that somebody keeps asking for is granted to somebody.
AbsFairSpec == AbsSpec /\ WF_absVars(\E t \in Threads : Grant(t))
=============================================================================
