-------------------------- MODULE AbstractBarrier ---------------------------
(***************************************************************************)
(* What a barrier promises: callers wait until as many have come as it is  *)
(* meant for; the last one is the leader, and with him everybody who waits *)
(* is let go, nobody else and nobody twice.                                *)
(***************************************************************************)
EXTENDS Naturals, FiniteSets

CONSTANT Callers

VARIABLES size,      \* how many callers make a generation
          waiting,   \* the callers of the generation that is gathering
          released   \* the callers that are let go and have not left yet

absVars == <<size, waiting, released>>

AbsInit == size \in Nat /\ waiting = {} /\ released = {}

\* A caller that is not the last one has to wait.
Arrive(c) ==
  /\ c \notin waiting \cup released
  /\ size > 0 /\ Cardinality(waiting) + 1 < size
  /\ waiting' = waiting \cup {c}
  /\ UNCHANGED <<size, released>>

\* The last one of a generation lets the others go and is its leader.
Trip(c) ==
  /\ c \notin waiting \cup released
  /\ Cardinality(waiting) + 1 = size
  /\ released' = released \cup waiting
  /\ waiting' = {}
  /\ UNCHANGED size

\* A caller that was let go leaves.
Leave(c) ==
  /\ c \in released
  /\ released' = released \ {c}
  /\ UNCHANGED <<size, waiting>>

\* A caller that waits changes its mind.
Withdraw(c) ==
  /\ c \in waiting
  /\ waiting' = waiting \ {c}
  /\ UNCHANGED <<size, released>>

AbsNext == \E c \in Callers : Arrive(c) \/ Trip(c) \/ Leave(c) \/ Withdraw(c)

AbsSpec == AbsInit /\ [][AbsNext]_absVars
=============================================================================
