---------------------------- MODULE AbstractPark ----------------------------
(***************************************************************************)
(* What Parker and Waker promise, and what their users owe them: whoever   *)
(* parks stays until the Waker of that Parker is used, which happens once  *)
(* at most, and while he is there.                                         *)
(***************************************************************************)
CONSTANT Sleepers

VARIABLE phase  \* what each sleeper is doing

Phases == [Sleepers -> {"running", "asleep", "woken"}]

AbsInit == phase = [s \in Sleepers |-> "running"]

\* The Waker is out of the sleeper's hands, and nothing but Rouse ends this.
Sleep(s) == phase[s] = "running" /\ phase' = [phase EXCEPT ![s] = "asleep"]

\* The Waker is used.
Rouse(s) == phase[s] = "asleep" /\ phase' = [phase EXCEPT ![s] = "woken"]

\* park() returns.
Return(s) == phase[s] = "woken" /\ phase' = [phase EXCEPT ![s] = "running"]

AbsNext == \E s \in Sleepers : Sleep(s) \/ Rouse(s) \/ Return(s)

AbsSpec == AbsInit /\ [][AbsNext]_phase
=============================================================================
