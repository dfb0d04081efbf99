---------------------------- MODULE MCMutexGuards ---------------------------
(* Guards of a mutex in an Arc, for TLC.                                   *)
EXTENDS MutexGuards, TLC

CONSTANTS t1, t2, t3

ThreadSymmetry == Permutations(Threads)
=============================================================================
