----------------------------- MODULE MCMiniLock -----------------------------
(* RawMiniLock with three or four threads, for TLC.                        *)
EXTENDS MiniLock, TLC

CONSTANTS t1, t2, t3, t4

\* Threads are interchangeable; liveness is checked without the symmetry.
ThreadSymmetry == Permutations(Threads)
=============================================================================
