------------------------------ MODULE MCMutex -------------------------------
(* A mutex shared by a few threads and tasks, for TLC.                     *)
EXTENDS Mutex

CONSTANTS a, b, x, y
=============================================================================
