----------------------------- MODULE MCBarrier ------------------------------
(* A barrier with a few threads and tasks, for TLC.                        *)
EXTENDS Barrier

CONSTANTS a, b, x, y

\* Up to two callers more than there are.
MCTargets == 0..6
=============================================================================
