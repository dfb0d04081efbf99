-------------------------- MODULE MCIntrusiveList ---------------------------
(* The list with a few addresses for nodes, for TLC.                       *)
EXTENDS IntrusiveList, TLC

CONSTANTS n1, n2, n3, n4

\* Addresses are interchangeable; Implements is checked without the symmetry.
NodeSymmetry == Permutations(Nodes)
=============================================================================
