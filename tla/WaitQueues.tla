----------------------------- MODULE WaitQueues -----------------------------
(* The intrusive list as RawMutex and Barrier see it: a sequence of nodes. *)
EXTENDS Naturals, Sequences

\* remove_node of a node anywhere on the list.
Unlink(q, t) ==
  LET i == CHOOSE i \in DOMAIN q : q[i] = t
  IN  [j \in 1..(Len(q) - 1) |-> IF j < i THEN q[j] ELSE q[j + 1]]
=============================================================================
