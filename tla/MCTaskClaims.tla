---------------------------- MODULE MCTaskClaims ----------------------------
(* Instances of TaskClaims for TLC: two workers, each on a node of its own, and *)
(* a watcher of the dead-letter group.                                          *)
EXTENDS TaskClaims, TLC

CONSTANTS n1, n2, w1, w2, d, t1, t2

\* A node for each worker, as far as there are two nodes.
mcHome == [a \in Workers \cup Watchers |-> IF n2 \in Nodes /\ a = w2 THEN n2 ELSE n1]
=============================================================================
