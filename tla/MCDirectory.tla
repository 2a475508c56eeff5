----------------------------- MODULE MCDirectory -----------------------------
(* Instances of Directory for TLC: connections of one agent to one node, or two. *)
EXTENDS Directory, TLC

CONSTANTS n1, n2, s1, s2, s3, c1, c2, c3, l1

\* s1 and s2 share a node, s3 is on the other one.
mcNodeOf == [s \in Socks |-> IF s = s3 THEN n2 ELSE n1]

\* Calls differ in nothing but the key they make, s1 and s2 in nothing at all.
mcSymmetry == Permutations(Calls) \cup Permutations(Socks)
=============================================================================
