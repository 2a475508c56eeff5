----------------------------- MODULE MCDelivery -----------------------------
(* Instances of Delivery for TLC: two nodes, and the connections, addresses *)
(* and memberships of the runs.                                             *)
EXTENDS Delivery, TLC

CONSTANTS n1, n2, ann, bob, cyd, grp, m1, m2, sa, sb, sb2, sb3, sc

\* ann sends; bob has connections to both nodes, two of them to n1.
mcNodeOf == [s \in Socks |-> IF s \in {sb2, sc} THEN n2 ELSE n1]
mcAgentOf == [s \in Socks |-> IF s = sa THEN ann ELSE IF s = sc THEN cyd ELSE bob]
mcGroupsOf == [a \in Agents |-> Groups]

mcFrom == [m \in Messages |-> ann]
mcToDirect == [m \in Messages |-> bob]
mcToGroup == [m \in Messages |-> grp]
mcAllQualified == [m \in Messages |-> Agents]
\* m1 is for whoever qualifies among bob and cyd, any other message for cyd.
mcQualified == [m \in Messages |-> IF m = m1 THEN {bob, cyd} ELSE {cyd}]
=============================================================================
