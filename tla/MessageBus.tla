----------------------------- MODULE MessageBus -----------------------------
(* What the bus promises of a message, without nodes, connections, queues or   *)
(* transactions: once it is stored, each agent it is addressed to is handed it *)
(* at most once, only those who have it acknowledge it, and it is delivered    *)
(* only when as many have as were counted when it was stored.                  *)
EXTENDS Integers, FiniteSets

CONSTANTS
    Messages, Agents,
    Addressees      \* the agents a message may be for

VARIABLES
    state,      \* "none", "pending" or "delivered"
    need,       \* acknowledgements that make it delivered
    handed,     \* how often an agent has been handed it
    acked       \* who has acknowledged it

vars == <<state, need, handed, acked>>

Init ==
    /\ state = [m \in Messages |-> "none"]
    /\ need = [m \in Messages |-> 0]
    /\ handed = [m \in Messages |-> [a \in Agents |-> 0]]
    /\ acked = [m \in Messages |-> {}]

\* It needs as many acknowledgements as there are agents in some set of those it
\* may be for.
Store(m) ==
    /\ state[m] = "none"
    /\ state' = [state EXCEPT ![m] = "pending"]
    /\ \E R \in SUBSET Addressees[m] : need' = [need EXCEPT ![m] = Cardinality(R)]
    /\ UNCHANGED <<handed, acked>>

HandOver(m, a) ==
    /\ state[m] # "none" /\ a \in Addressees[m] /\ handed[m][a] = 0
    /\ handed' = [handed EXCEPT ![m][a] = 1]
    /\ UNCHANGED <<state, need, acked>>

\* The last acknowledgement may or may not be noticed as such.
Acknowledge(m, a) ==
    /\ handed[m][a] = 1
    /\ acked' = [acked EXCEPT ![m] = acked[m] \cup {a}]
    /\ \/ UNCHANGED state
       \/ /\ Cardinality(acked[m] \cup {a}) >= need[m]
          /\ state' = [state EXCEPT ![m] = "delivered"]
    /\ UNCHANGED <<need, handed>>

Next ==
    \E m \in Messages :
        \/ Store(m)
        \/ \E a \in Agents : HandOver(m, a) \/ Acknowledge(m, a)

Spec == Init /\ [][Next]_vars
=============================================================================
