------------------------------ MODULE TaskBoard ------------------------------
(* What the claims table makes of a task, without workers' steps, envelopes,   *)
(* deliveries or sweeps: one owner at a time, a new one only by way of "open", *)
(* and no way out of "dead", which takes MaxAttempts tries to reach.           *)
EXTENDS Integers

CONSTANTS Tasks, Workers, MaxAttempts, None

VARIABLES
    state,      \* "none", "open", "held", "settled" or "dead"
    owner,      \* whose claim is in the table
    tries       \* claims made

vars == <<state, owner, tries>>

Init ==
    /\ state = [t \in Tasks |-> "none"]
    /\ owner = [t \in Tasks |-> None]
    /\ tries = [t \in Tasks |-> 0]

Post(t) ==
    /\ state[t] = "none"
    /\ state' = [state EXCEPT ![t] = "open"]
    /\ UNCHANGED <<owner, tries>>

Take(t, w) ==
    /\ state[t] = "open"
    /\ state' = [state EXCEPT ![t] = "held"]
    /\ owner' = [owner EXCEPT ![t] = w]
    /\ tries' = [tries EXCEPT ![t] = tries[t] + 1]

Settle(t) ==
    /\ state[t] = "held"
    /\ state' = [state EXCEPT ![t] = "settled"]
    /\ UNCHANGED <<owner, tries>>

\* A worker that registers loses all it holds.
Release(w) ==
    LET mine == {t \in Tasks : state[t] = "held" /\ owner[t] = w} IN
    /\ state' = [t \in Tasks |-> IF t \in mine THEN "open" ELSE state[t]]
    /\ owner' = [t \in Tasks |-> IF t \in mine THEN None ELSE owner[t]]
    /\ UNCHANGED tries

\* A sweeper takes one task back, even if it has been settled since the sweeper
\* found it expired.
Reopen(t) ==
    /\ state[t] \in {"held", "settled"}
    /\ state' = [state EXCEPT ![t] = "open"]
    /\ owner' = [owner EXCEPT ![t] = None]
    /\ UNCHANGED tries

GiveUp(t) ==
    /\ state[t] \in {"held", "settled"} /\ tries[t] >= MaxAttempts
    /\ state' = [state EXCEPT ![t] = "dead"]
    /\ UNCHANGED <<owner, tries>>

Next ==
    \/ \E t \in Tasks :
          \/ Post(t) \/ Settle(t) \/ Reopen(t) \/ GiveUp(t)
          \/ \E w \in Workers : Take(t, w)
    \/ \E w \in Workers : Release(w)

Spec == Init /\ [][Next]_vars
=============================================================================
