----------------------------- MODULE RemoteCall -----------------------------
(* What a call of request is for the one who makes it, without frames, loops, *)
(* handlers or sockets: its future is settled once, by a reply made to this   *)
(* very call or by the timer.                                                 *)

CONSTANTS
    Requests,
    ToSelf      \* calls that are addressed to their own caller, too

VARIABLES
    call,       \* "new", "waiting", "answered", "timeout" or "raised"
    outcome,    \* its future: "none", "pending", "resolved" or "cancelled"
    expired,    \* calls whose timer has fired
    replied     \* calls to which an addressee has replied

vars == <<call, outcome, expired, replied>>

Init ==
    /\ call = [r \in Requests |-> "new"]
    /\ outcome = [r \in Requests |-> "none"]
    /\ expired = {}
    /\ replied = {}

Make(r) ==
    /\ call[r] = "new"
    /\ \E state \in {"waiting", "raised"} : call' = [call EXCEPT ![r] = state]
    /\ outcome' = [outcome EXCEPT ![r] = "pending"]
    /\ UNCHANGED <<expired, replied>>

\* A reply may come late, or more than once, but not before the call.
Reply(r) ==
    /\ call[r] \notin {"new", "raised"}
    /\ replied' = replied \cup {r}
    /\ UNCHANGED <<call, outcome, expired>>

Resolve(r) ==
    /\ call[r] = "waiting" /\ outcome[r] = "pending"
    /\ r \in replied \cup ToSelf
    /\ outcome' = [outcome EXCEPT ![r] = "resolved"]
    /\ UNCHANGED <<call, expired, replied>>

Expire(r) ==
    /\ call[r] = "waiting" /\ r \notin expired
    /\ expired' = expired \cup {r}
    /\ outcome' = [outcome EXCEPT ![r] = IF outcome[r] = "pending" THEN "cancelled" ELSE @]
    /\ UNCHANGED <<call, replied>>

\* The answer may be lost to a timer that fires before the caller runs.
Return(r) ==
    /\ call[r] = "waiting"
    /\ \/ outcome[r] = "resolved" /\ call' = [call EXCEPT ![r] = "answered"]
       \/ outcome[r] # "pending" /\ r \in expired /\ call' = [call EXCEPT ![r] = "timeout"]
    /\ UNCHANGED <<outcome, expired, replied>>

Next == \E r \in Requests : Make(r) \/ Reply(r) \/ Resolve(r) \/ Expire(r) \/ Return(r)

Spec == Init /\ [][Next]_vars
=============================================================================
