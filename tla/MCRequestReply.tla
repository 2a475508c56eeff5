--------------------------- MODULE MCRequestReply ---------------------------
(* Instances of RequestReply for TLC: an orchestrator, a worker and an agent *)
(* with a handler of its own.                                                *)
EXTENDS RequestReply, TLC

CONSTANTS orch, worker, expert, r1, r2

mcKind == (orch :> "observe") @@ (worker :> "work") @@ (expert :> "custom")

\* r1 goes to a group, the expert makes r2 in its handler.
mcBy == [r \in Requests |-> IF r = r1 THEN orch ELSE expert]
mcTo == [r \in Requests |-> IF r = r1 THEN {worker, expert} ELSE {worker}]

\* Two workers and no expert; every request is the orchestrator's, to the group.
mcWorkersOnly == [a \in Agents |-> IF a = orch THEN "observe" ELSE "work"]
mcByOrch      == [r \in Requests |-> orch]
mcToWorkers   == [r \in Requests |-> Agents \ {orch}]
=============================================================================
