----------------------------- MODULE TaskClaims -----------------------------
(***************************************************************************)
(* The work-distribution plane: workers that claim tasks by inserting into *)
(* the claims table (agents/worker_agent.py run by agents/base_agent.py),  *)
(* the group delivery with backpressure that hands tasks to them           *)
(* (server/message_router.py), the sweeper that takes expired claims back  *)
(* (server/claim_sweeper.py) and the clearing of claims when a worker      *)
(* registers (registry/agent_registry.py).                                 *)
(*                                                                         *)
(* What Delivery takes apart is coarser here: posting a task is one step,  *)
(* and so is one iteration of the delivery loop.  What concerns the claims *)
(* table is one step per transaction; an ORM update is two, its SELECT and *)
(* its UPDATE by primary key.                                              *)
(***************************************************************************)
EXTENDS Integers, Sequences, FiniteSets

CONSTANTS
    Workers,        \* WorkerAgents, members of the group tasks are posted to
    Watchers,       \* agents in the group "dead_letter", connected throughout
    Tasks,          \* group messages that carry a task
    Nodes,          \* server processes, each with a listener and a sweeper
    Home,           \* the node an agent connects to
    InitReady,      \* workers connected before the model starts
    MaxAttempts,    \* MAX_ATTEMPTS
    MaxConcurrent,  \* agents.max_concurrent
    MayExpire,      \* may a claim outlive CLAIM_TIMEOUT_SECONDS?
    Faults,         \* which of the faults in FaultKinds occur
    MaxFaults,      \* how many of them
    None            \* "no task", "no worker"

\* A worker's connection breaks; its process dies; its reconnect is refused; a
\* transaction of a worker or a sweep raises; a sweep's PUBLISH raises; a transaction
\* of a node's listener raises.
FaultKinds == {"drop", "kill", "connect", "db", "redis", "listen"}

ASSUME ClaimsAssumption ==
    /\ IsFiniteSet(Workers) /\ IsFiniteSet(Tasks)
    /\ Workers \cap Watchers = {}
    /\ Home \in [Workers \cup Watchers -> Nodes]
    /\ InitReady \in SUBSET Workers
    /\ MaxAttempts \in Nat \ {0} /\ MaxConcurrent \in Nat \ {0}
    /\ MayExpire \in BOOLEAN
    /\ Faults \in SUBSET FaultKinds /\ MaxFaults \in Nat
    /\ None \notin Workers \cup Tasks

VARIABLES
    \* PostgreSQL
    claims,      \* table claims: message_id is unique, so one row per task
    made,        \* claim rows ever inserted for a task: the id of the last one
    msgStatus,   \* messages.status of a task, "none" while there is no row
    attempts,    \* rows of table delivery_attempts
    \* each node
    inbox,       \* envelopes Redis has queued for the node's subscription
    listener,    \* deliver_from_pubsub: its envelope and the recipients to visit
    sweeper,     \* ClaimSweeper._sweep: its snapshot, and what it is to publish
    conn,        \* the node's entry and endpoint for a worker
    \* each worker
    link,        \* is the worker's WebSocket alive?
    queue,       \* envelopes received and not yet read by _listen
    worker,      \* run, _listen and _process_task
    \* history
    results,     \* results sent for a task
    noticed,     \* tasks whose dead-letter notice has reached a watcher
    faults       \* faults so far

dbVars     == <<claims, made, msgStatus, attempts>>
nodeVars   == <<inbox, listener, sweeper, conn>>
workerVars == <<link, queue, worker>>
history    == <<results, noticed, faults>>
vars == <<dbVars, nodeVars, workerVars, history>>

-----------------------------------------------------------------------------
Agents    == Workers \cup Watchers
BusyPc    == {"claimed", "work", "done", "write", "reply"}
WorkerPc  == BusyPc \cup {"down", "listen", "stopped"}
ClaimStatus == {"claimed", "completed", "failed", "timed_out"}

NoClaim == [id |-> 0, agent |-> None, status |-> "none", attempt |-> 0, expired |-> FALSE]
NoEnv   == [kind |-> "none", task |-> None, attempt |-> 0]
Task(t, k) == [kind |-> "task", task |-> t, attempt |-> k]
Notice(t)  == [kind |-> "notice", task |-> t, attempt |-> 0]
Envelopes  == [kind : {"task", "notice"}, task : Tasks, attempt : Nat]
Snapshots  == [task : Tasks, id : Nat \ {0}, attempt : Nat]

IdleListener == [env |-> NoEnv, todo |-> {}]
IdleSweeper  == [todo |-> {}, out |-> NoEnv]
Listening    == [pc |-> "listen", env |-> NoEnv, id |-> 0, failed |-> FALSE]
Down         == [pc |-> "down", env |-> NoEnv, id |-> 0, failed |-> FALSE]
Stopped      == [pc |-> "stopped", env |-> NoEnv, id |-> 0, failed |-> FALSE]

InFlight(w)  == Cardinality({t \in Tasks : claims[t].agent = w /\ claims[t].status = "claimed"})
Snapshot(t)  == [task |-> t, id |-> claims[t].id, attempt |-> claims[t].attempt]

\* Between winning a claim and sending the result.
Busy(w, t) == worker[w].pc \in BusyPc /\ worker[w].env.task = t

Fault(kind) == kind \in Faults /\ faults < MaxFaults /\ faults' = faults + 1

-----------------------------------------------------------------------------
\* Faulty variants of the helpers defined below; no specification uses them.
ClaimableUnlessHeld(t) == claims[t].status # "claimed"   \* upsert over a settled row
OneMoreAttempt(k) == k > MaxAttempts
OneAttemptLess(k) == k + 1 >= MaxAttempts
NoneExpired == {}                         \* expires_at compared the wrong way
NobodyAvailable(a) == a \notin Workers    \* max_concurrent taken for 0
OutcomeOfSuccess(failed) == IF failed THEN "claimed" ELSE "completed"
GivenUpAsFailed(t) == [claims EXCEPT ![t].status = "failed"]
IgnoresRowGone(t, id) == TRUE             \* no check that the UPDATE matched a row
ClearedWhole(w) == [t \in Tasks |-> IF claims[t].agent = w THEN NoClaim ELSE claims[t]]
ExpiredOfAnyStatus == {t \in Tasks : claims[t].expired}
CountsEveryClaim(a) ==                    \* the query forgets the agent
    a \in Workers => Cardinality({t \in Tasks : claims[t].status = "claimed"}) < MaxConcurrent
LoggedBefore(t, a) == <<t, a>> \in attempts   \* rowcount is 0 on a conflict
SweepForgets(n) ==                        \* the commit, and then no PUBLISH
    /\ sweeper[n].out # NoEnv
    /\ sweeper' = [sweeper EXCEPT ![n].out = NoEnv]
    /\ UNCHANGED <<dbVars, inbox, listener, conn, workerVars, history>>

\* INSERT ... ON CONFLICT (message_id) DO NOTHING RETURNING id gives a row: the
\* task has no claim, whatever the status of a claim might be.
Claimable(t) == claims[t].status = "none"

\* claim.attempt_count >= MAX_ATTEMPTS.
OutOfAttempts(k) == k >= MaxAttempts

\* What registry.register leaves of the table.
Cleared(w) ==
    [t \in Tasks |-> IF claims[t].agent = w /\ claims[t].status = "claimed" THEN NoClaim
                                                                          ELSE claims[t]]

\* The rows _sweep selects.
Expired == {t \in Tasks : claims[t].status = "claimed" /\ claims[t].expired}

\* _filter_available: in-flight claims below max_concurrent.
Available(a) == a \in Workers => InFlight(a) < MaxConcurrent

\* The status _complete_claim writes.
Outcome(failed) == IF failed THEN "failed" ELSE "completed"

\* The table with a new status for a claim.
WithStatus(t, s) == [claims EXCEPT ![t].status = s]

\* The table after the sweeper has deleted a claim, or given it up.
Deleted(t) == [claims EXCEPT ![t] = NoClaim]
GivenUp(t) == WithStatus(t, "timed_out")

\* What the driver reports after an INSERT ... ON CONFLICT DO NOTHING into
\* delivery_attempts, with a conflict or without one (README.md:266), and the test
\* _deliver_local makes of it.
Rowcount(t, a) == -1
SeenAsDuplicate(t, a) == Rowcount(t, a) = 0

\* An UPDATE by primary key finds its row.
RowThere(t, id) == claims[t].id = id

-----------------------------------------------------------------------------
Claims == [id : Nat \ {0}, agent : Workers, status : ClaimStatus, attempt : Nat,
           expired : BOOLEAN]

ClaimsType ==
    /\ claims \in [Tasks -> {NoClaim} \cup Claims]
    /\ made \in [Tasks -> Nat]
    /\ msgStatus \in [Tasks -> {"none", "pending", "dead_letter"}]
    /\ attempts \in SUBSET (Tasks \X Agents)

NodeType ==
    /\ inbox \in [Nodes -> Seq(Envelopes)]
    /\ listener \in [Nodes -> [env : Envelopes \cup {NoEnv}, todo : SUBSET Agents]]
    /\ \A n \in Nodes : listener[n].todo # {} => listener[n].env \in Envelopes
    /\ sweeper \in [Nodes -> [todo : SUBSET Snapshots, out : Envelopes \cup {NoEnv}]]
    /\ conn \in [Workers -> {"none", "accepted", "ready"}]

WorkerType ==
    /\ link \in [Workers -> BOOLEAN]
    /\ queue \in [Workers -> Seq(Envelopes)]
    /\ worker \in [Workers -> [pc : WorkerPc, env : Envelopes \cup {NoEnv}, id : Nat,
                               failed : BOOLEAN]]
    /\ \A w \in Workers :
          /\ worker[w].pc \in BusyPc => worker[w].env \in Envelopes
          /\ worker[w].pc = "write" => worker[w].id # 0

HistoryType == results \in [Tasks -> Nat] /\ noticed \in SUBSET Tasks /\ faults \in Nat

TypeOK == ClaimsType /\ NodeType /\ WorkerType /\ HistoryType

Init ==
    /\ claims = [t \in Tasks |-> NoClaim]
    /\ made = [t \in Tasks |-> 0]
    /\ msgStatus = [t \in Tasks |-> "none"]
    /\ attempts = {}
    /\ inbox = [n \in Nodes |-> <<>>]
    /\ listener = [n \in Nodes |-> IdleListener]
    /\ sweeper = [n \in Nodes |-> IdleSweeper]
    /\ conn = [w \in Workers |-> IF w \in InitReady THEN "ready" ELSE "none"]
    /\ link = [w \in Workers |-> w \in InitReady]
    /\ queue = [w \in Workers |-> <<>>]
    /\ worker = [w \in Workers |-> IF w \in InitReady THEN Listening ELSE Down]
    /\ results = [t \in Tasks |-> 0]
    /\ noticed = {}
    /\ faults = 0

-----------------------------------------------------------------------------
(* Posting and delivery. *)

PublishTo(env) == inbox' = [n \in Nodes |-> Append(inbox[n], env)]

\* An agent posts a task to the group of the workers (MessageRouter.route).
Post(t) ==
    /\ msgStatus[t] = "none"
    /\ msgStatus' = [msgStatus EXCEPT ![t] = "pending"]
    /\ PublishTo(Task(t, 1))
    /\ UNCHANGED <<claims, made, attempts, listener, sweeper, conn, workerVars, history>>

\* deliver_from_pubsub looks up the group's members, then which of them are not
\* saturated; members connected elsewhere are dropped here instead of in the loop.
Receive(n) ==
    LET env == Head(inbox[n])
        group == IF env.kind = "task" THEN Workers ELSE Watchers
        todo == {a \in group : Home[a] = n /\ Available(a)}
    IN
    /\ listener[n].todo = {} /\ inbox[n] # <<>>
    /\ inbox' = [inbox EXCEPT ![n] = Tail(@)]
    /\ listener' = [listener EXCEPT ![n] =
                       IF todo = {} THEN IdleListener ELSE [env |-> env, todo |-> todo]]
    /\ UNCHANGED <<dbVars, sweeper, conn, workerVars, history>>

Connected(a) == a \in Watchers \/ conn[a] # "none"

\* The foreign key delivery_attempts.message_id: the id of a notice is a fresh
\* UUID that nothing has inserted into messages.
References(env) == env.kind = "task" /\ msgStatus[env.task] # "none"

\* One iteration of the delivery loop. A violated foreign key raises and ends
\* the loop; a frame for a connection that is gone is lost.
Deliver(n) ==
    LET env == listener[n].env IN
    \E a \in listener[n].todo :
        LET rest == listener[n].todo \ {a}
            sent == Connected(a) /\ References(env) /\ ~SeenAsDuplicate(env.task, a)
        IN
        /\ listener' = [listener EXCEPT ![n] =
              IF rest = {} \/ (Connected(a) /\ ~References(env)) THEN IdleListener
                                                     ELSE [env |-> env, todo |-> rest]]
        /\ attempts' = IF sent THEN attempts \cup {<<env.task, a>>} ELSE attempts
        /\ noticed' = IF sent /\ a \in Watchers THEN noticed \cup {env.task} ELSE noticed
        /\ queue' = [w \in Workers |-> IF sent /\ w = a /\ link[w] THEN Append(queue[w], env)
                                                                  ELSE queue[w]]
        /\ UNCHANGED <<claims, made, msgStatus, inbox, sweeper, conn, link, worker,
                       results, faults>>

-----------------------------------------------------------------------------
(* A worker. *)

\* _listen reads an envelope, acknowledges it and runs _process_task, which
\* tries to claim the task.
Take(w) ==
    LET env == Head(queue[w])
        t == env.task
    IN
    /\ worker[w].pc = "listen" /\ link[w] /\ queue[w] # <<>>
    /\ queue' = [queue EXCEPT ![w] = Tail(@)]
    /\ IF Claimable(t)
       THEN /\ made' = [made EXCEPT ![t] = @ + 1]
            /\ claims' = [claims EXCEPT ![t] =
                  [id |-> made[t] + 1, agent |-> w, status |-> "claimed",
                   attempt |-> env.attempt, expired |-> FALSE]]
            /\ worker' = [worker EXCEPT ![w] = [Listening EXCEPT !.pc = "claimed", !.env = env]]
       ELSE UNCHANGED <<made, claims, worker>>
    /\ UNCHANGED <<msgStatus, attempts, nodeVars, link, history>>

\* set_status("busy"), then the LLM is asked.
SetBusy(w) ==
    /\ worker[w].pc = "claimed" /\ link[w]
    /\ worker' = [worker EXCEPT ![w].pc = "work"]
    /\ UNCHANGED <<dbVars, nodeVars, link, queue, history>>

\* chat returns or raises.
Finish(w) ==
    /\ worker[w].pc = "work"
    /\ \E failed \in BOOLEAN :
          worker' = [worker EXCEPT ![w] = [pc |-> "done", env |-> @.env, id |-> 0,
                                           failed |-> failed]]
    /\ UNCHANGED <<dbVars, nodeVars, link, queue, history>>

\* _complete_claim: the SELECT by message and agent, and then the UPDATE by
\* primary key. An UPDATE that matches no row raises StaleDataError, which ends
\* run: its `except Exception` leaves the loop.
CompleteRead(w) ==
    LET t == worker[w].env.task IN
    /\ worker[w].pc = "done"
    /\ worker' = [worker EXCEPT ![w] =
          IF claims[t].agent = w
          THEN [pc |-> "write", env |-> @.env, id |-> claims[t].id, failed |-> @.failed]
          ELSE [@ EXCEPT !.pc = "reply"]]
    /\ UNCHANGED <<dbVars, nodeVars, link, queue, history>>

CompleteWrite(w) ==
    LET t == worker[w].env.task IN
    /\ worker[w].pc = "write"
    /\ IF RowThere(t, worker[w].id)
       THEN /\ claims' = WithStatus(t, Outcome(worker[w].failed))
            /\ worker' = [worker EXCEPT ![w].pc = "reply"]
       ELSE /\ worker' = [worker EXCEPT ![w] = Stopped]
            /\ UNCHANGED claims
    /\ UNCHANGED <<made, msgStatus, attempts, nodeVars, link, queue, history>>

\* The result goes back to the sender, and the worker is idle again.
Reply(w) ==
    /\ worker[w].pc = "reply" /\ link[w]
    /\ results' = [results EXCEPT ![worker[w].env.task] = @ + 1]
    /\ worker' = [worker EXCEPT ![w] = Listening]
    /\ UNCHANGED <<dbVars, nodeVars, link, queue, noticed, faults>>

\* A recv or send on a closed connection raises ConnectionClosed through
\* _process_task and _listen up to run, which reconnects after a delay. What the
\* old connection had received is gone, and so is the work in hand.
SeesClosed(w) ==
    /\ worker[w].pc \in {"listen", "claimed", "reply"} /\ ~link[w]
    /\ worker' = [worker EXCEPT ![w] = Down]
    /\ queue' = [queue EXCEPT ![w] = <<>>]
    /\ UNCHANGED <<dbVars, nodeVars, link, history>>

\* run connects: the server accepts, and may route to the worker from now on.
\* While the node still has the old connection it rejects the new one (4409),
\* and run tries again.
Connect(w) ==
    /\ worker[w].pc = "down" /\ conn[w] = "none"
    /\ conn' = [conn EXCEPT ![w] = "accepted"]
    /\ link' = [link EXCEPT ![w] = TRUE]
    /\ worker' = [worker EXCEPT ![w] = Listening]
    /\ UNCHANGED <<dbVars, inbox, listener, sweeper, queue, history>>

-----------------------------------------------------------------------------
(* The node's endpoint for a worker. *)

\* registry.register clears the claims the agent has in flight.
Register(w) ==
    /\ conn[w] = "accepted"
    /\ conn' = [conn EXCEPT ![w] = "ready"]
    /\ claims' = Cleared(w)
    /\ UNCHANGED <<made, msgStatus, attempts, inbox, listener, sweeper, workerVars, history>>

\* The endpoint notices that the connection is closed and removes its entry.
CleanUp(w) ==
    /\ conn[w] = "ready" /\ ~link[w]
    /\ conn' = [conn EXCEPT ![w] = "none"]
    /\ UNCHANGED <<dbVars, inbox, listener, sweeper, workerVars, history>>

-----------------------------------------------------------------------------
(* The sweeper of a node. *)

\* The clock passes expires_at.
Expire(t) ==
    /\ MayExpire /\ claims[t].status = "claimed" /\ ~claims[t].expired
    /\ claims' = [claims EXCEPT ![t].expired = TRUE]
    /\ UNCHANGED <<made, msgStatus, attempts, nodeVars, workerVars, history>>

\* The objects selected keep the values they had, whatever happens to the rows.
SweepScan(n) ==
    /\ sweeper[n] = IdleSweeper /\ Expired # {}
    /\ sweeper' = [sweeper EXCEPT ![n] = [todo |-> {Snapshot(t) : t \in Expired}, out |-> NoEnv]]
    /\ UNCHANGED <<dbVars, inbox, listener, conn, workerVars, history>>

\* The last attempt: the claim times out and the message becomes a dead letter,
\* in one flush of UPDATEs by primary key. If the claim's row is gone the flush
\* raises StaleDataError and the sweep is over.
SweepDeadLetter(n, c) ==
    /\ OutOfAttempts(c.attempt)
    /\ IF RowThere(c.task, c.id)
       THEN /\ claims' = GivenUp(c.task)
            /\ msgStatus' = [msgStatus EXCEPT ![c.task] = "dead_letter"]
            /\ sweeper' = [sweeper EXCEPT ![n] = [todo |-> @.todo \ {c}, out |-> Notice(c.task)]]
       ELSE /\ sweeper' = [sweeper EXCEPT ![n] = IdleSweeper]
            /\ UNCHANGED <<claims, msgStatus>>

\* Otherwise the claim is deleted by primary key, whatever its status is by now
\* (a DELETE that matches no row only warns), to be published anew.
SweepReclaim(n, c) ==
    /\ ~OutOfAttempts(c.attempt)
    /\ claims' = IF RowThere(c.task, c.id) THEN Deleted(c.task) ELSE claims
    /\ sweeper' = [sweeper EXCEPT ![n] =
                      [todo |-> @.todo \ {c}, out |-> Task(c.task, c.attempt + 1)]]
    /\ UNCHANGED msgStatus

SweepOne(n) ==
    /\ sweeper[n].out = NoEnv
    /\ \E c \in sweeper[n].todo : SweepDeadLetter(n, c) \/ SweepReclaim(n, c)
    /\ UNCHANGED <<made, attempts, inbox, listener, conn, workerVars, history>>

SweepPublish(n) ==
    /\ sweeper[n].out # NoEnv
    /\ PublishTo(sweeper[n].out)
    /\ sweeper' = [sweeper EXCEPT ![n] = [todo |-> @.todo, out |-> NoEnv]]
    /\ UNCHANGED <<dbVars, listener, conn, workerVars, history>>

-----------------------------------------------------------------------------
(* Faults. *)

\* The connection breaks; neither end has noticed yet.
Drop(w) ==
    /\ Fault("drop") /\ link[w]
    /\ link' = [link EXCEPT ![w] = FALSE]
    /\ UNCHANGED <<dbVars, nodeVars, queue, worker, results, noticed>>

\* The worker's process dies, and is started again (Connect).
Kill(w) ==
    /\ Fault("kill") /\ worker[w].pc # "down"
    /\ worker' = [worker EXCEPT ![w] = Down]
    /\ link' = [link EXCEPT ![w] = FALSE]
    /\ queue' = [queue EXCEPT ![w] = <<>>]
    /\ UNCHANGED <<dbVars, nodeVars, results, noticed>>

\* The connection is refused: not a ConnectionClosed, so run leaves its loop.
ConnectFails(w) ==
    /\ Fault("connect") /\ worker[w].pc = "down"
    /\ worker' = [worker EXCEPT ![w] = Stopped]
    /\ UNCHANGED <<dbVars, nodeVars, link, queue, results, noticed>>

\* One of the worker's own transactions raises: run leaves its loop, and the
\* connection stays open with nobody reading from it.
WorkerRaises(w) ==
    /\ Fault("db")
    /\ \/ worker[w].pc = "listen" /\ link[w] /\ queue[w] # <<>>
       \/ worker[w].pc \in {"done", "write"}
    /\ worker' = [worker EXCEPT ![w] = Stopped]
    /\ UNCHANGED <<dbVars, nodeVars, link, queue, results, noticed>>

\* A transaction or the PUBLISH of a sweep raises; _run logs it, and what was
\* committed stays committed.
SweepRaises(n) ==
    /\ \/ Fault("db") /\ sweeper[n].todo # {} /\ sweeper[n].out = NoEnv
       \/ Fault("redis") /\ sweeper[n].out # NoEnv
    /\ sweeper' = [sweeper EXCEPT ![n] = IdleSweeper]
    /\ UNCHANGED <<dbVars, inbox, listener, conn, workerVars, results, noticed>>

\* A transaction of deliver_from_pubsub raises, be it the look-up of the members, the
\* backpressure query or an INSERT of the loop: _listen logs it and goes on with the
\* next envelope, and whom the loop had not visited yet gets nothing.
ListenerRaises(n) ==
    /\ Fault("listen")
    /\ \/ listener[n].todo # {} /\ UNCHANGED inbox
       \/ /\ listener[n].todo = {} /\ inbox[n] # <<>>
          /\ inbox' = [inbox EXCEPT ![n] = Tail(@)]
    /\ listener' = [listener EXCEPT ![n] = IdleListener]
    /\ UNCHANGED <<dbVars, sweeper, conn, workerVars, results, noticed>>

-----------------------------------------------------------------------------
WorkerStep(w) ==
    \/ Take(w) \/ SetBusy(w) \/ Finish(w) \/ CompleteRead(w) \/ CompleteWrite(w)
    \/ Reply(w) \/ SeesClosed(w) \/ Connect(w)

EndpointStep(w) == Register(w) \/ CleanUp(w)
ListenerStep(n) == Receive(n) \/ Deliver(n)
SweeperStep(n)  == SweepScan(n) \/ SweepOne(n) \/ SweepPublish(n)

WorkerFault(w)  == Drop(w) \/ Kill(w) \/ ConnectFails(w) \/ WorkerRaises(w)
NodeFault(n)    == SweepRaises(n) \/ ListenerRaises(n)

Next ==
    \/ \E t \in Tasks : Post(t) \/ Expire(t)
    \/ \E w \in Workers : WorkerStep(w) \/ EndpointStep(w) \/ WorkerFault(w)
    \/ \E n \in Nodes : ListenerStep(n) \/ SweeperStep(n) \/ NodeFault(n)

Spec == Init /\ [][Next]_vars

\* Event loops run what is ready, time passes, the LLM answers or times out
\* (llm.chat has a timeout), and the sweeper wakes up every SWEEP_INTERVAL.
Fairness ==
    /\ \A t \in Tasks : WF_vars(Expire(t))
    /\ \A w \in Workers : WF_vars(WorkerStep(w)) /\ WF_vars(EndpointStep(w))
    /\ \A n \in Nodes : WF_vars(ListenerStep(n)) /\ WF_vars(SweeperStep(n))

FairSpec == Spec /\ Fairness

-----------------------------------------------------------------------------
(* Properties. *)

\* A worker never holds more claims in flight than its max_concurrent, although
\* _filter_available looks at the claims long before the worker makes one.
InFlightBound == \A w \in Workers : InFlight(w) <= MaxConcurrent

\* No claim is ever made for an attempt past MAX_ATTEMPTS (_sweep re-publishes,
\* _process_task takes the attempt from the envelope), however many sweepers and
\* stale envelopes there are.
AttemptBound == \A t \in Tasks : claims[t].attempt <= MaxAttempts

\* _sweep gives a task up only after MAX_ATTEMPTS claims of it have been made.
NotGivenUpEarly == \A t \in Tasks : msgStatus[t] = "dead_letter" => made[t] >= MaxAttempts

\* A dead letter stays settled: no stale envelope, stale snapshot or registering
\* worker makes the task claimable or puts it in progress again.
DeadLetterIsSettled ==
    \A t \in Tasks : msgStatus[t] = "dead_letter" =>
        claims[t].status \in {"timed_out", "completed", "failed"}

\* A sweep has selected the claim a task has now.
Selected(t) == \E n \in Nodes : \E c \in sweeper[n].todo : c.task = t /\ c.id = claims[t].id

\* The outcome a worker has recorded for its claim (_complete_claim) is final: no
\* registration, late answer of another worker, later claim or later sweep touches
\* it. Only a sweep that had selected the claim before may still delete it.
OutcomeIsKept ==
    [][\A t \in Tasks : claims[t].status \in {"completed", "failed"} /\ ~Selected(t) =>
          claims'[t] = claims[t] /\ ~Selected(t)']_vars

\* A posted task is on its way to a worker: queued at the worker's node, in the
\* delivery loop there, or received.
Carries(s, t) == \E i \in DOMAIN s : s[i].kind = "task" /\ s[i].task = t
OnItsWay(t, w) ==
    \/ Carries(inbox[Home[w]], t)
    \/ Carries(<<listener[Home[w]].env>>, t) /\ w \in listener[Home[w]].todo
    \/ Carries(queue[w], t)

\* No task falls between the router, which withholds it from saturated workers,
\* the claims table and the sweeper, which forgets a claim before it publishes the
\* task anew: as long as a worker is left, a task nobody has claimed is on its way
\* to one, or the sweeper that took it back is about to publish it.
TaskIsOffered ==
    \A t \in Tasks : msgStatus[t] # "none" /\ claims[t].status = "none" =>
        \/ \A w \in Workers : worker[w].pc = "stopped"
        \/ \E w \in Workers : worker[w].pc # "stopped" /\ OnItsWay(t, w)
        \/ \E n \in Nodes : Carries(<<sweeper[n].out>>, t)

\* What _filter_available and the delivery loop let a worker miss: an unclaimed task
\* that is on its way to a worker gets to it, whatever else is queued, claimed, taken
\* back or published meanwhile, unless the worker has as many claims in flight as it
\* may have when the router looks.
SkippedOnlyIfSaturated ==
    [][\A t \in Tasks, w \in Workers :
          /\ msgStatus[t] # "none" /\ OnItsWay(t, w)
          /\ claims[t].status = "none" /\ claims'[t].status = "none"
          => OnItsWay(t, w)' \/ InFlight(w) >= MaxConcurrent]_vars

\* A task's row and its message's status, as one state of the task.
Standing(t) ==
    IF msgStatus[t] = "none" THEN "none"
    ELSE IF msgStatus[t] = "dead_letter" THEN "dead"
    ELSE IF claims[t].status = "none" THEN "open"
    ELSE IF claims[t].status = "claimed" THEN "held" ELSE "settled"

\* Workers, registrations and sweepers together do to a task only what the
\* abstract board allows: it changes hands only by way of "open", is given up only
\* after MaxAttempts tries, and then for good.
Board == INSTANCE TaskBoard WITH
    state <- [t \in Tasks |-> Standing(t)],
    owner <- [t \in Tasks |-> claims[t].agent],
    tries <- made

ImplementsBoard == Board!Spec

\* _process_task completes the claim before it sends the result: as long as no
\* connection breaks, a task settled by a worker has a result, or one on its way.
SettledIsAnswered ==
    \A t \in Tasks : claims[t].status \in {"completed", "failed"} =>
        results[t] > 0 \/ \E w \in Workers : worker[w].pc = "reply" /\ Busy(w, t)

\* "So backpressure doesn't deadlock" (AgentRegistry.register, ClaimSweeper): no
\* claim stays in flight for ever, whatever becomes of the worker that made it.
ClaimIsReleased ==
    \A t \in Tasks : claims[t].status = "claimed" ~> claims[t].status # "claimed"

\* "Sweeper reclaims timed-out tasks and retries": a task published again for its
\* k-th attempt is claimed a k-th time, as long as a worker is left to claim it.
RetryIsClaimed ==
    \A t \in Tasks, n \in Nodes : \A k \in 2..MaxAttempts :
        sweeper[n].out = Task(t, k) ~> made[t] >= k

\* With as many workers as tasks, every task that is posted is answered
\* (demo.py): backpressure and the race for the claim never leave a task to nobody.
TaskIsAnswered == \A t \in Tasks : msgStatus[t] # "none" ~> results[t] > 0

\* "Sweeper reclaims timed-out tasks and retries up to 3x, then routes to
\* dead_letter group": a task that a worker has claimed is not forgotten; it gets
\* a result or an outcome, or the members of the group get to know.
ClaimedTaskIsFinished ==
    \A t \in Tasks : made[t] > 0 ~>
        results[t] > 0 \/ claims[t].status \in {"completed", "failed"} \/ t \in noticed
=============================================================================
