# TLA+ verification of the agent message bus

This directory holds a TLA+ model of the message bus in `src/`: WebSocket
server nodes (`server/`), an agent registry (`registry/`), a PostgreSQL schema
(`db/`) and an agent SDK (`agents/`). TLC checks the model on small instances;
TLAPS proves the safety properties the passing runs check for every value of the
constants, some of them under hypotheses that section 5 names.

## 1. The system

### Parts and state

| Part | Source | State | Operations |
|---|---|---|---|
| WebSocket endpoint | `server/main.py:245-348` | one coroutine per connection | authenticate, connect, register, join groups, loop over `send`, `ack`, `status`, `join_group`, `leave_group`, `complete_claim`; on exit disconnect and unregister |
| HTTP administration | `server/main.py:83-158` | `agents.api_key_hash` | register, rotate key, delete agent, list |
| ConnectionManager | `server/connection_manager.py` | `_connections`: agent to WebSocket, per node | connect (4409 for a duplicate), disconnect, is_local, send_json |
| MessageRouter | `server/message_router.py` | none; works on the tables | route, deliver_from_pubsub, handle_ack, complete_claim |
| RedisPubSub | `server/redis_pubsub.py` | subscription, listener task, handlers | publish, psubscribe, `_listen`, cache get/set |
| ClaimSweeper | `server/claim_sweeper.py` | a task per node | `_sweep` every 30 s: reclaim or dead-letter expired claims |
| AgentRegistry | `registry/agent_registry.py` | `agents`, `group_memberships`, Redis cache | register, unregister, update_status, join/leave group, lookups |
| Database | `db/` | `messages`, `delivery_attempts`, `acks`, `claims`, `agents`, `group_memberships` | transactions at READ COMMITTED |
| BaseAgent | `agents/base_agent.py` | socket, pending replies, thread id | connect, run (reconnect), `_listen` (acknowledge, handler), send, request, reply |
| WorkerAgent | `agents/worker_agent.py` | the task in hand | `_try_claim`, `_process_task`, `_complete_claim` |
| Orchestrator, demo | `agents/orchestrator_agent.py`, `demo.py` | results | post tasks, collect results |
| LLM client | `agents/llm.py` | none | chat, 120 s timeout |
| Dashboard | `server/dashboard.html`, `main.py:161-242` | none | read-only queries |

### Interaction

A message goes sender SDK -> endpoint -> `route` (count the recipients, persist,
PUBLISH) -> Redis -> the listener task of *every* node -> `deliver_from_pubsub`
(who of the addressees is connected here?) -> `delivery_attempts` row -> frame ->
receiver SDK -> `ack` -> `handle_ack`. A task is a group message: every
available worker gets it, each tries to insert the one `claims` row, the winner
asks the LLM, completes the claim and sends the result. Sweepers of all nodes
take expired claims back and publish their tasks again, or give them up and
publish a notice to the group `dead_letter`. A worker that registers loses its
claims in flight. Workers write to the `claims` table directly, not through the
server.

### What is hard

* **Interleaving.** Nodes share nothing but PostgreSQL and Redis. Within a node
  every `await` lets other coroutines run: between the duplicate check and the
  table write of `connect`, between the log entry and the send of `_deliver_local`,
  between the SELECT and the UPDATE of `_complete_claim`.
* **Failure.** A transaction and the following PUBLISH are not atomic; Redis keeps
  nothing for a node that is down; a closed connection is noticed late.
* **Time.** Claims expire while their worker still works; the LLM's timeout
  equals the claim's.
* **Stale state.** Sweeps work through a snapshot, envelopes carry attempt numbers,
  counts of recipients are stored.

`PROJECT.json` lists each hazard at its line, with the properties aimed at it.

### Correctness, per part

| Part | Should hold |
|---|---|
| Router, nodes | at most one frame per message and agent (not so with two nodes, section 4); order per sender and receiver; a message accepted is handed over; `delivered` exactly when all recipients acknowledged |
| ConnectionManager, endpoint | an entry belongs to a running endpoint; only true duplicates are rejected |
| Workers, `claims` | one worker per task (not so while one registers, section 4); no more claims than `max_concurrent`; a settled claim has a result |
| Sweeper | attempts bounded; no early dead letter; dead letters settled; retries picked up; completed claims left alone; no claim in flight for ever |
| Registry | an agent that has left is neither listed nor cached; status and cache of one that is there agree with what it declared |
| Keys | one valid key per agent; a key in use is replaced only by its owner |
| Request/reply | a request is resolved by its reply, once, wherever it is made; a request ends; a disconnected agent stays away; agents do not keep each other busy |
| All nodes together | what a message, a task or a request goes through is what a bus, a board or a call without nodes would do |

## 2. Plan

| # | Module | Models | State of the work |
|---|---|---|---|
| 1 | `Delivery` | data plane: connections, routing, pub/sub, delivery log, acknowledgements, crashes | done, checked, proved |
| 2 | `TaskClaims` | claims, backpressure, sweepers, worker and reconnect | done, checked, proved |
| 3 | `Directory` | `agents` row, Redis cache and connection table of one agent; its key; administration under an open connection | done, checked, proved |
| 4 | `RequestReply` | reconnect loop, pending futures, timeouts, handlers, requests inside a handler, republished requests | done, checked, proved |
| 5 | `MessageBus`, `TaskBoard`, `RemoteCall` | abstract specifications, implemented by 1, 2 and 4 | done, checked, proved |
| 6 | a composition of 1 and 2 | one `messages.status` written by `handle_ack` and by the sweeper | not planned any more: only the dashboard reads the column afterwards |

The order was: what moves messages, what distributes work, what the two rest on
(the directory), who uses them (the agents), and last what all of it promises.
Constants carry named assumptions, and no module needs RECURSIVE, so every
specification can be proved about.

## 3. Modules

| Module | Contents |
|---|---|
| `Delivery.tla` | specification of the data plane, its properties |
| `TaskClaims.tla` | specification of the work distribution, its properties |
| `Directory.tla` | specification of what the bus knows of an agent, its properties |
| `RequestReply.tla` | specification of the agents, their properties |
| `MessageBus.tla`, `TaskBoard.tla`, `RemoteCall.tla` | abstract specifications that `Delivery`, `TaskClaims` and `RequestReply` implement |
| `MCDelivery.tla`, `MCTaskClaims.tla`, `MCDirectory.tla`, `MCRequestReply.tla` | values for the constants; the runs are the `.cfg` files of the same name |
| `DeliveryProofs.tla`, `DeliveryOrder.tla`, `DeliveryRefinement.tla` | theorems about `Delivery`: types, the trail and acknowledgements; order, rejections, at most once where an agent keeps to one node; refinement, the way of a message |
| `TaskClaimsProofs.tla`, `TaskClaimsConnected.tla`, `TaskClaimsRefinement.tla` | theorems about `TaskClaims`: types, attempts and dead letters; what holds while connections last; refinement, outcomes |
| `DirectoryProofs.tla`, `RequestReplyProofs.tla` | theorems about `Directory` and `RequestReply` |

The specifications share no variables. `Delivery` leaves to `TaskClaims` which
members backpressure withholds a task from; `TaskClaims` posts a task in one step,
whose parts are in `Delivery`; `RequestReply` sees the other two as a bus that may
lose a message but keeps its order, and a sweeper that may publish one again;
`Directory` follows a connection's life without its messages.

The section "Faulty variants" of a specification holds wrong versions of helper
operators; one of an action stands before that action. No specification uses them;
substituting one for the right version shows that a property notices such a bug
(`PROJECT.json`, "mutants").

### Delivery

A step is what other tasks can observe between two awaits: one transaction, one
PUBLISH, one frame, one synchronous change of a connection table.

| Variable | Code |
|---|---|
| `agents`, `members`, `status`, `recipients`, `attempts`, `acks` | rows of the tables; `status` and `recipients` are columns of `messages` |
| `conns` | `ConnectionManager._connections` of each node |
| `inbox` | what Redis has queued for a node's subscription, in order of publication |
| `listener` | `RedisPubSub._listen` with the `deliver_from_pubsub` it awaits: `idle`, in the `loop`, about to `send`, in the except clause (`failed`), `dead`, node `down` |
| `handler` | a `websocket_endpoint` coroutine: `new`, `checked`, `accepted`, `registered`, `ready`, then within a frame `counted`, `persisted`, `acking`; `gone` |
| `open`, `unacked` | the client's end: is it alive, what has it still to acknowledge |
| `sentOn`, `got`, `sends` | history: what the server received, what clients received, frames handed over |

Connecting is `CheckDuplicate`, `Accept`, `Register`, `EnterGroups` (four awaits);
leaving is `ClientDrops`, then `HandlerExits`, which pops the entry by agent id as
the code does. Routing is `CountRecipients`, `PersistMessage`, `Publish`;
acknowledging is `CountAcks` (INSERT and COUNT within the transaction) and
`CommitAck`. Delivery is `ReceiveFromPubsub`, `TryDeliver` (up to the commit of
the attempt) and `SendFrame`, `SendFindsNothing` or `SendFailed`. Faults:
`HandlerRaises`, `RegisterRaises`, `ListenerRaises`, `ListenerDies`,
`NodeCrashes`, `NodeRestarts`.

Abstractions: connections and messages are used once (a reconnection is another
member of `Socks`; the SDK gives every message a fresh UUID); the SDK's automatic
acknowledgement is an endpoint step; backpressure may withhold a group message
from any members (`TaskClaims` says from which); capabilities are a constant
relation; the reply path of `deliver_from_pubsub` (89-93) does what the direct
path does and is not told apart; Redis is reliable and ordered for a subscribed
node and keeps nothing for another one.

**rowcount.** `_deliver_local` decides by `result.rowcount == 0`. `requirements.txt`
pins `sqlalchemy==2.0.23` and `psycopg==3.2.13`, and for this stack the project's
README says that rowcount is -1 after `ON CONFLICT DO NOTHING` (`README.md:266`). So
`Rowcount` is -1, with a conflict or without one, and `SeenAsDuplicate`, which is the
code's test, is never true: `delivery_attempts` is a log, not a lock. What the code
would do with other drivers are faulty variants: `AlwaysDuplicate` (`Delivery`) has 0
after a fresh insert (`test_claim.py:28`), and no message is ever sent; `LoggedBefore`
(`TaskClaims`) has 0 exactly on a conflict, and retries are swallowed.

### TaskClaims

| Variable | Code |
|---|---|
| `claims` | the row of `claims` for a task: id, agent, status, attempt_count, and whether expires_at has passed |
| `made` | how many rows have been inserted for a task, which gives the primary key of each |
| `msgStatus`, `attempts` | `messages.status` and `delivery_attempts` |
| `inbox`, `listener` | as above; one iteration of the delivery loop is one step here |
| `sweeper` | the snapshot a sweep still works through (`todo`) and the envelope it has to publish (`out`) |
| `conn`, `link` | the node's view of a worker's connection (`accepted` before register is done), and whether it is alive |
| `queue` | envelopes in the worker's socket |
| `worker` | `run`/`_listen`/`_process_task`: `down`, `listen`, `claimed`, `work`, `done`, `write`, `reply`, and `stopped` once `run` has left its loop |
| `results`, `noticed`, `faults` | history |

`Post`, `Receive`, `Deliver` are posting and delivery; `Take`, `SetBusy`, `Finish`,
`CompleteRead`, `CompleteWrite`, `Reply` are `_process_task`; `SeesClosed` and
`Connect` are the loop of `run`; `Register` and `CleanUp` belong to the node;
`Expire` is the clock; `SweepScan`, `SweepOne` (`SweepDeadLetter` or
`SweepReclaim`), `SweepPublish` are a sweep. ORM writes are by primary key and take
effect whatever the row's status is by now: an UPDATE of a missing row raises
StaleDataError, a DELETE of one only warns. Faults: `Drop`, `Kill`,
`ConnectFails`, `WorkerRaises`, `SweepRaises`, `ListenerRaises`. The last one is a
transaction of `deliver_from_pubsub` that raises, be it the look-up of the members,
the backpressure query or an INSERT of the loop: the envelope is lost for whom the loop
had not visited yet (`redis_pubsub.py:58-63`).

Abstractions: `Post` is one step (its parts are in `Delivery`); members connected to
another node are dropped in `Receive`; `max_concurrent` is the same for all; a
worker's rows in `agents` and `group_memberships` exist; acknowledgements do
not matter here and are left out, so `msgStatus` is "pending" where a message
may also be "delivered"; the sweeper's branch for a claim without a message
(`claim_sweeper.py:63-65`) is unreachable, since nothing deletes messages; the
WebSocket action `complete_claim` (`message_router.py:211-222`) is not sent by
the SDK.

### Directory

All of this state is per agent and nothing relates two agents, so one agent is
followed: its connections, calls about it, lookups of it.

| Variable | Code |
|---|---|
| `row` | the agent's row in `agents`: `api_key_hash` (as the call that made the key), `status`, `server_id` |
| `cache` | the Redis key `agent:{agent_id}`, and who made the entry |
| `conns` | the agent's entry in each node's `_connections` |
| `sock` | `websocket_endpoint`: `new`, `authed`, `checked`, `accepted`, `caching`, `ready`, within the action `status` `getting` and `setting`, then `leaving`, `evicting`, `gone`; `cut` when a fault ended it |
| `open` | is the client's end alive |
| `call` | `register_agent`, `rotate_key` or `delete_agent`: what it has read, the keys known when it began |
| `reader` | `AgentRegistry.lookup`: the row it is about to cache |
| `returned`, `disturbed`, `faults` | history: keys given out; whether connections have raced, a call re-created the row under an endpoint, or a fault occurred |

A connection is `Authenticate`, `CheckDuplicate`, `Accept`, `RegisterRow`,
`CacheAgent`; the action `status` is `UpdateRow`, `GetCached`, `SetCached`; leaving
is `ClientDrops`, `Leave`, `UnregisterRow`, `Evict`. A call is a read
(`RegisterReads`, `RotateReads`, `DeleteReads`), a flush (`WriteKey`, `DeleteRow`)
and what follows it (`ReturnKey`, `DeletePops`). A lookup is `LookupMisses`,
`LookupFills`; the TTL is `CacheExpires`. Faults: `EndpointRaises`, `UpdateRaises`,
`CallRaises`, `NodeCrashes`.

Abstractions: a connection and a call are used once; callers present the admin
key or keys they have been given; capabilities are left out; the cascade of a
deleted row to other tables is left out.

### RequestReply

| Variable | Code |
|---|---|
| `loop` | the task of `run`: `connect`, `recv`, `ack`, in a handler (`handle`, `work`, or `asking` for a request of its own), `sleep` before reconnecting, `ended` |
| `running`, `pending` | `_running`, `_pending_replies` |
| `link`, `queue` | is the socket open; the frames it has received |
| `req`, `fut`, `fired` | a call of `request`, its future, whether its `wait_for` has timed out |
| `holder`, `settled` | the `claims` row of a request's message |
| `asked`, `replied`, `faults` | history: whether `disconnect` met a loop that could notice; requests an addressee has replied to |

The loop is `Connect`, `Receive` (which resolves a future), `Ack`, a handler,
`ReceiveRaises`, `Sleep`. Handlers are `Observe` (orchestrator, demo), `Claim` and
`WorkerAnswers` (`_process_task`), and for a handler of a user's own
`CustomAnswers`, `CustomIgnores`, `CustomAsks`. A request is `MakeRequest`,
`TimeOut`, `Return`: `wait_for` cancels the future when the timer fires and returns
when its task runs, and a reply may come in between. `Disconnect` is a task
of its own. Faults: `ConnectionDrops`, `ConnectRaises`, `HandlerRaises`, `Requeue`.

Abstractions: messages are requests, their stripped republications, replies and plain
messages; the LLM and what is said are left out; `_complete_claim` is one step
(its two are in `TaskClaims`). Which of a reply and a timeout in the same turn of the
event loop wins depends on the version of asyncio: the model allows both. The limit
of five retries is never reached, since `connect` sets the count back
(`base_agent.py:180`).

### What the nodes implement together

`MessageBus` is a bus without nodes, connections, queues or transactions: a
message is stored once, handed to each addressee at most once, acknowledged by
those who have it, and delivered only when as many acknowledged it as were counted.
`Delivery!ImplementsBus` maps `state` to `messages.status`, `need` to
`recipient_count`, `handed` to the frames sent, `acked` to the `acks` rows. Its
`Addressees` are the qualified agents other than the sender, or the one addressee:
memberships change all the time, so no smaller set is promised.

`TaskBoard` is a board without envelopes, deliveries or snapshots: a task is open,
held by one worker, settled or dead; a registering worker releases what it holds,
a sweeper reopens one task, settled or not, and gives it up only after
`MaxAttempts` tries. `TaskClaims!ImplementsBoard` maps `state` to what row and
message say together (`Standing`), `owner` to `claims.agent_id`, `tries` to the
rows inserted so far. That a sweep may reopen a *settled* task is what the code
does (`claim_sweeper.py:95`), so the board has to allow it.

`RemoteCall` is a call without frames, loops, handlers, sockets or claims: it is made, it
may be replied to any number of times, its future is settled once, by such a reply or by
the timer, and then it returns.
`RequestReply!ImplementsCalls` maps `call` to `req`, `outcome` to `fut`, `expired` to
`fired`. A caller that addresses its own group may be resolved by its own frame
(`ToSelf`), and an answer may be lost to a timer that fires before the caller runs: both
are what the code does.

## 4. Runs

Nodes, agents, connections and messages are model values. Only `directory` uses
symmetry: its two connections go to one node and its calls differ in nothing but the
key they make, no definition tells them apart, and the run checks no liveness.
In the other runs every constant has a role (an address, a home node). Deadlock is not checked
(`CHECK_DEADLOCK FALSE`) because every instance really ends: connections,
messages and tasks are used once, and when all are used up the bus is idle.

### Passing runs

| Run | Instance | Shows |
|---|---|---|
| `delivery_direct` | fair; 2 nodes, 2 messages a to b over one connection, two connections of b race for one node | `FifoPerConnection`, `StoredIsOnItsWay`, `RejectedOnlyIfDuplicate`, `DirectMessageIsSent` |
| `delivery_group` | 2 nodes, sender and 2 members who connect, join and leave, a group message; each agent keeps to one node; database and Redis failures, 1 crash with restart | `TypeOK`, `DeliveryTrail`, `AtMostOnce`, `DeliveredNeedsAcks`, `ImplementsBus` |
| `claims_steady` | fair; 2 workers on 2 nodes, 2 tasks, claims do not expire | `InFlightBound`, `TaskIsOffered`, `SkippedOnlyIfSaturated`, `TaskIsAnswered` |
| `claims_sweep` | fair; 1 worker, a watcher of `dead_letter`, sweepers on 2 nodes, claims expire, two faults of any kind | `TypeOK`, `AttemptBound`, `NotGivenUpEarly`, `DeadLetterIsSettled`, `OutcomeIsKept`, `ClaimIsReleased`, `ImplementsBoard` |
| `claims_retry` | fair; 2 workers, claims expire, 2 attempts, no faults | `SettledIsAnswered`, `TaskIsOffered`, `OutcomeIsKept`, `RetryIsClaimed` |
| `directory` | 2 connections to one node, 2 calls, 1 lookup, one fault of any kind | `TypeOK`, `ListedIsThere`, `CachedIsThere`, `ListedAsDeclared`, `EstablishedKeyIsSafe` |
| `sdk` | fair; an orchestrator asks a group of a worker and an agent whose handler asks the worker; that agent is told to disconnect; one fault or republication | `TypeOK`, `AnsweredByReply`, `PendingIsAwaited`, `GoneStaysGone`, `ImplementsCalls`, `RequestEnds` |
| `sdk_workers` | fair but for timers; an orchestrator asks a group of two workers; two republications or exceptions in a handler | `FallsSilent`, `ArrivedIsAnswered` |

### Disagreements between the code and what is said of it

Each run below checks one sentence of the README, a comment or a docstring (quoted
in `PROJECT.json`, "findings") and TLC shows a behaviour of the code against it.

| Run, property | Sentence | What happens |
|---|---|---|
| `delivery_twice`, `AtMostOnce` | atomic lock prevents duplicate delivery across nodes (`README.md:201`) | rowcount is -1, so `rowcount == 0` never holds: an agent connected to two nodes gets the message twice |
| `delivery_ackskew`, `AllAckedIsDelivered` | mark delivered when all recipients acked (`message_router.py:190`) | two transactions count without each other's row; pending for ever |
| `claims_reconnect`, `ClaimedTaskIsFinished` | retries up to 3x, then dead letter (`README.md:203`) | register deletes the claim of the crashed worker, nothing retries the task |
| `sdk_nested`, `ArrivedIsAnswered` | useful for mid-task queries (`README.md:117`) | a handler's request waits for a reply that only the loop awaiting the handler could read |

`AtMostOnce` is also checked, and proved, where it does hold: where an agent keeps to one
node (`delivery_group`). `ArrivedIsAnswered` is checked for requests made by a task of
their own (`sdk_workers`).

### Where a property stops

Some passing properties depend on the constants of their run. With other values TLC
finds them violated, each time by a behaviour the code has:

| Run, property | Change | What happens |
|---|---|---|
| `delivery_direct`, `StoredIsOnItsWay` | `Faults = {"redis"}` | a PUBLISH fails after the commit (`message_router.py:52`), or a listener task ends on a connection error and nothing restarts it (`redis_pubsub.py:55`): a stored message is nowhere |
| `delivery_direct`, `RejectedOnlyIfDuplicate` | `Faults = {"db"}`, `InitReady = {sa}` | register raises before the `try` (`main.py:272`), the table entry stays, every later connection is a duplicate of nothing |
| `claims_steady`, `TaskIsOffered` | one worker, two tasks | a task that arrives while all workers are busy is delivered to nobody, ever (`message_router.py:109`) |
| `claims_retry`, `TaskIsOffered` | `Faults = {"redis"}`, `MaxFaults = 1` | the sweep's PUBLISH fails after its DELETE is committed (`claim_sweeper.py:96`): neither claim nor envelope is left |
| `claims_retry`, `RetryIsClaimed` | one worker, or `MaxAttempts = 3` | a claim swept between the SELECT and the UPDATE of `_complete_claim` ends the worker's `run` with StaleDataError (`worker_agent.py:66`, `base_agent.py:192`); a retry that reaches only such workers is claimed by nobody |

The models also have these behaviours, which no property excludes:

* two connections of an agent pass the duplicate check before either has awaited
  `accept`, and both endpoints run (`connection_manager.py:30`);
* a member that joins between the count and the delivery gets a message whose
  `delivered` does not wait for its acknowledgement (`message_router.py:50`, `205`);
* a worker that reconnects is routed to between `accept` and `registry.register`, as
  memberships survive a disconnect; register deletes a claim it has made by then
  (`agent_registry.py:43`), and a second worker claims the task;
* two tasks pass the backpressure query before the worker claims the first, and the second
  is handed to a worker at its limit (`message_router.py:162`), which takes it up later;
* a sweep's stale snapshot deletes a claim completed meanwhile, and the task is done
  again (`claim_sweeper.py:95`); a failed claim is never looked at again
  (`claim_sweeper.py:50`);
* a dead letter's notice has an id without a row in `messages`, which a foreign key of
  `delivery_attempts` asks for: with the watcher of `claims_sweep`, `noticed` stays
  empty in every state.

`RequestReply` shows behaviours of the SDK that its properties leave room for:

* a reply also goes to the message handler (`base_agent.py:207`); a `WorkerAgent` that has
  made a request takes the reply for a task: it has a `correlation_id` but no `reply_to`,
  `reply` raises ValueError, and `run` ends (`worker_agent.py:112`, `base_agent.py:148`);
* a worker's request to another worker that the sweeper publishes again has lost its
  `correlation_id`; it is answered by a plain message, which the first worker takes for
  a task and answers by a plain message, for ever (`worker_agent.py:101-118`).
  `FallsSilent` is about workers that are asked by somebody else, as in the README: there
  no answer reaches a worker, however often a request is published, and the mutant that
  sends answers to the group a task came by violates it;
* a request an agent makes to itself is resolved by its own question
  (`base_agent.py:203`), hence the condition in `AnsweredByReply`;
* `disconnect` while a handler runs ends `_listen` but not `run`, whose `retries` is 0:
  the agent connects again (`base_agent.py:177`); while `connect` is awaited it is
  forgotten (`base_agent.py:68`). `GoneStaysGone` is about the other cases.

And `Directory`: an agent that reconnects before its old endpoint has left is
marked offline and evicted while it is connected (`agent_registry.py:51-55`), its
entry popped by the old endpoint (`main.py:347`); a lookup may cache a row that has
changed (`agent_registry.py:83`); an agent deleted between authentication and
register is there again, without a key (`agent_registry.py:31`). `ListedAsDeclared`
says what holds when nothing of the kind has happened.

### Nothing lost on the way

Four properties say of states or steps what the liveness properties say of whole
behaviours, and so come within reach of a proof.

`StoredIsOnItsWay`: a stored direct message is with the handler that is to publish it,
queued for or in the delivery loop of the node of each connection the addressee has
kept since the start, or received on it. Nothing another node the agent has connected
to does may get in the way; with a rowcount of 0 on conflicts it would (the mutant).

`TaskIsOffered`: a posted task nobody has claimed is queued, in a delivery loop or
received at a worker that runs, or a sweeper is about to publish it, unless all workers
have stopped. A router that withholds the task from everybody, or a claim deleted
without its task being published, violates it at once. `SkippedOnlyIfSaturated` says of
each single worker that a step takes an unclaimed task off its way to it only if the
worker has as many claims in flight as it may have.

`OutcomeIsKept`: what `_complete_claim` has written stays, and no sweep selects it.
A sweep that had selected the claim before may still delete it; the property stops
there and nowhere else.

### Bounds

Two nodes are enough for every race between nodes in the code: all of them are
between two holders of one message, one row or one snapshot. Two workers show
every race for a claim, two connections of one agent every race for a table
entry, a row or a cache entry, two calls every race for a key. Two messages are what an
order needs. `MAX_ATTEMPTS` is 2, one retry and one dead letter.
It is 3 in the code: `AttemptBound`, `NotGivenUpEarly`
and `DeadLetterIsSettled` are proved for every value; `RetryIsClaimed` depends on it
(see above).
`MaxCrashes` is 1 and `MaxFaults` at most 2: a second fault meets the state the first
has left. `Faults` lists the kinds a run allows. `claims_sweep` has one worker; its
safety properties were also checked with two workers (4.5 million states without
faults), an instance too slow to be kept.
`directory` has one node; two connections to two nodes were checked without
faults (7.6 million states). `sdk` has one request made by a task and one made by a
handler: the two places a future can be awaited from. `sdk_workers` has two workers, the
least that could set one another to work, and two republications of the request, so
that each of them may get it twice.

### Fairness

Liveness runs use `FairSpec`. Weak fairness is assumed of what the event loop,
PostgreSQL, Redis or time do by themselves: a handler inside a frame, a listener with
something to deliver, a worker in `_process_task` (the LLM answers or times out,
`llm.py:15`), a reconnecting worker, a node noticing a closed connection, the
sweeper (it wakes every 30 s), the passing of `expires_at`. It is per process, not per
action, so no choice inside a process is forced. Nothing is assumed of clients
(connect, send, join, leave, drop) nor of faults, nor that a crashed node restarts.
In `sdk` the loop of an agent is fair (an event loop runs ready tasks, `asyncio.sleep`
and the LLM client's timeout end), and so are the timer and the return of `wait_for`;
nothing is assumed of who calls `request` or `disconnect`, nor of faults. `sdk_workers`
and `sdk_nested` use `PatientSpec`, which assumes nothing of timers: what a reply does must
not depend on a timeout coming to help.
Liveness properties are all of the form "P leads to Q": an implication without P
ever being reached would pass, so each has a mutant that breaks it.

## 5. Proofs

TLAPS checks every leaf. The theorems hold for any number of nodes, agents,
connections, messages, workers, tasks, requests and calls, any bounds on faults, and
every set of fault kinds unless a hypothesis says otherwise. They use the assumptions
on the constants (`DeliveryAssumption`, `ClaimsAssumption`, `DirectoryAssumption`,
`RequestAssumption`: the right types, finite sets where something is counted,
`MAX_ATTEMPTS` at least 1). Every invariant, action property and refinement of the
passing runs is the subject of a theorem; where a property is false in general, the
theorem has a hypothesis, and section 4 names a behaviour outside of it.

### Delivery and TaskClaims

| Theorem | States | Argument |
|---|---|---|
| `DeliveryProofs!TypeCorrect` | `TypeOK` | one lemma per process: handler, client, listener, node faults |
| `DeliveryProofs!AckLeadsBack` | `DeliveryTrail` | `TrailInv` adds to the trail what is on its way: frames a client has yet to acknowledge and acknowledgements being inserted were sent, a listener about to send holds the attempt row, and a node's table has only an agent's own connections |
| `DeliveryProofs!DeliveredIsAcknowledged` | `DeliveredNeedsAcks` | `AckInv`: the count an uncommitted `handle_ack` holds is at most the number of rows there will be when it commits, because rows are never deleted |
| `TaskClaimsProofs!TypeCorrect` | `TypeOK` | one lemma per process; an `UPDATE` by primary key that finds its row finds a claim |
| `TaskClaimsProofs!AttemptsAreBounded` | `AttemptBound` | `IInv`, below |
| `TaskClaimsProofs!GivenUpInTime` | `NotGivenUpEarly` | `IInv` |
| `TaskClaimsProofs!DeadLettersStaySettled` | `DeadLetterIsSettled` | `IInv` |

The three properties of dead letters and attempts are not inductive: they say
nothing of the envelopes and snapshots from which the next claims are made. `IInv` adds

* `EnvelopeInv`: the attempt an envelope carries, wherever it is queued, is at most
  `MAX_ATTEMPTS` and at most one more than the claims made so far;
* `ClaimInv`: so are the attempts of the rows, and primary keys are numbers already
  given out;
* `SnapshotInv`: a sweeper's snapshot agrees with the row of the same primary key,
  if there is one. Keys are not used twice, so a claim made after the snapshot is
  never mistaken for the one in it;
* `DeadLetterInv`: the claim of a dead letter is settled and was for the last attempt.

So a sweeper that finds its row with attempts left cannot be looking at a dead
letter, and register only deletes claims in flight. Every step does one of three
things to a row (`RowStep`): leaves its key and attempt alone, deletes it, or
inserts the next one; `RowsMove` shows once that all of these keep envelopes and
snapshots sound. TLC checked `IInv` on the instance of `claims_sweep` before it was
proved.

### Order and rejections

`DeliveryOrder!MessagesStayInOrder` (`FifoPerConnection`) needs no hypothesis.
`Before` is the set of pairs of messages that no connection has sent in the other
order, `Published` the messages routing is done with. `FifoInv` says that of what is on
its way to a node (received by its connections, in the listener's hand, in its
inbox) every earlier message is `Before` every later one (`OrderInv`), that the
messages are published (`PipeInv`), that a connection routes what it has sent last
(`RoutingInv`), and that a listener goes through each member once (`TodoInv`). A step
does one of four things to a node: nothing new reaches it, the listener takes
the first message, Redis queues one, a frame is handed over; each keeps the order by
itself. A message is published after all that its sender published earlier, since
an endpoint has one frame in hand.

`DeliveryOrder!OneNodeNeedsNoLock` proves `AtMostOnce` if all connections of an agent
go to one node (`AgentsStay`: sticky sessions, and the instance of `delivery_group`); without
that it is false (`delivery_twice`). The log takes no part in the argument, as it stops
nothing. A message is not `Before` itself, so by `OrderInv` it is nowhere twice on its way to
a node; `HandedInv` adds that a frame handed over was handed over by its connection's node,
and that the listener there has neither the message for that agent before it nor in its
inbox.

`DeliveryOrder!OnlyDuplicatesAreRejected` (`RejectedOnlyIfDuplicate`) assumes
`Faults = {}`: with a failing register it is false (section 4). `EntryInv`: an entry
belongs to a connection of that agent to that node. `RunningInv`: its endpoint runs.

### The way of a direct message

`DeliveryRefinement!NothingStoredIsLost` proves `StoredIsOnItsWay` if nothing fails
(`NothingFails`: `Faults = {}` and `MaxCrashes = 0`); with a failing PUBLISH, a dying
listener or a crash it is false (section 4). `KeptInv`: a connection ready from the start and
still open has its table entry, its endpoint runs and its listener is alive: no other
endpoint of the agent gets past the duplicate check there, and no failed send pops the
entry. The agent may connect to
any number of nodes. One lemma per place a message can
be in (`WayOfHandler`, `WayOfQueue`, `WayOfListener`) says where the step leads next.

### Outcomes

`TaskClaimsRefinement!OutcomesAreKept` (`OutcomeIsKept`) needs no hypothesis.
`RowMoves` lists what a step other than `Take` does to one row: nothing to its identity
and status, deletion by register (in flight) or by a sweep that has selected it, an
update by such a sweep, or the outcome of the worker in hand. So it is enough that
nobody writes an outcome twice: `OwnInv` says that until a worker has written, a row
that is its own has no outcome, and that the primary key a worker is about to write to
has been given out and, if it is still in the table, is its own. Keys are not used
twice; without that, a late `_complete_claim` would overwrite the outcome of the next
claim. `SelectedLater` shows that a sweep selects only claims in flight. TLC checked
`OwnInv` with one worker and two faults and with two workers and one (0.6 million
states) before it was proved.

### What holds while connections last

`TaskClaimsConnected` is about the claims plane without lost connections
(`NoLoss`: no fault of kind `drop` or `kill`):

| Theorem | States | Hypothesis |
|---|---|---|
| `InFlightIsBounded` | `InFlightBound` | `NoLoss` |
| `SettledHasResult` | `SettledIsAnswered` | `NoLoss` |
| `SaturatedAloneAreSkipped` | `SkippedOnlyIfSaturated` | `NoLoss`, workers connected from the start, no failing transaction of a listener |
| `RetriesAreOffered` | `TaskIsOffered` | the same, no failing PUBLISH, and `max_concurrent` above 1 or a single task (`Roomy`) |

In all of them claims expire, sweepers work on stale snapshots, and the transactions of
workers and sweepers fail. Without the last two hypotheses of `RetriesAreOffered` the
property is false (section 4).
`ConnectedInv` says that an open link belongs to a running worker (`LinkInv`), that a claim
in flight is held by a worker that is at it, or has stopped (`HeldInv`), that a worker
is at one task only (`OneHeld`): the bound does not come from the backpressure
query, which may be stale, but from a worker's loop taking one message at a time.

The two theorems about offers rest on one lemma, `WayStays`: a task on its way to a
worker stays so unless the worker is saturated when the router looks. For
`SaturatedAloneAreSkipped` it is what remains to be said; `RetriesAreOffered` excludes
saturation by hypothesis and `OneHeld` (`RoomForOne`) and follows the task through the
sweeper: every deletion of a claim leaves its task in the sweeper's hand, and the next
step puts it into every node's queue (`OutStays`).

### Refinements

`DeliveryRefinement!BusIsImplemented` assumes `AgentsStay`: with an agent on two nodes the
bus is not implemented, as a message is handed over twice. It uses the invariants of
`DeliveryProofs`, `AddressInv` (what a listener is about to send goes to an addressee) and
`OnceInv` (it has not been handed over), which follows from `HandedInv`. Each action maps to
`Store`, `HandOver`, `Acknowledge` or a stutter; `CommitAck` of a message that is complete
is an acknowledgement repeated.
`TaskClaimsRefinement!BoardIsImplemented` needs no hypothesis: `IInv` and
`PostedInv` (a claim is of a posted task) map each action to one of the board's; a
sweep that finds its row gone maps to a stutter.

### Directory

`IInv` is `TypeOK`, `ListedIsThere`, `CachedIsThere`, `SettledInv`, `KeyInv`.
The first two are inductive in this order: an endpoint that writes back the
cache is itself still to evict it. `SettledInv` strengthens `ListedAsDeclared` to the
steps in between: while nothing has disturbed the agent at most one endpoint
runs, and what `status` has read and not yet written agrees with what it declared.
`KeyInv` says of a call about to write what key its read saw, and that a row's key
it does not know was made after it began; a call that knows the row's key has read
that very key.

| Theorem | States |
|---|---|
| `TypeCorrect` | `TypeOK` |
| `ListedAgentIsThere` | `ListedIsThere` |
| `CachedAgentIsThere` | `CachedIsThere` |
| `DirectoryAgrees` | `ListedAsDeclared` |
| `KeysAreSafe` | `EstablishedKeyIsSafe` |

### RequestReply

`IInv` adds to the properties: who awaits a request inside a handler is in that
handler (`InnerInv`); a request in an agent's socket or in hand was addressed to
it, a reply has been sent by an addressee, and no frame or claim is of a request whose
send has raised (`FrameInv`); a request that has not been made has no future
(`FreshInv`); the loop of an agent that is gone is on its way out (`GoneInv`). `InnerIsUnanswered`,
that no request made by a handler is ever resolved, then follows because `Receive` needs
a loop that waits for a frame, and this one waits for the future. It is no property one
would want: it says that `sdk_nested` is not one schedule but all of them. `ImplementsCalls` maps each action: `Receive` resolves at most one future
(`ReceiveIsResolve`), and an answer is to a request that has been sent, as the frame in
hand is sound (`AnswerIsReply`); `TimeOut` and `Return` are steps of the call, and no
other step shows.

| Theorem | States |
|---|---|
| `TypeCorrect` | `TypeOK` |
| `InnerRequestsTimeOut` | `InnerIsUnanswered` |
| `AnswersAreReplies` | `AnsweredByReply` |
| `TableAgrees` | `PendingIsAwaited` |
| `GoneIsGone` | `GoneStaysGone` |
| `CallsAreImplemented` | `ImplementsCalls` |

### Only model-checked

Liveness (`DirectMessageIsSent`, `TaskIsAnswered`, `RetryIsClaimed`,
`ClaimIsReleased`, `RequestEnds`, `FallsSilent`, `ArrivedIsAnswered`), which the prover does
not reach under fairness. Of the first three, `StoredIsOnItsWay`, `TaskIsOffered` and
`SkippedOnlyIfSaturated` are the safety part: nothing is lost, whatever the scheduling.
`StoredIsOnItsWay` and the properties of `TaskClaims` under lost connections are checked
only where the runs say so.

## 6. Not modelled

* The dashboard, `/health` and the listing endpoints, `find_by_capability` included:
  they read and keep no state.
* Size and JSON checks of the endpoint: they reject before anything changes.
* The WebSocket action `complete_claim`: no client in the repository sends it, and
  workers write to the table themselves.
* ON DELETE CASCADE of a deleted agent to its memberships, attempts and acks
  (`db/models.py:62-98`): `Directory` has the row, `Delivery` an agent set that only
  grows.
* `messages.status` as written by both `handle_ack` and the sweeper: listed as a
  hazard; only the dashboard reads it afterwards.
* `asyncio.CancelledError`, the shutdown of a server (`main.py:74-76`) and the scripts
  that drive the SDK (`demo.py`, `run_demo`): a node that stops is a node that crashes.
* The LLM, threads, topics, display columns, logging: no property is about them.
