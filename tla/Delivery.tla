------------------------------ MODULE Delivery ------------------------------
(***************************************************************************)
(* The data plane of the message bus: server/message_router.py together    *)
(* with the parts of server/main.py (websocket_endpoint),                  *)
(* server/connection_manager.py, server/redis_pubsub.py and                *)
(* registry/agent_registry.py that it runs through.                        *)
(*                                                                         *)
(* A step of the model is the code between two awaits that other tasks can *)
(* observe: one PostgreSQL transaction, one PUBLISH, one WebSocket frame,  *)
(* or a synchronous change of the node's connection table.                 *)
(***************************************************************************)
EXTENDS Integers, Sequences, FiniteSets

CONSTANTS
    Nodes,          \* server processes
    Agents,         \* agent identifiers
    Groups,         \* group identifiers
    Messages,       \* message UUIDs; every one is sent by a client at most once
    Socks,          \* WebSocket connections; every one is opened at most once
    NodeOf,         \* the node a connection is made to
    AgentOf,        \* the agent_id in the connection's URL
    GroupsOf,       \* the groups an agent names in its connection parameters
    From,           \* the agent that sends a message
    To,             \* an agent (type "dm") or a group (type "group")
    Qualified,      \* agents holding every capability the message requires
    InitReady,      \* connections established before the model starts
    Faults,         \* what may fail: "db" (a transaction), "redis" (a PUBLISH,
                    \* or a node's subscription)
    MaxCrashes,     \* bound on node crashes
    None            \* "no message", "no agent", "no connection"

ASSUME DeliveryAssumption ==
    /\ IsFiniteSet(Agents)
    /\ NodeOf \in [Socks -> Nodes] /\ AgentOf \in [Socks -> Agents]
    /\ GroupsOf \in [Agents -> SUBSET Groups]
    /\ From \in [Messages -> Agents] /\ To \in [Messages -> Agents \cup Groups]
    /\ Qualified \in [Messages -> SUBSET Agents]
    /\ Agents \cap Groups = {}
    /\ InitReady \in SUBSET Socks
    /\ \A s, r \in InitReady :
          NodeOf[s] = NodeOf[r] /\ AgentOf[s] = AgentOf[r] => s = r
    /\ Faults \in SUBSET {"db", "redis"} /\ MaxCrashes \in Nat
    /\ None \notin Messages \cup Agents \cup Socks

VARIABLES
    \* PostgreSQL
    agents,      \* rows of table agents
    members,     \* table group_memberships, per group
    status,      \* messages.status, "none" while there is no row
    recipients,  \* messages.recipient_count
    attempts,    \* rows of table delivery_attempts
    acks,        \* table acks, per message
    \* each node
    conns,       \* ConnectionManager._connections
    inbox,       \* what Redis has queued for the node's subscription
    listener,    \* RedisPubSub._listen and the deliver_from_pubsub it awaits
    crashes,     \* node crashes so far
    \* each connection
    handler,     \* the websocket_endpoint coroutine
    open,        \* connections whose client end is alive
    unacked,     \* messages the client has received and not yet acknowledged
    \* history
    sentOn,      \* messages received by the server on a connection, in order
    got,         \* messages received by the client on a connection, in order
    sends        \* frames handed to a WebSocket, per message and agent

dbVars   == <<agents, members, status, recipients, attempts, acks>>
sockVars == <<handler, open, unacked, sentOn>>
vars == <<dbVars, conns, inbox, listener, crashes, sockVars, got, sends>>

-----------------------------------------------------------------------------
HandlerPc  == {"new", "checked", "accepted", "registered", "ready", "counted",
               "persisted", "acking", "gone"}
ListenerPc == {"idle", "loop", "send", "failed", "dead", "down"}

NewHandler  == [pc |-> "new", msg |-> None, n |-> 0]
Ready       == [pc |-> "ready", msg |-> None, n |-> 0]
Gone        == [pc |-> "gone", msg |-> None, n |-> 0]
IdleListener == [pc |-> "idle", msg |-> None, agent |-> None, todo |-> {}]

IsGroup(m)   == To[m] \in Groups
Sent(m)      == \E s \in Socks : \E i \in 1..Len(sentOn[s]) : sentOn[s][i] = m
Listening(n) == listener[n].pc \notin {"dead", "down"}
IsLocal(n, a) == conns[n][a] # None

-----------------------------------------------------------------------------
\* Faulty variants of the helpers defined below; no specification uses them.
ContinueForgets(m, todo) ==          \* the loop loses its envelope
    IF todo = {} THEN IdleListener ELSE [IdleListener EXCEPT !.pc = "loop", !.todo = todo]
EnqueueFirst(q, m) == <<m>> \o q     \* publications overtake one another
EnqueueLatest(q, m) == <<m>>          \* a mailbox of one message
EnqueueTwice(q, m) == q \o <<m, m>>  \* a local shortcut besides the PUBLISH
NeverPopped(n, a) == conns           \* disconnect forgets the pop
AlwaysDuplicate(m, a) == TRUE        \* rowcount is 0 after a fresh INSERT, too
AckCountTwice(m, a) == Cardinality(acks[m] \cup {a}) + 1   \* its own INSERT twice
MembersAndSender(m) ==               \* exclude=from_agent is dropped
    {a \in members[To[m]] : a \in Qualified[m] \/ a = From[m]}

\* The capability and sender filters of _get_capable_members.
CapableMembers(m) == {a \in members[To[m]] : a # From[m] /\ a \in Qualified[m]}

\* The for-loop of deliver_from_pubsub, with `todo` still to visit.
Continue(m, todo) ==
    IF todo = {} THEN IdleListener
    ELSE [pc |-> "loop", msg |-> m, agent |-> None, todo |-> todo]

\* A subscription hands messages over in the order of their publication.
Enqueue(q, m) == Append(q, m)

\* ConnectionManager.disconnect: the agent's entry is popped, whichever
\* connection it holds.
Popped(n, a) == [conns EXCEPT ![n][a] = None]

\* The foreign keys of delivery_attempts.
References(m, a) == status[m] # "none" /\ a \in agents

\* What the driver reports after an INSERT ... ON CONFLICT DO NOTHING, with a
\* conflict or without one (README.md:266).
Rowcount(m, a) == -1

\* rowcount == 0, the test _deliver_local makes after its INSERT.
SeenAsDuplicate(m, a) == Rowcount(m, a) = 0

\* The acks handle_ack counts: its uncommitted INSERT is seen by its own
\* transaction, and by no other.
AckCount(m, a) == Cardinality(acks[m] \cup {a})

-----------------------------------------------------------------------------
DbType ==
    /\ agents \in SUBSET Agents
    /\ members \in [Groups -> SUBSET Agents]
    /\ status \in [Messages -> {"none", "pending", "delivered"}]
    /\ recipients \in [Messages -> Nat]
    /\ attempts \in SUBSET (Messages \X Agents)
    /\ acks \in [Messages -> SUBSET Agents]

ListenerType ==
    /\ listener \in [Nodes -> [pc : ListenerPc, msg : Messages \cup {None},
                               agent : Agents \cup {None}, todo : SUBSET Agents]]
    /\ \A n \in Nodes :
          /\ listener[n].pc \in {"loop", "send", "failed"} => listener[n].msg \in Messages
          /\ listener[n].pc \in {"send", "failed"} => listener[n].agent \in Agents

NodeType ==
    /\ conns \in [Nodes -> [Agents -> Socks \cup {None}]]
    /\ inbox \in [Nodes -> Seq(Messages)]
    /\ crashes \in Nat

HandlerType ==
    /\ handler \in [Socks -> [pc : HandlerPc, msg : Messages \cup {None}, n : Nat]]
    /\ \A s \in Socks :
          handler[s].pc \in {"counted", "persisted", "acking"} => handler[s].msg \in Messages

ClientType ==
    /\ open \in SUBSET Socks
    /\ unacked \in [Socks -> SUBSET Messages]
    /\ sentOn \in [Socks -> Seq(Messages)]
    /\ got \in [Socks -> Seq(Messages)]
    /\ sends \in [Messages -> [Agents -> Nat]]

TypeOK == DbType /\ ListenerType /\ NodeType /\ HandlerType /\ ClientType

Init ==
    /\ agents = {AgentOf[s] : s \in InitReady}
    /\ members = [g \in Groups |-> {a \in agents : g \in GroupsOf[a]}]
    /\ status = [m \in Messages |-> "none"]
    /\ recipients = [m \in Messages |-> 0]
    /\ attempts = {}
    /\ acks = [m \in Messages |-> {}]
    /\ conns = [n \in Nodes |-> [a \in Agents |->
                   IF \E s \in InitReady : NodeOf[s] = n /\ AgentOf[s] = a
                   THEN CHOOSE s \in InitReady : NodeOf[s] = n /\ AgentOf[s] = a
                   ELSE None]]
    /\ inbox = [n \in Nodes |-> <<>>]
    /\ listener = [n \in Nodes |-> IdleListener]
    /\ crashes = 0
    /\ handler = [s \in Socks |-> IF s \in InitReady THEN Ready ELSE NewHandler]
    /\ open = InitReady
    /\ unacked = [s \in Socks |-> {}]
    /\ sentOn = [s \in Socks |-> <<>>]
    /\ got = [s \in Socks |-> <<>>]
    /\ sends = [m \in Messages |-> [a \in Agents |-> 0]]

-----------------------------------------------------------------------------
(* Connection life cycle. *)

\* The duplicate check of ConnectionManager.connect: a second connection of an
\* agent to the same node is closed with code 4409.
CheckDuplicate(s) ==
    /\ handler[s].pc = "new" /\ listener[NodeOf[s]].pc # "down"
    /\ handler' = [handler EXCEPT ![s].pc =
                      IF IsLocal(NodeOf[s], AgentOf[s]) THEN "gone" ELSE "checked"]
    /\ UNCHANGED <<dbVars, conns, inbox, listener, crashes, open, unacked, sentOn, got, sends>>

\* ws.accept() has returned: the connection enters the table, unconditionally.
Accept(s) ==
    /\ handler[s].pc = "checked"
    /\ handler' = [handler EXCEPT ![s].pc = "accepted"]
    /\ conns' = [conns EXCEPT ![NodeOf[s]][AgentOf[s]] = s]
    /\ open' = open \cup {s}
    /\ UNCHANGED <<dbVars, inbox, listener, crashes, unacked, sentOn, got, sends>>

\* registry.register upserts the agent row and then caches it in Redis.
Register(s) ==
    /\ handler[s].pc = "accepted"
    /\ handler' = [handler EXCEPT ![s].pc = "registered"]
    /\ agents' = agents \cup {AgentOf[s]}
    /\ UNCHANGED <<members, status, recipients, attempts, acks, conns, inbox, listener,
                   crashes, open, unacked, sentOn, got, sends>>

\* registry.join_groups, for the groups named in the connection's parameters;
\* then the endpoint enters its receive loop.
EnterGroups(s) ==
    LET a == AgentOf[s] IN
    /\ handler[s].pc = "registered"
    /\ handler' = [handler EXCEPT ![s] = Ready]
    /\ members' = [g \in Groups |-> IF g \in GroupsOf[a] THEN members[g] \cup {a}
                                                         ELSE members[g]]
    /\ UNCHANGED <<agents, status, recipients, attempts, acks, conns, inbox, listener,
                   crashes, open, unacked, sentOn, got, sends>>

\* The client goes away; the server has not noticed yet.
ClientDrops(s) ==
    /\ s \in open
    /\ open' = open \ {s}
    /\ UNCHANGED <<dbVars, conns, inbox, listener, crashes, handler, unacked, sentOn, got, sends>>

\* receive_text raises: the finally block removes the agent's table entry,
\* whichever connection that entry holds by now.
HandlerExits(s) ==
    /\ handler[s].pc = "ready" /\ s \notin open
    /\ handler' = [handler EXCEPT ![s] = Gone]
    /\ conns' = Popped(NodeOf[s], AgentOf[s])
    /\ UNCHANGED <<dbVars, inbox, listener, crashes, open, unacked, sentOn, got, sends>>

\* WebSocket actions join_group and leave_group.
JoinGroup(s, g) ==
    /\ handler[s].pc = "ready"
    /\ members' = [members EXCEPT ![g] = @ \cup {AgentOf[s]}]
    /\ UNCHANGED <<agents, status, recipients, attempts, acks, conns, inbox, listener,
                   crashes, sockVars, got, sends>>

LeaveGroup(s, g) ==
    /\ handler[s].pc = "ready"
    /\ members' = [members EXCEPT ![g] = @ \ {AgentOf[s]}]
    /\ UNCHANGED <<agents, status, recipients, attempts, acks, conns, inbox, listener,
                   crashes, sockVars, got, sends>>

-----------------------------------------------------------------------------
(* MessageRouter.route, run by the sender's websocket_endpoint. *)

\* A "send" frame: the recipients are counted in a transaction of their own.
CountRecipients(s, m) ==
    /\ handler[s].pc = "ready" /\ From[m] = AgentOf[s] /\ ~Sent(m)
    /\ handler' = [handler EXCEPT ![s] =
          [pc |-> "counted", msg |-> m,
           n |-> IF IsGroup(m) THEN Cardinality(CapableMembers(m)) ELSE 1]]
    /\ sentOn' = [sentOn EXCEPT ![s] = Append(@, m)]
    /\ UNCHANGED <<dbVars, conns, inbox, listener, crashes, open, unacked, got, sends>>

\* _persist_message: INSERT ... ON CONFLICT DO NOTHING.
PersistMessage(s) ==
    LET m == handler[s].msg IN
    /\ handler[s].pc = "counted"
    /\ handler' = [handler EXCEPT ![s].pc = "persisted"]
    /\ IF status[m] = "none"
       THEN /\ status' = [status EXCEPT ![m] = "pending"]
            /\ recipients' = [recipients EXCEPT ![m] = handler[s].n]
       ELSE UNCHANGED <<status, recipients>>
    /\ UNCHANGED <<agents, members, attempts, acks, conns, inbox, listener, crashes,
                   open, unacked, sentOn, got, sends>>

\* RedisPubSub.publish: every node with a live subscription gets a copy.
Publish(s) ==
    /\ handler[s].pc = "persisted"
    /\ handler' = [handler EXCEPT ![s] = Ready]
    /\ inbox' = [n \in Nodes |-> IF Listening(n) THEN Enqueue(inbox[n], handler[s].msg)
                                                 ELSE inbox[n]]
    /\ UNCHANGED <<dbVars, conns, listener, crashes, open, unacked, sentOn, got, sends>>

-----------------------------------------------------------------------------
(* MessageRouter.handle_ack, one READ COMMITTED transaction in two steps: what *)
(* it reads, and its commit.                                                   *)

\* The INSERT and the COUNT.
CountAcks(s, m) ==
    /\ handler[s].pc = "ready" /\ m \in unacked[s] /\ status[m] # "none"
    /\ handler' = [handler EXCEPT ![s] =
          [pc |-> "acking", msg |-> m, n |-> AckCount(m, AgentOf[s])]]
    /\ unacked' = [unacked EXCEPT ![s] = @ \ {m}]
    /\ UNCHANGED <<dbVars, conns, inbox, listener, crashes, open, sentOn, got, sends>>

CommitAck(s) ==
    LET m == handler[s].msg IN
    /\ handler[s].pc = "acking"
    /\ handler' = [handler EXCEPT ![s] = Ready]
    /\ acks' = [acks EXCEPT ![m] = @ \cup {AgentOf[s]}]
    /\ status' = [status EXCEPT ![m] = IF handler[s].n >= recipients[m] THEN "delivered" ELSE @]
    /\ UNCHANGED <<agents, members, recipients, attempts, conns, inbox, listener, crashes,
                   open, unacked, sentOn, got, sends>>

-----------------------------------------------------------------------------
(* MessageRouter.deliver_from_pubsub, run by the node's single listener task. *)

\* A direct message is for its addressee if local; a group message is for the
\* capable members that backpressure lets through (any of them: claims are
\* modelled in TaskClaims).
ReceiveFromPubsub(n) ==
    /\ listener[n].pc = "idle" /\ inbox[n] # <<>>
    /\ inbox' = [inbox EXCEPT ![n] = Tail(@)]
    /\ LET m == Head(inbox[n]) IN
       IF IsGroup(m)
       THEN \E available \in SUBSET CapableMembers(m) :
               listener' = [listener EXCEPT ![n] = Continue(m, available)]
       ELSE listener' = [listener EXCEPT ![n] =
               Continue(m, IF IsLocal(n, To[m]) THEN {To[m]} ELSE {})]
    /\ UNCHANGED <<dbVars, conns, crashes, sockVars, got, sends>>

\* A faulty variant of the next action: its session is closed without a commit.
TryDeliverUncommitted(n) ==
    LET m == listener[n].msg IN
    /\ listener[n].pc = "loop"
    /\ \E a \in listener[n].todo :
        LET rest == listener[n].todo \ {a} IN
        listener' = [listener EXCEPT ![n] =
            IF IsLocal(n, a) THEN [pc |-> "send", msg |-> m, agent |-> a, todo |-> rest]
                             ELSE Continue(m, rest)]
    /\ UNCHANGED <<dbVars, conns, inbox, crashes, sockVars, got, sends>>

\* One iteration up to the commit of the delivery_attempts row. A violated
\* foreign key raises out of the loop and abandons the rest of it.
TryDeliver(n) ==
    LET m == listener[n].msg IN
    /\ listener[n].pc = "loop"
    /\ \E a \in listener[n].todo :
        LET rest == listener[n].todo \ {a} IN
        IF ~IsLocal(n, a) THEN
            /\ listener' = [listener EXCEPT ![n] = Continue(m, rest)]
            /\ UNCHANGED attempts
        ELSE IF ~References(m, a) THEN
            /\ listener' = [listener EXCEPT ![n] = IdleListener]
            /\ UNCHANGED attempts
        ELSE IF SeenAsDuplicate(m, a) THEN
            /\ listener' = [listener EXCEPT ![n] = Continue(m, rest)]
            /\ UNCHANGED attempts
        ELSE
            /\ listener' = [listener EXCEPT ![n] =
                  [pc |-> "send", msg |-> m, agent |-> a, todo |-> rest]]
            /\ attempts' = attempts \cup {<<m, a>>}
    /\ UNCHANGED <<agents, members, status, recipients, acks, conns, inbox, crashes,
                   sockVars, got, sends>>

\* ConnectionManager.send_json finds no connection and returns False.
SendFindsNothing(n) ==
    /\ listener[n].pc = "send" /\ ~IsLocal(n, listener[n].agent)
    /\ listener' = [listener EXCEPT ![n] = Continue(listener[n].msg, listener[n].todo)]
    /\ UNCHANGED <<dbVars, conns, inbox, crashes, sockVars, got, sends>>

\* The frame is handed to the connection; a client that is gone gets nothing,
\* and the server either does not notice or sees send_json raise.
SendFrame(n) ==
    LET m == listener[n].msg
        a == listener[n].agent
        s == conns[n][a]
    IN
    /\ listener[n].pc = "send" /\ IsLocal(n, a)
    /\ sends' = [sends EXCEPT ![m][a] = @ + 1]
    /\ \/ /\ s \in open
          /\ got' = [got EXCEPT ![s] = Append(@, m)]
          /\ unacked' = [unacked EXCEPT ![s] = @ \cup {m}]
          /\ listener' = [listener EXCEPT ![n] = Continue(m, listener[n].todo)]
       \/ /\ s \notin open
          /\ \/ listener' = [listener EXCEPT ![n] = Continue(m, listener[n].todo)]
             \/ listener' = [listener EXCEPT ![n].pc = "failed"]
          /\ UNCHANGED <<got, unacked>>
    /\ UNCHANGED <<dbVars, conns, inbox, crashes, handler, open, sentOn>>

\* The except clause of send_json: disconnect(agent_id), whichever connection
\* the entry holds by now.
SendFailed(n) ==
    LET a == listener[n].agent IN
    /\ listener[n].pc = "failed"
    /\ conns' = Popped(n, a)
    /\ listener' = [listener EXCEPT ![n] = Continue(listener[n].msg, listener[n].todo)]
    /\ UNCHANGED <<dbVars, inbox, crashes, sockVars, got, sends>>

-----------------------------------------------------------------------------
(* Faults. *)

\* A transaction or the PUBLISH of route or handle_ack raises: the endpoint
\* answers "internal server error" and reads the next frame.
HandlerRaises(s) ==
    /\ \/ "db" \in Faults /\ handler[s].pc \in {"counted", "acking"}
       \/ "redis" \in Faults /\ handler[s].pc = "persisted"
    /\ handler' = [handler EXCEPT ![s] = Ready]
    /\ UNCHANGED <<dbVars, conns, inbox, listener, crashes, open, unacked, sentOn, got, sends>>

\* registry.register or join_groups raises: they are called before the try
\* statement, so nothing removes the entry that manager.connect has made.
RegisterRaises(s) ==
    /\ \/ "db" \in Faults /\ handler[s].pc \in {"accepted", "registered"}
       \/ "redis" \in Faults /\ handler[s].pc = "registered"
    /\ handler' = [handler EXCEPT ![s] = Gone]
    /\ open' = open \ {s}
    /\ UNCHANGED <<dbVars, conns, inbox, listener, crashes, unacked, sentOn, got, sends>>

\* A transaction of deliver_from_pubsub raises: _listen logs it and goes on with
\* the next message.
ListenerRaises(n) ==
    /\ "db" \in Faults
    /\ listener[n].pc = "loop"
    /\ listener' = [listener EXCEPT ![n] = IdleListener]
    /\ UNCHANGED <<dbVars, conns, inbox, crashes, sockVars, got, sends>>

\* The subscription's connection breaks: listen() raises outside the inner try,
\* the task ends, and only another subscribe call would start a new one.
ListenerDies(n) ==
    /\ "redis" \in Faults
    /\ listener[n].pc = "idle"
    /\ listener' = [listener EXCEPT ![n].pc = "dead"]
    /\ inbox' = [inbox EXCEPT ![n] = <<>>]
    /\ UNCHANGED <<dbVars, conns, crashes, sockVars, got, sends>>

\* A crash loses the node's memory; its clients see their connections closed.
NodeCrashes(n) ==
    LET lost == {s \in Socks : NodeOf[s] = n /\ handler[s].pc # "new"} IN
    /\ crashes < MaxCrashes /\ listener[n].pc # "down"
    /\ crashes' = crashes + 1
    /\ conns' = [conns EXCEPT ![n] = [a \in Agents |-> None]]
    /\ inbox' = [inbox EXCEPT ![n] = <<>>]
    /\ listener' = [listener EXCEPT ![n] = [IdleListener EXCEPT !.pc = "down"]]
    /\ handler' = [s \in Socks |-> IF s \in lost THEN Gone ELSE handler[s]]
    /\ open' = open \ lost
    /\ unacked' = [s \in Socks |-> IF s \in lost THEN {} ELSE unacked[s]]
    /\ UNCHANGED <<dbVars, sentOn, got, sends>>

\* docker-compose "restart: unless-stopped"; lifespan() subscribes afresh.
NodeRestarts(n) ==
    /\ listener[n].pc = "down"
    /\ listener' = [listener EXCEPT ![n].pc = "idle"]
    /\ UNCHANGED <<dbVars, conns, inbox, crashes, sockVars, got, sends>>

-----------------------------------------------------------------------------
\* What the endpoint does by itself once a frame is in: the SDK acknowledges
\* every message it receives, so acknowledging counts as the endpoint's step.
HandlerStep(s) ==
    \/ Accept(s) \/ Register(s) \/ EnterGroups(s) \/ HandlerExits(s)
    \/ PersistMessage(s) \/ Publish(s)
    \/ \E m \in Messages : CountAcks(s, m)
    \/ CommitAck(s)

ClientStep(s) ==
    \/ CheckDuplicate(s) \/ ClientDrops(s)
    \/ \E m \in Messages : CountRecipients(s, m)
    \/ \E g \in Groups : JoinGroup(s, g) \/ LeaveGroup(s, g)

ListenerStep(n) ==
    \/ ReceiveFromPubsub(n) \/ TryDeliver(n)
    \/ SendFindsNothing(n) \/ SendFrame(n) \/ SendFailed(n)

SockFault(s) == HandlerRaises(s) \/ RegisterRaises(s)
NodeFault(n) == ListenerRaises(n) \/ ListenerDies(n) \/ NodeCrashes(n) \/ NodeRestarts(n)

Next ==
    \/ \E s \in Socks : HandlerStep(s) \/ ClientStep(s) \/ SockFault(s)
    \/ \E n \in Nodes : ListenerStep(n) \/ NodeFault(n)

Spec == Init /\ [][Next]_vars

\* asyncio runs every ready task and PostgreSQL and Redis answer: an endpoint
\* inside a handler and a listener with work to do get on with it.
Fairness ==
    /\ \A s \in Socks : WF_vars(HandlerStep(s))
    /\ \A n \in Nodes : WF_vars(ListenerStep(n))

FairSpec == Spec /\ Fairness

-----------------------------------------------------------------------------
(* Properties. *)

\* "Atomic lock prevents duplicate delivery across nodes": a message is handed to an
\* agent's connections at most once (_deliver_local).
AtMostOnce == \A m \in Messages, a \in Agents : sends[m][a] <= 1

\* An acknowledgement leads back through the whole pipeline: it comes from an
\* agent the message was sent to, the send followed the delivery attempt, and the
\* attempt's foreign keys refer to rows that exist.
DeliveryTrail ==
    \A m \in Messages, a \in Agents :
        /\ a \in acks[m] => sends[m][a] > 0
        /\ sends[m][a] > 0 => <<m, a>> \in attempts
        /\ <<m, a>> \in attempts => status[m] # "none" /\ a \in agents

\* "delivered" is never premature: once handle_ack has set it, as many agents
\* have acknowledged the message as route counted recipients, whatever the
\* concurrent acknowledgement transactions saw.
DeliveredNeedsAcks ==
    \A m \in Messages :
        status[m] = "delivered" => Cardinality(acks[m]) >= recipients[m]

\* Two messages sent on one connection are received on any one connection in the
\* order they were sent: the endpoint routes one frame at a time, Redis keeps the
\* order of publications, and a node has a single listener task.
FifoPerConnection ==
    \A s, r \in Socks :
        \A i, j \in 1..Len(got[r]) : \A k, l \in 1..Len(sentOn[s]) :
            /\ i < j /\ sentOn[s][k] = got[r][i] /\ sentOn[s][l] = got[r][j]
            => k < l

\* A stored direct message that a handler has yet to publish, or that is on node n
\* for its addressee.
OnItsWay(m, n) ==
    \/ \E s \in Socks : handler[s].pc = "persisted" /\ handler[s].msg = m
    \/ \E i \in 1..Len(inbox[n]) : inbox[n][i] = m
    \/ /\ listener[n].msg = m
       /\ \/ listener[n].pc = "loop" /\ To[m] \in listener[n].todo
          \/ listener[n].pc = "send" /\ listener[n].agent = To[m]

Received(m, r) == \E i \in 1..Len(got[r]) : got[r][i] = m

\* Once stored, a direct message is on its way to every connection its addressee
\* has kept, or has reached it: route publishes it after the commit, every node's
\* subscription queues it, deliver_from_pubsub drops it only where there is no
\* connection, and what other nodes have logged in delivery_attempts keeps none of
\* them from sending it.
StoredIsOnItsWay ==
    \A m \in Messages, r \in InitReady \cap open :
        ~IsGroup(m) /\ status[m] # "none" /\ To[m] = AgentOf[r]
            => OnItsWay(m, NodeOf[r]) \/ Received(m, r)

\* Whom the bus may hand a message to, whatever becomes of the memberships.
Addressees ==
    [m \in Messages |-> IF IsGroup(m) THEN Qualified[m] \ {From[m]} ELSE {To[m]}]

\* The whole pipeline, with its nodes and transactions, does to a message only
\* what the abstract bus does: it is stored once, handed to an addressee once, and
\* acknowledged by those who have it.
Bus == INSTANCE MessageBus WITH
    state <- status, need <- recipients, handed <- sends, acked <- acks

ImplementsBus == Bus!Spec

\* A connection is turned away as a duplicate only while another endpoint of
\* the same agent runs on the node (ConnectionManager.connect): an entry never
\* outlives the endpoint that made it.
RejectedOnlyIfDuplicate ==
    [][\A s \in Socks :
          handler[s].pc = "new" /\ handler'[s].pc = "gone" =>
              \E r \in Socks \ {s} :
                  /\ NodeOf[r] = NodeOf[s] /\ AgentOf[r] = AgentOf[s]
                  /\ handler[r].pc \notin {"new", "checked", "gone"}]_vars

Connected(s) == /\ handler[s].pc = "ready" /\ s \in open
                /\ conns[NodeOf[s]][AgentOf[s]] = s

Lost(s) == s \notin open /\ handler[s].pc \notin {"new", "checked"}

\* A direct message accepted from its sender is eventually handed to some
\* connection of its addressee (route, publish, deliver_from_pubsub), unless a
\* connection of the addressee is lost or closed meanwhile: the row inserted into
\* delivery_attempts before the send blocks nobody.
DirectMessageIsSent ==
    \A m \in Messages, r \in Socks :
        (~IsGroup(m) /\ Sent(m) /\ To[m] = AgentOf[r] /\ Connected(r))
            ~> (\/ sends[m][To[m]] > 0
                \/ \E s \in Socks : AgentOf[s] = To[m] /\ Lost(s))

\* handle_ack "marks delivered when all recipients acked": once no
\* acknowledgement is in progress, a message with all its acknowledgements is
\* marked delivered.
AllAckedIsDelivered ==
    \A m \in Messages :
        /\ status[m] # "none" /\ recipients[m] > 0
        /\ Cardinality(acks[m]) >= recipients[m]
        /\ \A s \in Socks : ~(handler[s].pc = "acking" /\ handler[s].msg = m)
        => status[m] = "delivered"
=============================================================================
