------------------------------ MODULE Directory ------------------------------
(***************************************************************************)
(* What the bus knows about one agent: its row in table agents, the copy   *)
(* of it cached in Redis, its entries in the nodes' connection tables and  *)
(* its API key (registry/agent_registry.py, the cache helpers of           *)
(* server/redis_pubsub.py, and in server/main.py the key administration,   *)
(* the authentication and the life of websocket_endpoint).                 *)
(*                                                                         *)
(* All of this state is kept per agent_id and nothing relates two agents,  *)
(* so the model follows a single one.  A step is one transaction, one      *)
(* Redis command or one synchronous change of a connection table; an ORM   *)
(* update is two steps, its SELECT and its flush by primary key.           *)
(***************************************************************************)
EXTENDS Integers, FiniteSets

CONSTANTS
    Nodes,          \* server processes
    Socks,          \* connections of the agent; every one is opened at most once
    NodeOf,         \* the node a connection is made to
    Calls,          \* HTTP calls about the agent; each also names the key it makes
    Readers,        \* callers of AgentRegistry.lookup
    Declared,       \* statuses the agent declares of itself
    Faults,         \* which of the faults in FaultKinds occur
    MaxFaults,      \* how many of them
    None            \* SQL NULL, "no node", "no connection"

AgentStatus == {"idle", "busy", "offline"}
FaultKinds  == {"db", "redis", "crash"}

ASSUME DirectoryAssumption ==
    /\ NodeOf \in [Socks -> Nodes]
    /\ Declared \in SUBSET AgentStatus
    /\ Faults \in SUBSET FaultKinds /\ MaxFaults \in Nat
    /\ None \notin Nodes \cup Socks \cup Calls

VARIABLES
    row,        \* the agent's row in table agents
    cache,      \* the Redis key agent:{agent_id}
    conns,      \* ConnectionManager._connections of each node, for the agent
    sock,       \* the websocket_endpoint coroutine of each connection
    open,       \* connections whose client end is alive
    call,       \* register_agent, rotate_key and delete_agent
    reader,     \* AgentRegistry.lookup: idle, or the row it is about to cache
    returned,   \* history: keys some caller has been given
    disturbed,  \* history: see the actions that set it
    faults      \* faults so far

sockVars == <<conns, sock, open>>
history  == <<returned, disturbed, faults>>
vars == <<row, cache, sockVars, call, reader, history>>

-----------------------------------------------------------------------------
\* An endpoint between the commit of register and that of unregister.
ListedPc == {"caching", "ready", "getting", "setting", "leaving"}
\* Between the first write of the cache and its eviction.
CachedPc == {"ready", "getting", "setting", "leaving", "evicting"}
SockPc   == {"new", "authed", "checked", "accepted"} \cup ListedPc \cup CachedPc
                \cup {"gone", "cut"}
WritePc  == {"insert", "update", "rotate"}
CallPc   == WritePc \cup {"new", "delete", "pop", "reply", "done"}

NoRow   == [key |-> None, status |-> "none", node |-> None]
NoEntry == [status |-> "none", node |-> None, by |-> "none"]
Entry(st, n, who) == [status |-> st, node |-> n, by |-> who]

NewSock == [pc |-> "new", status |-> "none", copy |-> NoEntry]
Leaving == [pc |-> "leaving", status |-> "none", copy |-> NoEntry]
Gone    == [pc |-> "gone", status |-> "none", copy |-> NoEntry]
Cut     == [pc |-> "cut", status |-> "none", copy |-> NoEntry]
NewCall == [pc |-> "new", node |-> None, old |-> None, knew |-> {}]
Over    == [pc |-> "done", node |-> None, old |-> None, knew |-> {}]
Idle    == [pc |-> "idle", copy |-> NoEntry]

\* The endpoint of s goes on to pc; so does the call c.
SockTo(s, pc) ==
    [sock EXCEPT ![s] = [pc |-> pc, status |-> sock[s].status, copy |-> sock[s].copy]]
CallTo(c, pc) ==
    [call EXCEPT ![c] = [pc |-> pc, node |-> call[c].node, old |-> call[c].old,
                         knew |-> call[c].knew]]

\* `s` holds an endpoint that has been accepted and is not over.
Running(s) == sock[s].pc \in {"accepted"} \cup ListedPc \cup CachedPc

Fault(kind) == kind \in Faults /\ faults < MaxFaults /\ faults' = faults + 1

-----------------------------------------------------------------------------
\* Faulty variants of the helpers defined below; no specification uses them.
MarksOnlyIdle ==                             \* a busy agent is left as it is
    IF row.status = "idle" THEN [row EXCEPT !.status = "offline"] ELSE row
EvictsOnlyIdle ==                            \* a changed entry is left to its TTL
    IF cache.status = "idle" THEN NoEntry ELSE cache
CopyUnchanged(e, st) == e                    \* writes back what it has read
NeverRegistered(key) == FALSE                \* no 409 for a registered agent
AlwaysHit(e) == TRUE                         \* `if cached` is dropped

\* UPDATE agents SET status = ... WHERE agent_id = ...: nothing if there is no row.
RowWithStatus(st) ==
    IF row = NoRow THEN NoRow ELSE [key |-> row.key, status |-> st, node |-> row.node]

\* The upsert of register.
RowUpserted(n) == [key |-> row.key, status |-> "idle", node |-> n]

\* UPDATE agents SET api_key_hash = ... by primary key.
RowWithKey(c) == [key |-> c, status |-> row.status, node |-> row.node]

\* What unregister makes of the row and of the cache.
RowUnregistered == RowWithStatus("offline")
CacheEvicted == NoEntry

\* `if cached`, and cached["status"] = status.
Hit(e) == e # NoEntry
CopyWithStatus(e, st) == Entry(st, e.node, e.by)

\* existing.api_key_hash, and agent.api_key_hash == _hash_key(old_key).
AlreadyRegistered(key) == key # None
KeyMatches(old) == row.key # None /\ row.key = old

\* The INSERT of register_agent; it only takes place if no row is there by then.
RowInserted(c) == [key |-> c, status |-> "offline", node |-> None]

-----------------------------------------------------------------------------
Rows    == [key : Calls \cup {None}, status : AgentStatus, node : Nodes \cup {None}]
Entries == [status : AgentStatus, node : Nodes \cup {None}, by : {"endpoint", "lookup"}]

SocksType ==
    /\ conns \in [Nodes -> Socks \cup {None}]
    /\ sock \in [Socks -> [pc : SockPc, status : AgentStatus \cup {"none"},
                           copy : Entries \cup {NoEntry}]]
    /\ \A s \in Socks : sock[s].pc = "getting" => sock[s].status \in AgentStatus
    /\ \A s \in Socks : sock[s].pc = "setting" => sock[s].copy \in Entries
    /\ open \in SUBSET Socks

CallsType ==
    call \in [Calls -> [pc : CallPc, node : Nodes \cup {None},
                       old : Calls \cup {None}, knew : SUBSET Calls]]

ReadersType ==
    /\ reader \in [Readers -> [pc : {"idle", "filling"}, copy : Entries \cup {NoEntry}]]
    /\ \A l \in Readers : reader[l].pc = "filling" =>
          reader[l].copy \in Entries /\ reader[l].copy.by = "lookup"

TypeOK ==
    /\ row \in Rows \cup {NoRow}
    /\ cache \in Entries \cup {NoEntry}
    /\ SocksType /\ CallsType /\ ReadersType
    /\ returned \in SUBSET Calls /\ disturbed \in BOOLEAN /\ faults \in Nat

Init ==
    /\ row = NoRow
    /\ cache = NoEntry
    /\ conns = [n \in Nodes |-> None]
    /\ sock = [s \in Socks |-> NewSock]
    /\ open = {}
    /\ call = [c \in Calls |-> NewCall]
    /\ reader = [l \in Readers |-> Idle]
    /\ returned = {}
    /\ disturbed = FALSE
    /\ faults = 0

-----------------------------------------------------------------------------
(* The life of a connection: websocket_endpoint. *)

\* The token is the admin key, or a key its owner has been given.
Authenticate(s) ==
    /\ sock[s].pc = "new"
    /\ \E admitted \in {TRUE} \cup {KeyMatches(k) : k \in returned} :
          sock' = SockTo(s, IF admitted THEN "authed" ELSE "gone")
    /\ UNCHANGED <<row, cache, conns, open, call, reader, history>>

\* ConnectionManager.connect: the duplicate check, and after ws.accept() the entry.
CheckDuplicate(s) ==
    /\ sock[s].pc = "authed"
    /\ sock' = SockTo(s, IF conns[NodeOf[s]] # None THEN "gone" ELSE "checked")
    /\ UNCHANGED <<row, cache, conns, open, call, reader, history>>

Accept(s) ==
    /\ sock[s].pc = "checked"
    /\ sock' = SockTo(s, "accepted")
    /\ conns' = [conns EXCEPT ![NodeOf[s]] = s]
    /\ open' = open \cup {s}
    /\ UNCHANGED <<row, cache, call, reader, history>>

\* registry.register: the upsert, and then the cache. It disturbs the directory
\* if another connection of the agent is there, or still on its way out.
RegisterRow(s) ==
    /\ sock[s].pc = "accepted"
    /\ sock' = [sock EXCEPT ![s] = [pc |-> "caching", status |-> "idle", copy |-> NoEntry]]
    /\ row' = RowUpserted(NodeOf[s])
    /\ disturbed' = (disturbed \/ \E r \in Socks \ {s} : Running(r))
    /\ UNCHANGED <<cache, conns, open, call, reader, returned, faults>>

CacheAgent(s) ==
    /\ sock[s].pc = "caching"
    /\ sock' = SockTo(s, "ready")
    /\ cache' = Entry("idle", NodeOf[s], "endpoint")
    /\ UNCHANGED <<row, conns, open, call, reader, history>>

\* The action "status": update_status changes the row, then reads the cache
\* entry and, if there is one, writes it back with the new status.
UpdateRow(s, st) ==
    /\ sock[s].pc = "ready" /\ s \in open
    /\ sock' = [sock EXCEPT ![s] = [pc |-> "getting", status |-> st, copy |-> NoEntry]]
    /\ row' = RowWithStatus(st)
    /\ UNCHANGED <<cache, conns, open, call, reader, history>>

GetCached(s) ==
    /\ sock[s].pc = "getting"
    /\ sock' = IF ~Hit(cache) THEN SockTo(s, "ready")
               ELSE [sock EXCEPT ![s] = [pc |-> "setting", status |-> sock[s].status,
                                         copy |-> CopyWithStatus(cache, sock[s].status)]]
    /\ UNCHANGED <<row, cache, conns, open, call, reader, history>>

SetCached(s) ==
    /\ sock[s].pc = "setting"
    /\ sock' = [sock EXCEPT ![s] = [pc |-> "ready", status |-> sock[s].status, copy |-> NoEntry]]
    /\ cache' = sock[s].copy
    /\ UNCHANGED <<row, conns, open, call, reader, history>>

\* The client goes away; then the finally block: manager.disconnect pops the
\* agent's entry, whichever connection it holds, and registry.unregister changes
\* the row and evicts the cache entry.
ClientDrops(s) ==
    /\ s \in open
    /\ open' = open \ {s}
    /\ UNCHANGED <<row, cache, conns, sock, call, reader, history>>

Leave(s) ==
    /\ sock[s].pc = "ready" /\ s \notin open
    /\ sock' = [sock EXCEPT ![s] = Leaving]
    /\ conns' = [conns EXCEPT ![NodeOf[s]] = None]
    /\ UNCHANGED <<row, cache, open, call, reader, history>>

UnregisterRow(s) ==
    /\ sock[s].pc = "leaving"
    /\ sock' = SockTo(s, "evicting")
    /\ row' = RowUnregistered
    /\ UNCHANGED <<cache, conns, open, call, reader, history>>

Evict(s) ==
    /\ sock[s].pc = "evicting"
    /\ sock' = [sock EXCEPT ![s] = Gone]
    /\ cache' = CacheEvicted
    /\ UNCHANGED <<row, conns, open, call, reader, history>>

-----------------------------------------------------------------------------
(* Administration: each call is a SELECT, a decision, and a flush. *)

Begin(c, pc, old) ==
    \E n \in Nodes : call' = [call EXCEPT ![c] =
        [pc |-> pc, node |-> n, old |-> old, knew |-> returned]]

Finish(c) == call' = [call EXCEPT ![c] = Over]

\* register_agent: 409 if the row has a key.
RegisterReads(c) ==
    /\ call[c].pc = "new"
    /\ IF AlreadyRegistered(row.key) THEN Finish(c)
       ELSE Begin(c, IF row = NoRow THEN "insert" ELSE "update", None)
    /\ UNCHANGED <<row, cache, sockVars, reader, history>>

\* rotate_key: 404 or 403 unless the caller knows the key.
RotateReads(c) ==
    /\ call[c].pc = "new"
    /\ \E old \in returned :
          IF KeyMatches(old) THEN Begin(c, "rotate", row.key) ELSE Finish(c)
    /\ UNCHANGED <<row, cache, sockVars, reader, history>>

\* The flush: an INSERT that meets a row raises IntegrityError, an UPDATE that
\* meets none raises StaleDataError; either way the caller gets a 500.
WriteKey(c) ==
    /\ call[c].pc \in WritePc
    /\ IF (call[c].pc = "insert") = (row = NoRow)
       THEN /\ call' = CallTo(c, "reply")
            /\ row' = IF call[c].pc = "insert" THEN RowInserted(c) ELSE RowWithKey(c)
       ELSE Finish(c) /\ UNCHANGED row
    /\ disturbed' = (disturbed \/ (call[c].pc = "insert" /\ \E s \in Socks : Running(s)))
    /\ UNCHANGED <<cache, sockVars, reader, returned, faults>>

\* The caller receives the key.
ReturnKey(c) ==
    /\ call[c].pc = "reply"
    /\ Finish(c)
    /\ returned' = returned \cup {c}
    /\ UNCHANGED <<row, cache, sockVars, reader, disturbed, faults>>

\* delete_agent: the row goes (a DELETE of no row only warns), then the entry in
\* the table of the node that serves the call; no connection is closed, and the
\* cache entry stays.
DeleteReads(c) ==
    /\ call[c].pc = "new"
    /\ IF row = NoRow THEN Finish(c) ELSE Begin(c, "delete", None)
    /\ UNCHANGED <<row, cache, sockVars, reader, history>>

DeleteRow(c) ==
    /\ call[c].pc = "delete"
    /\ call' = CallTo(c, "pop")
    /\ row' = NoRow
    /\ UNCHANGED <<cache, sockVars, reader, history>>

DeletePops(c) ==
    /\ call[c].pc = "pop"
    /\ Finish(c)
    /\ conns' = [conns EXCEPT ![call[c].node] = None]
    /\ UNCHANGED <<row, cache, sock, open, reader, history>>

-----------------------------------------------------------------------------
(* AgentRegistry.lookup, and the cache. *)

\* A miss, and the row as the caller then reads it; without a row nothing is cached.
LookupMisses(l) ==
    /\ reader[l].pc = "idle" /\ ~Hit(cache) /\ row # NoRow
    /\ reader' = [reader EXCEPT ![l] =
          [pc |-> "filling", copy |-> Entry(row.status, row.node, "lookup")]]
    /\ UNCHANGED <<row, cache, sockVars, call, history>>

LookupFills(l) ==
    /\ reader[l].pc = "filling"
    /\ reader' = [reader EXCEPT ![l] = Idle]
    /\ cache' = reader[l].copy
    /\ UNCHANGED <<row, sockVars, call, history>>

\* AGENT_CACHE_TTL seconds after the last write of the entry.
CacheExpires ==
    /\ cache # NoEntry
    /\ cache' = NoEntry
    /\ UNCHANGED <<row, sockVars, call, reader, history>>

-----------------------------------------------------------------------------
(* Faults. All of them disturb the directory. *)

\* register raises before the endpoint's try statement, or unregister in its
\* finally block: the endpoint is over without having tidied up.
EndpointRaises(s) ==
    /\ \/ Fault("db") /\ sock[s].pc \in {"accepted", "leaving"}
       \/ Fault("redis") /\ sock[s].pc \in {"caching", "evicting"}
    /\ sock' = [sock EXCEPT ![s] = Cut]
    /\ open' = open \ {s}
    /\ disturbed' = TRUE
    /\ UNCHANGED <<row, cache, conns, call, reader, returned>>

\* update_status raises inside the loop: "internal server error", next frame.
UpdateRaises(s) ==
    /\ Fault("redis") /\ sock[s].pc \in {"getting", "setting"}
    /\ sock' = [sock EXCEPT ![s] = [pc |-> "ready", status |-> sock[s].status, copy |-> NoEntry]]
    /\ disturbed' = TRUE
    /\ UNCHANGED <<row, cache, conns, open, call, reader, returned>>

\* A transaction of a call raises: a 500, nothing is changed.
CallRaises(c) ==
    /\ Fault("db") /\ call[c].pc \in WritePc \cup {"delete"}
    /\ Finish(c)
    /\ disturbed' = TRUE
    /\ UNCHANGED <<row, cache, sockVars, reader, returned>>

\* A node's memory is lost, and with it the answers it owed; PostgreSQL and
\* Redis keep what they have. The container starts again with an empty table.
NodeCrashes(n) ==
    LET lost == {s \in Socks : NodeOf[s] = n /\ sock[s].pc \notin {"new", "gone"}} IN
    /\ Fault("crash")
    /\ conns' = [conns EXCEPT ![n] = None]
    /\ sock' = [s \in Socks |-> IF s \in lost THEN Cut ELSE sock[s]]
    /\ open' = open \ lost
    /\ call' = [c \in Calls |-> IF call[c].node = n THEN Over ELSE call[c]]
    /\ disturbed' = TRUE
    /\ UNCHANGED <<row, cache, reader, returned>>

-----------------------------------------------------------------------------
SockStep(s) ==
    \/ Authenticate(s) \/ CheckDuplicate(s) \/ Accept(s) \/ RegisterRow(s) \/ CacheAgent(s)
    \/ \E st \in Declared : UpdateRow(s, st)
    \/ GetCached(s) \/ SetCached(s)
    \/ ClientDrops(s) \/ Leave(s) \/ UnregisterRow(s) \/ Evict(s)

CallStep(c) ==
    \/ RegisterReads(c) \/ RotateReads(c) \/ WriteKey(c) \/ ReturnKey(c)
    \/ DeleteReads(c) \/ DeleteRow(c) \/ DeletePops(c)

ReaderStep(l) == LookupMisses(l) \/ LookupFills(l)

Next ==
    \/ \E s \in Socks : SockStep(s) \/ EndpointRaises(s) \/ UpdateRaises(s)
    \/ \E c \in Calls : CallStep(c) \/ CallRaises(c)
    \/ \E l \in Readers : ReaderStep(l)
    \/ CacheExpires
    \/ \E n \in Nodes : NodeCrashes(n)

Spec == Init /\ [][Next]_vars

-----------------------------------------------------------------------------
(* Properties. *)

\* find_by_capability never offers an agent that has left: as long as the row
\* says "idle" or "busy", an endpoint of the agent is still to unregister, or one
\* was cut short by a fault.
ListedIsThere ==
    row.status \in {"idle", "busy"} =>
        \E s \in Socks : sock[s].pc \in ListedPc \cup {"cut"}

\* The cache entry register has made does not outlive the agent's endpoints: the
\* last one to leave evicts it, however their writes and write-backs interleave.
CachedIsThere ==
    cache.by = "endpoint" => \E s \in Socks : sock[s].pc \in CachedPc \cup {"cut"}

\* While one connection of the agent is up and nothing has raced with it, the row
\* says what the agent last declared and where it is connected, and so does the
\* entry that register made in the cache.
ListedAsDeclared ==
    \A s \in Socks : ~disturbed /\ sock[s].pc = "ready" =>
        /\ row # NoRow => row.status = sock[s].status /\ row.node = NodeOf[s]
        /\ cache.by = "endpoint" => cache.status = sock[s].status /\ cache.node = NodeOf[s]

\* register_agent and rotate_key only replace a key some caller had been given
\* before the call if the call presented that very key, although they read and
\* write it in separate statements.
EstablishedKeyIsSafe ==
    [][\A c \in Calls :
          call[c].pc \in WritePc /\ row'.key = c /\ row.key \in call[c].knew
              => row.key = call[c].old]_vars
=============================================================================
