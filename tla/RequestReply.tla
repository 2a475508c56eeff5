---------------------------- MODULE RequestReply ----------------------------
(* The agent side of the bus: BaseAgent.run with its reconnect loop and       *)
(* _listen, request and reply over pending futures (agents/base_agent.py),    *)
(* and the handlers that run inside _listen (agents/worker_agent.py,          *)
(* agents/orchestrator_agent.py, demo.py).                                    *)
(*                                                                            *)
(* Each agent is one event loop with the task of run and the tasks that call  *)
(* request or disconnect. A step is what a task does between two awaits. The  *)
(* bus (module Delivery) is reduced to what an agent can see of it: a message *)
(* is queued in the sockets of those it reaches, in the order it was sent, or *)
(* is lost; and the sweeper (module TaskClaims) may publish a request again.  *)
EXTENDS Integers, Sequences

CONSTANTS
    Agents,
    Kind,           \* what an agent's message handler is, see HandlerKinds
    InitReady,      \* agents that are connected and read when the model starts
    Leavers,        \* agents that some task disconnects, once
    Requests,       \* calls of request; each has a fresh correlation id
    By, To,         \* who makes a request, and which agents it is addressed to
    Inner,          \* requests made by the handler, while it handles a message
    Faults,         \* which of the faults in FaultKinds occur
    MaxFaults,      \* how many of them
    None            \* Python's None

\* "observe" only looks at a message (_handle_response, on_result); "work" is
\* WorkerAgent._process_task; "custom" is any handler that answers requests by
\* reply, and may make a request of its own before it does.
HandlerKinds == {"observe", "work", "custom"}
FaultKinds   == {"drop", "connect", "raise", "expire"}

ASSUME RequestAssumption ==
    /\ Kind \in [Agents -> HandlerKinds] 
    /\ InitReady \in SUBSET Agents /\ Leavers \in SUBSET Agents
    /\ By \in [Requests -> Agents] /\ To \in [Requests -> SUBSET Agents]
    /\ Inner \in SUBSET Requests /\ \A r \in Inner : Kind[By[r]] = "custom"
    /\ Faults \in SUBSET FaultKinds /\ MaxFaults \in Nat
    /\ None \notin Requests

VARIABLES
    loop,       \* the task of run, with the frame in hand and the inner request
    running,    \* _running
    link,       \* is self._ws open?
    queue,      \* frames the socket has received
    pending,    \* _pending_replies
    req,        \* the call of request
    fut,        \* its future
    fired,      \* requests whose wait_for has timed out
    holder,     \* who has the claim of a request's message, if somebody has
    settled,    \* requests whose claim is completed
    asked,      \* history: how disconnect met the loop
    replied,    \* history: requests some addressee has sent a reply to
    faults      \* faults so far

netVars == <<link, queue>>
reqVars == <<req, fut, fired>>
claims  == <<holder, settled>>
history == <<asked, replied, faults>>
vars == <<loop, running, netVars, pending, reqVars, claims, history>>

-----------------------------------------------------------------------------
LoopPc == {"connect", "recv", "ack", "handle", "work", "asking", "sleep", "ended"}
ReqPc  == {"new", "waiting", "answered", "timeout", "raised"}
FutState == {"none", "pending", "resolved", "cancelled"}

\* A "task" is a request as the sweeper publishes it again: the same message id,
\* without correlation_id and reply_to.
Envelopes == [kind : {"request", "task", "reply"}, req : Requests, from : Agents]
                \cup [kind : {"dm"}, req : {None}, from : Agents]
NoEnv == [kind |-> "none", req |-> None, from |-> None]

Envelope(kind, r, a) == [kind |-> kind, req |-> r, from |-> a]
HasReplyTo(e) == e.kind = "request"
HasTaskId(e)  == e.kind \in {"request", "task"}

Fault(kind) == kind \in Faults /\ faults < MaxFaults /\ faults' = faults + 1

-----------------------------------------------------------------------------
\* Faulty variants of the helpers defined below; no specification uses them.
WithTheSender(r) == To[r] \cup {By[r]}        \* exclude=from_agent is dropped
KeptOnTimeout(a, r) ==                        \* the pop is not in a finally clause
    IF r \in fired THEN pending[a] ELSE pending[a] \ {r}
ForgetsTheFrame(pc, e) ==                     \* the handler gets the wrong message
    [pc |-> pc, env |-> NoEnv, inner |-> None]
SleepUncounted(a) == "connect"                \* retries stays 0
AnswersToGroup(a, e) ==                       \* to the address the task was sent to
    IF HasTaskId(e) THEN To[e.req] \ {a} ELSE {e.from}
RequestsOnly(e) ==                            \* reply leaves correlation_id out
    IF e.kind = "request" THEN e.req ELSE None
CancelledOnly(r) == fut[r] = "cancelled"      \* wait_for misses the result

\* The loop of a goes on to pc with frame e in hand, and forgets an inner request.
LoopAt(pc, e) == [pc |-> pc, env |-> e, inner |-> None]
LoopTo(a, pc, e) == loop' = [loop EXCEPT ![a] = LoopAt(pc, e)]

\* What a frame carries as its correlation_id.
Correlation(e) == IF e.kind \in {"request", "reply"} THEN e.req ELSE None

\* `correlation_id in self._pending_replies`, and `not fut.done()`.
Matched(a, e) == {Correlation(e)} \cap pending[a]
Resolvable(r) == fut[r] = "pending"

\* Whom the router delivers a request to: a group's members without the sender.
Recipients(r) == To[r]

\* Whom a worker answers: reply_to, or else from_agent.
AnswersTo(a, e) == {e.from}

\* self._pending_replies.pop(correlation_id, None)
PendingWithout(a, r) == pending[a] \ {r}

\* while self._running or retries == 0, after an attempt has been counted.
AfterSleep(a) == IF running[a] THEN "connect" ELSE "ended"

\* The future wait_for awaits is done.
Done(r) == fut[r] # "pending"

-----------------------------------------------------------------------------
LoopType ==
    /\ loop \in [Agents -> [pc : LoopPc, env : Envelopes \cup {NoEnv},
                            inner : Requests \cup {None}]]
    /\ \A a \in Agents : loop[a].pc \in {"ack", "handle", "work", "asking"} =>
                            loop[a].env \in Envelopes
    /\ \A a \in Agents : loop[a].pc = "asking" => loop[a].inner \in Inner
    /\ running \in [Agents -> BOOLEAN]

TypeOK ==
    /\ LoopType
    /\ link \in [Agents -> BOOLEAN] /\ queue \in [Agents -> Seq(Envelopes)]
    /\ pending \in [Agents -> SUBSET Requests]
    /\ req \in [Requests -> ReqPc] /\ fut \in [Requests -> FutState]
    /\ fired \in SUBSET Requests
    /\ holder \in [Requests -> Agents \cup {None}] /\ settled \in SUBSET Requests
    /\ asked \in [Agents -> {"no", "heard", "missed"}]
    /\ replied \in SUBSET Requests /\ faults \in Nat

Init ==
    /\ loop = [a \in Agents |-> LoopAt(IF a \in InitReady THEN "recv" ELSE "connect", NoEnv)]
    /\ running = [a \in Agents |-> a \in InitReady]
    /\ link = [a \in Agents |-> a \in InitReady]
    /\ queue = [a \in Agents |-> <<>>]
    /\ pending = [a \in Agents |-> {}]
    /\ req = [r \in Requests |-> "new"]
    /\ fut = [r \in Requests |-> "none"]
    /\ fired = {}
    /\ holder = [r \in Requests |-> None]
    /\ settled = {}
    /\ asked = [a \in Agents |-> "no"]
    /\ replied = {}
    /\ faults = 0

-----------------------------------------------------------------------------
(* Helpers of the actions. *)

\* e reaches some of the agents it is addressed to, if their sockets are open.
Send(e, targets) ==
    \E got \in SUBSET {b \in targets : link[b]} :
        queue' = [b \in Agents |-> IF b \in got THEN Append(queue[b], e) ELSE queue[b]]

\* The handler has returned: while self._running. If not, _listen returns, and run
\* goes round its own loop, as retries is 0 since it has connected.
ReadNext(a) == LoopTo(a, IF running[a] THEN "recv" ELSE "connect", NoEnv)

\* ConnectionClosed leaves _listen: run sleeps, or ends if it is to stop.
ConnectionClosed(a) == LoopTo(a, IF running[a] THEN "sleep" ELSE "ended", NoEnv)

\* request up to its wait_for. _send comes after the entry has been made and
\* before the try statement: if it raises, the entry stays.
Request(r) ==
    /\ req[r] = "new"
    /\ pending' = [pending EXCEPT ![By[r]] = pending[By[r]] \cup {r}]
    /\ fut' = [fut EXCEPT ![r] = "pending"]
    /\ IF link[By[r]]
       THEN req' = [req EXCEPT ![r] = "waiting"] /\ Send(Envelope("request", r, By[r]), Recipients(r))
       ELSE req' = [req EXCEPT ![r] = "raised"] /\ UNCHANGED queue

-----------------------------------------------------------------------------
(* The task of run: connect, _listen, sleep. *)

Connect(a) ==
    /\ loop[a].pc = "connect"
    /\ LoopTo(a, "recv", NoEnv)
    /\ running' = [running EXCEPT ![a] = TRUE]
    /\ link' = [link EXCEPT ![a] = TRUE]
    /\ queue' = [queue EXCEPT ![a] = <<>>]
    /\ UNCHANGED <<pending, reqVars, claims, history>>

\* A frame, which resolves the future it matches if that is not done.
Receive(a) ==
    /\ loop[a].pc = "recv" /\ queue[a] # <<>>
    /\ LoopTo(a, "ack", Head(queue[a]))
    /\ queue' = [queue EXCEPT ![a] = Tail(queue[a])]
    /\ fut' = [r \in Requests |->
                 IF r \in Matched(a, Head(queue[a])) /\ Resolvable(r) THEN "resolved" ELSE fut[r]]
    /\ UNCHANGED <<running, link, pending, req, fired, claims, history>>

\* recv hands out what it has received before it raises.
ReceiveRaises(a) ==
    /\ loop[a].pc = "recv" /\ queue[a] = <<>> /\ ~link[a]
    /\ ConnectionClosed(a)
    /\ UNCHANGED <<running, netVars, pending, reqVars, claims, history>>

Ack(a) ==
    /\ loop[a].pc = "ack"
    /\ IF link[a] THEN LoopTo(a, "handle", loop[a].env) ELSE ConnectionClosed(a)
    /\ UNCHANGED <<running, netVars, pending, reqVars, claims, history>>

\* Every wait of run ends: with a new connection, or because it is to stop.
Sleep(a) ==
    /\ loop[a].pc = "sleep"
    /\ LoopTo(a, AfterSleep(a), NoEnv)
    /\ UNCHANGED <<running, netVars, pending, reqVars, claims, history>>

-----------------------------------------------------------------------------
(* The handlers. *)

Observe(a) ==
    /\ loop[a].pc = "handle" /\ Kind[a] = "observe"
    /\ ReadNext(a)
    /\ UNCHANGED <<running, netVars, pending, reqVars, claims, history>>

\* _try_claim and set_status("busy"). A reply or a plain message has an id that
\* nobody else claims.
Claim(a) ==
    LET e == loop[a].env
        taken == HasTaskId(e) /\ holder[e.req] # None IN
    /\ loop[a].pc = "handle" /\ Kind[a] = "work"
    /\ IF taken THEN ReadNext(a)
       ELSE IF link[a] THEN LoopTo(a, "work", e) ELSE ConnectionClosed(a)
    /\ holder' = IF taken \/ ~HasTaskId(e) THEN holder ELSE [holder EXCEPT ![e.req] = a]
    /\ UNCHANGED <<running, netVars, pending, reqVars, settled, history>>

\* _process_task after the LLM: complete the claim, then answer by reply if the
\* message has a correlation_id, else by a message to its sender. reply raises
\* ValueError if there is no reply_to, and that ends run.
WorkerAnswers(a) ==
    LET e == loop[a].env
        refused == Correlation(e) # None /\ ~HasReplyTo(e) IN
    /\ loop[a].pc = "work" /\ Kind[a] = "work"
    /\ settled' = IF HasTaskId(e) /\ holder[e.req] = a THEN settled \cup {e.req} ELSE settled
    /\ IF refused \/ ~link[a]
       THEN /\ IF refused THEN LoopTo(a, "ended", NoEnv) ELSE ConnectionClosed(a)
            /\ UNCHANGED <<queue, replied>>
       ELSE /\ ReadNext(a)
            /\ Send(Envelope(IF HasReplyTo(e) THEN "reply" ELSE "dm",
                             IF HasReplyTo(e) THEN e.req ELSE None, a), AnswersTo(a, e))
            /\ replied' = IF HasReplyTo(e) THEN replied \cup {e.req} ELSE replied
    /\ UNCHANGED <<running, link, pending, reqVars, holder, asked, faults>>

\* A custom handler answers what asks for a reply, or does not.
CustomAnswers(a) ==
    LET e == loop[a].env IN
    /\ loop[a].pc = "handle" /\ Kind[a] = "custom" /\ HasReplyTo(e)
    /\ IF link[a]
       THEN /\ ReadNext(a)
            /\ Send(Envelope("reply", e.req, a), {e.from})
            /\ replied' = replied \cup {e.req}
       ELSE ConnectionClosed(a) /\ UNCHANGED <<queue, replied>>
    /\ UNCHANGED <<running, link, pending, reqVars, claims, asked, faults>>

CustomIgnores(a) ==
    /\ loop[a].pc = "handle" /\ Kind[a] = "custom"
    /\ ReadNext(a)
    /\ UNCHANGED <<running, netVars, pending, reqVars, claims, history>>

\* A request of its own. If its send raises, the handler raises ConnectionClosed.
CustomAsks(a) ==
    \E r \in Inner :
        /\ loop[a].pc = "handle" /\ By[r] = a
        /\ Request(r)
        /\ IF link[a]
           THEN loop' = [loop EXCEPT ![a] = [pc |-> "asking", env |-> loop[a].env, inner |-> r]]
           ELSE ConnectionClosed(a)
        /\ UNCHANGED <<running, link, fired, claims, history>>

-----------------------------------------------------------------------------
(* The tasks that call request. *)

MakeRequest(r) ==
    /\ r \notin Inner
    /\ Request(r)
    /\ UNCHANGED <<loop, running, link, fired, claims, history>>

\* The timeout cancels the future, unless that is done; the task is yet to run.
TimeOut(r) ==
    /\ req[r] = "waiting" /\ r \notin fired
    /\ fired' = fired \cup {r}
    /\ fut' = [fut EXCEPT ![r] = IF fut[r] = "pending" THEN "cancelled" ELSE fut[r]]
    /\ UNCHANGED <<loop, running, netVars, pending, req, claims, history>>

\* It runs. A reply that has come just before the timeout is returned or dropped,
\* which depends on the version of asyncio. A handler catches TimeoutError or not.
Return(r) ==
    /\ req[r] = "waiting" /\ Done(r)
    /\ \E outcome \in {"answered", "timeout"} :
          /\ outcome = "answered" => fut[r] = "resolved"
          /\ outcome = "timeout" => r \in fired
          /\ req' = [req EXCEPT ![r] = outcome]
          /\ IF r \notin Inner THEN UNCHANGED loop
             ELSE \/ LoopTo(By[r], "handle", loop[By[r]].env)
                  \/ outcome = "timeout" /\ LoopTo(By[r], "ended", NoEnv)
    /\ pending' = [pending EXCEPT ![By[r]] = PendingWithout(By[r], r)]
    /\ UNCHANGED <<running, netVars, fut, fired, claims, history>>

\* disconnect, once. The loop cannot fail to notice if it waits for a frame, has
\* an acknowledgement to send or sleeps.
Disconnect(a) ==
    /\ a \in Leavers /\ asked[a] = "no"
    /\ running' = [running EXCEPT ![a] = FALSE]
    /\ link' = [link EXCEPT ![a] = FALSE]
    /\ asked' = [asked EXCEPT ![a] =
          IF loop[a].pc \in {"recv", "ack", "sleep", "ended"} THEN "heard" ELSE "missed"]
    /\ UNCHANGED <<loop, queue, pending, reqVars, claims, replied, faults>>

-----------------------------------------------------------------------------
(* Faults, and the sweeper. *)

ConnectionDrops(a) ==
    /\ Fault("drop") /\ link[a]
    /\ link' = [link EXCEPT ![a] = FALSE]
    /\ UNCHANGED <<loop, running, queue, pending, reqVars, claims, asked, replied>>

\* OSError or InvalidStatus: no ConnectionClosed, so run ends.
ConnectRaises(a) ==
    /\ Fault("connect") /\ loop[a].pc = "connect"
    /\ LoopTo(a, "ended", NoEnv)
    /\ UNCHANGED <<running, netVars, pending, reqVars, claims, asked, replied>>

\* Whatever else a handler raises ends run; the socket stays open.
HandlerRaises(a) ==
    /\ Fault("raise") /\ loop[a].pc \in {"handle", "work"} /\ Kind[a] # "observe"
    /\ LoopTo(a, "ended", NoEnv)
    /\ UNCHANGED <<running, netVars, pending, reqVars, claims, asked, replied>>

\* A claim expires, and a sweeper deletes it and publishes the message again.
Requeue(r) ==
    /\ Fault("expire") /\ holder[r] # None /\ r \notin settled
    /\ holder' = [holder EXCEPT ![r] = None]
    /\ Send(Envelope("task", r, By[r]), Recipients(r))
    /\ UNCHANGED <<loop, running, link, pending, reqVars, settled, asked, replied>>

-----------------------------------------------------------------------------
LoopStep(a) ==
    \/ Connect(a) \/ Receive(a) \/ ReceiveRaises(a) \/ Ack(a) \/ Sleep(a)
    \/ Observe(a) \/ Claim(a) \/ WorkerAnswers(a)
    \/ CustomAnswers(a) \/ CustomIgnores(a) \/ CustomAsks(a)

RequestStep(r) == MakeRequest(r) \/ TimeOut(r) \/ Return(r)

FaultStep ==
    \/ \E a \in Agents : ConnectionDrops(a) \/ ConnectRaises(a) \/ HandlerRaises(a)
    \/ \E r \in Requests : Requeue(r)

Next ==
    \/ \E a \in Agents : LoopStep(a) \/ Disconnect(a)
    \/ \E r \in Requests : RequestStep(r)
    \/ FaultStep

Spec == Init /\ [][Next]_vars

\* An event loop runs the tasks that are ready, and the calls a handler awaits end
\* (the LLM client has a timeout of its own).
LoopFairness ==
    /\ \A a \in Agents : WF_vars(LoopStep(a))
    /\ \A r \in Requests : WF_vars(Return(r))

\* A request has all the time it wants; or its timer fires at last.
PatientSpec == Spec /\ LoopFairness
FairSpec    == PatientSpec /\ \A r \in Requests : WF_vars(TimeOut(r))

-----------------------------------------------------------------------------
(* Properties. *)

\* The caller gets what an addressee sent as the reply to this very request, and
\* not some other message, however late, repeated or stripped. (A request an agent
\* makes to itself resolves its own future.)
AnsweredByReply ==
    \A r \in Requests : fut[r] = "resolved" /\ By[r] \notin To[r] => r \in replied

\* _pending_replies holds the requests that wait, so that no reply in time goes
\* unnoticed, and no others but those whose send has raised.
PendingIsAwaited ==
    \A r \in Requests, a \in Agents :
        r \in pending[a] <=> By[r] = a /\ req[r] \in {"waiting", "raised"}

Calls == INSTANCE RemoteCall WITH
    call <- req, outcome <- fut, expired <- fired,
    ToSelf <- {r \in Requests : By[r] \in To[r]}

\* The loops, handlers, sockets and retries of the agents implement the remote call:
\* every step makes, answers, resolves, expires or ends one call, or shows nothing
\* of it. In particular no reply precedes its request, and none changes an outcome.
ImplementsCalls == Calls!Spec

\* A loop that could notice disconnect does not connect again.
GoneStaysGone == \A a \in Agents : asked[a] = "heard" => ~running[a] /\ ~link[a]

\* Every request that has been sent returns or raises.
RequestEnds == \A r \in Requests : req[r] = "waiting" ~> req[r] # "waiting"

\* Workers do not keep each other busy with the answers they send, although they
\* take any message for a task (_process_task): once no more requests are made, no
\* handler runs, and no loop has a frame left to read.
FallsSilent ==
    <>[](\A a \in Agents : loop[a].pc = "ended" \/ (loop[a].pc = "recv" /\ queue[a] = <<>>))

\* A reply to r lies in the caller's socket.
Arrived(r) ==
    \E i \in DOMAIN queue[By[r]] :
        queue[By[r]][i].kind = "reply" /\ queue[By[r]][i].req = r

\* "Synchronous feel": a caller that has received the reply gets it, and does not go
\* on waiting until the timeout. "Useful for agent-to-agent tool calls, mid-task
\* queries", so a request made by a message handler is none the worse for that.
ArrivedIsAnswered ==
    \A r \in Requests : Arrived(r) ~> req[r] = "answered" \/ r \in fired

\* The reply to a request awaited by a handler is never read in time: the only task
\* that could read it is the one that waits for it.
InnerIsUnanswered == \A r \in Inner : fut[r] # "resolved" /\ req[r] # "answered"
=============================================================================
