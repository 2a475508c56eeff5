------------------------ MODULE TaskClaimsConnected -------------------------
(* What TaskClaims guarantees for as long as no connection of a worker breaks   *)
(* and no worker dies, whatever else fails.                                     *)
EXTENDS TaskClaimsRefinement, FiniteSetTheorems

NoLoss == Faults \cap {"drop", "kill"} = {}

Held(w, t) == claims[t].agent = w /\ claims[t].status = "claimed"

LinkInv == \A w \in Workers : worker[w].pc \notin {"down", "stopped"} => link[w]

HeldInv ==
    \A w \in Workers, t \in Tasks : Held(w, t) =>
        \/ worker[w].pc = "stopped"
        \/ worker[w].pc \in HoldPc /\ worker[w].env.task = t

OneHeld == \A w \in Workers : \A t, u \in Tasks : Held(w, t) /\ Held(w, u) => t = u

ConnectedInv == MappedInv /\ LinkInv /\ HeldInv /\ OneHeld /\ SettledIsAnswered

-----------------------------------------------------------------------------
(* Steps, seen from one worker. *)

\* What becomes of a worker that does not take a task.
WorkerMoves(w) ==
    \/ worker'[w] = worker[w]
    \/ worker[w].pc # "reply" /\ worker'[w].pc = "stopped"
    \/ worker[w].pc \in HoldPc /\ worker'[w].pc \in HoldPc /\ worker'[w].env = worker[w].env
    \/ /\ worker[w].pc = "done" /\ worker'[w].pc = "reply" /\ worker'[w].env = worker[w].env
       /\ claims[worker[w].env.task].agent # w /\ UNCHANGED claims
    \/ CompleteWrite(w) /\ worker'[w].pc = "reply" /\ worker'[w].env = worker[w].env
    \/ Reply(w) /\ worker'[w].pc = "listen"
    \/ worker[w].pc = "down" /\ worker'[w].pc = "listen" /\ link'[w]

LEMMA WorkersMove ==
    ASSUME NoLoss, MappedInv, LinkInv, [Next]_vars, NEW w \in Workers, ~Take(w)
    PROVE  WorkerMoves(w) /\ (link[w] => link'[w])
<1>0. /\ worker \in [Workers -> WorkerState] /\ link \in [Workers -> BOOLEAN]
  BY DEF MappedInv, IInv, TypeOK, WorkerType, WorkerState
<1>1. CASE UNCHANGED <<worker, link>>
  BY <1>1 DEF WorkerMoves
<1>2. ASSUME NEW v \in Workers, WorkerStep(v)
      PROVE  WorkerMoves(w) /\ (link[w] => link'[w])
  <2>1. ~SeesClosed(v)
    BY DEF SeesClosed, LinkInv
  <2>2. CASE Connect(v)
    BY <1>0, <2>2 DEF Connect, WorkerMoves, Listening
  <2>3. CASE v # w
    BY <1>0, <1>2, <2>1, <2>2, <2>3
       DEF WorkerStep, WorkerMoves, Take, SetBusy, Finish, CompleteRead, CompleteWrite, Reply
  <2>4. CASE v = w /\ (SetBusy(w) \/ Finish(w))
    BY <1>0, <2>4 DEF SetBusy, Finish, WorkerMoves, HoldPc, WorkerState
  <2>5. CASE v = w /\ CompleteRead(w)
    BY <1>0, <2>5 DEF CompleteRead, WorkerMoves, HoldPc, WorkerState, dbVars
  <2>6. CASE v = w /\ CompleteWrite(w)
    BY <1>0, <2>6 DEF CompleteWrite, WorkerMoves, WorkerState, Stopped
  <2>7. CASE v = w /\ Reply(w)
    BY <1>0, <2>7 DEF Reply, WorkerMoves, Listening
  <2> QED
    BY <1>2, <2>1, <2>2, <2>3, <2>4, <2>5, <2>6, <2>7 DEF WorkerStep
<1>3. ASSUME NEW v \in Workers, WorkerFault(v)
      PROVE  WorkerMoves(w) /\ (link[w] => link'[w])
  <2>1. ConnectFails(v) \/ WorkerRaises(v)
    BY <1>3 DEF WorkerFault, Drop, Kill, Fault, NoLoss
  <2> QED
    BY <1>0, <2>1 DEF ConnectFails, WorkerRaises, WorkerMoves, Stopped
<1>4. ASSUME NEW v \in Workers, EndpointStep(v) PROVE UNCHANGED <<worker, link>>
  BY <1>4 DEF EndpointStep, Register, CleanUp, workerVars
<1>5. ASSUME NEW n \in Nodes, ListenerStep(n) \/ SweeperStep(n) \/ NodeFault(n)
      PROVE  UNCHANGED <<worker, link>>
  BY <1>5 DEF ListenerStep, Receive, Deliver, SweeperStep, SweepScan, SweepOne, SweepPublish,
     SweepRaises, ListenerRaises, NodeFault, workerVars
<1>6. ASSUME NEW t \in Tasks, Post(t) \/ Expire(t) PROVE UNCHANGED <<worker, link>>
  BY <1>6 DEF Post, Expire, workerVars
<1>7. CASE UNCHANGED vars
  BY <1>1, <1>7 DEF vars, workerVars
<1> QED
  BY <1>1, <1>2, <1>3, <1>4, <1>5, <1>6, <1>7 DEF Next

-----------------------------------------------------------------------------
(* The invariant. *)

LEMMA LinkStep == NoLoss /\ ConnectedInv /\ [Next]_vars => LinkInv'
<1> SUFFICES ASSUME NoLoss, ConnectedInv, [Next]_vars, NEW w \in Workers,
                    worker'[w].pc \notin {"down", "stopped"}
             PROVE  link'[w]
  BY DEF LinkInv
<1>1. CASE Take(w)
  BY <1>1, Taken DEF ConnectedInv
<1>2. CASE ~Take(w)
  <2>1. WorkerMoves(w) /\ (link[w] => link'[w])
    BY <1>2, WorkersMove DEF ConnectedInv
  <2>2. link[w] \/ link'[w]
    BY <2>1 DEF WorkerMoves, ConnectedInv, LinkInv, HoldPc, CompleteWrite, Reply
  <2> QED
    BY <2>1, <2>2
<1> QED
  BY <1>1, <1>2

LEMMA HeldStep == NoLoss /\ ConnectedInv /\ [Next]_vars => HeldInv' /\ OneHeld'
<1> SUFFICES ASSUME NoLoss, ConnectedInv, [Next]_vars PROVE HeldInv' /\ OneHeld'
  OBVIOUS
<1> USE DEF ConnectedInv
<1>1. ASSUME NEW w \in Workers, Take(w) PROVE HeldInv' /\ OneHeld'
  <2>1. CASE UNCHANGED <<claims, worker>>
    BY <2>1 DEF HeldInv, OneHeld, Held
  <2>2. CASE ~UNCHANGED <<claims, worker>>
    <3>1. PICK t \in Tasks :
             /\ worker[w].pc = "listen"
             /\ worker'[w].pc = "claimed" /\ worker'[w].env.task = t
             /\ \A v \in Workers \ {w} : worker'[v] = worker[v]
             /\ claims'[t].agent = w /\ claims'[t].status = "claimed"
             /\ \A u \in Tasks \ {t} : claims'[u] = claims[u]
      BY <1>1, <2>2, Taken
    <3>2. \A u \in Tasks : ~Held(w, u)
      BY <3>1 DEF HeldInv, HoldPc
    <3>3. ASSUME NEW v \in Workers, NEW u \in Tasks, Held(v, u)'
          PROVE  (Held(v, u) /\ v # w) \/ (v = w /\ u = t)
      <4>1. CASE u = t
        BY <3>1, <3>3, <4>1 DEF Held
      <4>2. CASE u # t
        <5>1. claims'[u] = claims[u]
          BY <3>1, <4>2
        <5>2. Held(v, u)
          BY <3>3, <5>1 DEF Held
        <5> QED
          BY <3>2, <5>2
      <4> QED
        BY <4>1, <4>2
    <3> QED
      BY <3>1, <3>3 DEF HeldInv, OneHeld, HoldPc
  <2> QED
    BY <2>1, <2>2
<1>2. ASSUME \A w \in Workers : ~Take(w) PROVE HeldInv' /\ OneHeld'
  <2>1. \A w \in Workers, t \in Tasks : Held(w, t)' => Held(w, t)
    <3> SUFFICES ASSUME NEW w \in Workers, NEW t \in Tasks, Held(w, t)' PROVE Held(w, t)
      OBVIOUS
    <3> QED
      BY <1>2, RowMoves DEF RowMove, SameClaim, Outcomes, Held, NoClaim
  <2>2. ASSUME NEW w \in Workers, NEW t \in Tasks, Held(w, t)'
        PROVE  \/ worker'[w].pc = "stopped"
               \/ worker'[w].pc \in HoldPc /\ worker'[w].env.task = t
    <3>1. /\ Held(w, t)
          /\ \/ worker[w].pc = "stopped"
             \/ worker[w].pc \in HoldPc /\ worker[w].env.task = t
      BY <2>1, <2>2 DEF HeldInv
    <3>2. WorkerMoves(w)
      BY <1>2, WorkersMove
    <3>3. ~(CompleteWrite(w) /\ worker'[w].pc = "reply")
      <4> SUFFICES ASSUME CompleteWrite(w), worker'[w].pc = "reply" PROVE FALSE
        OBVIOUS
      <4>1. /\ worker \in [Workers -> WorkerState] /\ worker[w].pc = "write"
            /\ worker[w].env.task = t /\ worker[w].id \in Nat \ {0}
        BY <3>1 DEF CompleteWrite, MappedInv, IInv, TypeOK, WorkerType, WorkerState
      <4>2. RowThere(t, worker[w].id) /\ claims' = WithStatus(t, Outcome(worker[w].failed))
        BY <4>1 DEF CompleteWrite, Stopped
      <4>3. claims[t] # NoClaim
        BY <4>1, <4>2, RowIsClaim DEF MappedInv, IInv, TypeOK
      <4>4. claims'[t].status = Outcome(worker[w].failed)
        BY <4>2, <4>3, StatusMoves
      <4> QED
        BY <2>2, <4>4 DEF Held, Outcome
    <3> QED
      BY <3>1, <3>2, <3>3 DEF WorkerMoves, HoldPc, Held, Reply
  <2> QED
    BY <2>1, <2>2 DEF HeldInv, OneHeld
<1> QED
  BY <1>1, <1>2

LEMMA ResultsMove ==
    ASSUME [Next]_vars PROVE results' = results \/ \E w \in Workers : Reply(w)
<1>1. ASSUME NEW w \in Workers, WorkerStep(w) \/ EndpointStep(w), ~Reply(w)
      PROVE  UNCHANGED results
  BY <1>1 DEF WorkerStep, EndpointStep, Take, SetBusy, Finish, CompleteRead, CompleteWrite,
     SeesClosed, Connect, Register, CleanUp, history
<1>2. ASSUME NEW w \in Workers, WorkerFault(w) PROVE UNCHANGED results
  BY <1>2 DEF WorkerFault, Drop, Kill, ConnectFails, WorkerRaises
<1>3. ASSUME NEW n \in Nodes, ListenerStep(n) \/ SweeperStep(n) \/ NodeFault(n)
      PROVE  UNCHANGED results
  BY <1>3 DEF ListenerStep, Receive, Deliver, SweeperStep, SweepScan, SweepOne, SweepPublish,
     SweepRaises, ListenerRaises, NodeFault, history
<1>4. ASSUME NEW t \in Tasks, Post(t) \/ Expire(t) PROVE UNCHANGED results
  BY <1>4 DEF Post, Expire, history
<1>5. CASE UNCHANGED vars
  BY <1>5 DEF vars, history
<1> QED
  BY <1>1, <1>2, <1>3, <1>4, <1>5 DEF Next

LEMMA AnswerStep == NoLoss /\ ConnectedInv /\ [Next]_vars => SettledIsAnswered'
<1> SUFFICES ASSUME NoLoss, ConnectedInv, [Next]_vars, NEW t \in Tasks,
                    claims'[t].status \in {"completed", "failed"}
             PROVE  \/ results'[t] > 0
                    \/ \E w \in Workers : worker'[w].pc = "reply" /\ worker'[w].env.task = t
  BY DEF SettledIsAnswered, Busy, BusyPc
<1> USE DEF ConnectedInv
<1>0. results \in [Tasks -> Nat]
  BY DEF MappedInv, IInv, TypeOK, HistoryType
<1>1. ASSUME NEW w \in Workers, Take(w)
      PROVE  \/ results'[t] > 0
             \/ \E v \in Workers : worker'[v].pc = "reply" /\ worker'[v].env.task = t
  <2>1. /\ results' = results /\ worker[w].pc = "listen"
        /\ \A v \in Workers \ {w} : worker'[v] = worker[v]
        /\ claims'[t].status = claims[t].status
    BY <1>1, Taken
  <2> QED
    BY <2>1 DEF SettledIsAnswered, Busy
<1>2. ASSUME \A w \in Workers : ~Take(w)
      PROVE  \/ results'[t] > 0
             \/ \E v \in Workers : worker'[v].pc = "reply" /\ worker'[v].env.task = t
  <2>1. CASE claims[t].status \in {"completed", "failed"}
    <3>1. CASE results[t] > 0
      <4>1. results' = results \/ \E w \in Workers : Reply(w)
        BY ResultsMove
      <4>2. results'[t] = results[t] \/ results'[t] = results[t] + 1
        BY <1>0, <4>1 DEF Reply
      <4> QED
        BY <1>0, <3>1, <4>2
    <3>2. ASSUME NEW w \in Workers, worker[w].pc = "reply", worker[w].env.task = t
          PROVE  \/ results'[t] > 0
                 \/ worker'[w].pc = "reply" /\ worker'[w].env.task = t
      <4>1. WorkerMoves(w)
        BY <1>2, WorkersMove
      <4>2. CASE Reply(w)
        BY <1>0, <3>2, <4>2 DEF Reply
      <4>3. CASE ~Reply(w)
        BY <3>2, <4>1, <4>3 DEF WorkerMoves, HoldPc, CompleteWrite
      <4> QED
        BY <4>2, <4>3
    <3> QED
      BY <2>1, <3>1, <3>2 DEF SettledIsAnswered, Busy
  <2>2. CASE claims[t].status \notin {"completed", "failed"}
    BY <1>2, <2>2, RowMoves DEF RowMove, SameClaim, Answered, Outcomes, NoClaim
  <2> QED
    BY <2>1, <2>2
<1> QED
  BY <1>1, <1>2

LEMMA InitConnected == Init => ConnectedInv
<1> SUFFICES ASSUME Init PROVE ConnectedInv
  OBVIOUS
<1>1. MappedInv
  BY InitInv DEF Init, MappedInv, PostedInv
<1>2. \A t \in Tasks : claims[t].status = "none"
  BY DEF Init, NoClaim
<1>3. LinkInv
  BY DEF Init, LinkInv, Listening, Down
<1> QED
  BY <1>1, <1>2, <1>3 DEF ConnectedInv, HeldInv, OneHeld, Held, SettledIsAnswered

LEMMA ConnectedInvariance == ASSUME NoLoss PROVE Spec => []ConnectedInv
<1>1. ConnectedInv /\ [Next]_vars => ConnectedInv'
  BY LinkStep, HeldStep, AnswerStep, PostedStep, InvStep DEF ConnectedInv, MappedInv
<1> QED
  BY <1>1, InitConnected, PTL DEF Spec

LEMMA AtMostOneElement ==
    ASSUME NEW S, \A x, y \in S : x = y PROVE Cardinality(S) \in Nat /\ Cardinality(S) <= 1
<1>1. CASE S = {}
  BY <1>1, FS_EmptySet
<1>2. CASE S # {}
  <2>1. PICK x : S = {x}
    BY <1>2
  <2> QED
    BY <2>1, FS_Singleton
<1> QED
  BY <1>1, <1>2

\* Backpressure works on stale counts, but a worker handles one task at a time: it
\* never holds more than one claim, and so never more than its max_concurrent
\* (message_router.py:_filter_available, worker_agent.py:_process_task). Claims may
\* expire, sweeps and transactions may fail.
THEOREM InFlightIsBounded == ASSUME NoLoss PROVE Spec => []InFlightBound
<1>1. ConnectedInv => InFlightBound
  <2> SUFFICES ASSUME ConnectedInv, NEW w \in Workers PROVE InFlight(w) <= MaxConcurrent
    BY DEF InFlightBound
  <2> DEFINE mine == {t \in Tasks : claims[t].agent = w /\ claims[t].status = "claimed"}
  <2>1. \A t, u \in mine : t = u
    BY DEF ConnectedInv, OneHeld, Held
  <2>2. InFlight(w) = Cardinality(mine)
    BY DEF InFlight
  <2> HIDE DEF mine
  <2>3. Cardinality(mine) \in Nat /\ Cardinality(mine) <= 1
    BY <2>1, AtMostOneElement
  <2> QED
    BY <2>2, <2>3, ClaimsAssumption
<1> QED
  BY <1>1, ConnectedInvariance, PTL

\* A claim marked completed or failed has its result sent or about to be sent
\* (worker_agent.py:_process_task completes the claim first), although sweepers may
\* have deleted the claim and another worker may have made it anew.
THEOREM SettledHasResult == ASSUME NoLoss PROVE Spec => []SettledIsAnswered
<1>1. ConnectedInv => SettledIsAnswered
  BY DEF ConnectedInv
<1> QED
  BY <1>1, ConnectedInvariance, PTL
-----------------------------------------------------------------------------
(* Every worker is connected from the start, and stays so. *)

AllReady == \A w \in Workers : conn[w] = "ready" /\ link[w] /\ worker[w].pc # "down"

LEMMA ReadyStep ==
    ASSUME NoLoss, ConnectedInv, AllReady, [Next]_vars PROVE AllReady'
<1>1. ASSUME NEW w \in Workers
      PROVE  conn'[w] = "ready" /\ link'[w] /\ worker'[w].pc # "down"
  <2>1. UNCHANGED conn
    BY DEF Next, vars, nodeVars, Post, Expire, WorkerStep, Take, SetBusy, Finish, CompleteRead,
       CompleteWrite, Reply, SeesClosed, Connect, EndpointStep, Register, CleanUp, WorkerFault,
       Drop, Kill, ConnectFails, WorkerRaises, ListenerStep, Receive, Deliver, SweeperStep,
       SweepScan, SweepOne, SweepPublish, SweepRaises, ListenerRaises, NodeFault, AllReady
  <2>2. CASE Take(w)
    BY <2>1, <2>2, Taken DEF ConnectedInv, AllReady
  <2>3. CASE ~Take(w)
    <3>1. WorkerMoves(w) /\ link'[w]
      BY <2>3, WorkersMove DEF ConnectedInv, AllReady
    <3> QED
      BY <2>1, <3>1 DEF WorkerMoves, HoldPc, AllReady
  <2> QED
    BY <2>2, <2>3
<1> QED
  BY <1>1 DEF AllReady

-----------------------------------------------------------------------------
(* The way of a task to a worker.                                               *)

LEMMA CarriesOne ==
    ASSUME NEW e, NEW t PROVE Carries(<<e>>, t) <=> e.kind = "task" /\ e.task = t
  BY DEF Carries

LEMMA CarriesMore ==
    ASSUME NEW s \in Seq(Envelopes), NEW e \in Envelopes, NEW t
    PROVE  /\ Carries(s, t) => Carries(Append(s, e), t)
           /\ e.kind = "task" /\ e.task = t => Carries(Append(s, e), t)
<1>1. /\ DOMAIN s = 1..Len(s) /\ DOMAIN Append(s, e) = 1..(Len(s) + 1) /\ Len(s) \in Nat
      /\ Append(s, e)[Len(s) + 1] = e /\ \A i \in 1..Len(s) : Append(s, e)[i] = s[i]
  OBVIOUS
<1>2. Len(s) + 1 \in DOMAIN Append(s, e) /\ DOMAIN s \subseteq DOMAIN Append(s, e)
  BY <1>1
<1> QED
  BY <1>1, <1>2 DEF Carries

LEMMA CarriesLess ==
    ASSUME NEW s \in Seq(Envelopes), NEW t, Carries(s, t)
    PROVE  s # <<>> /\ (Carries(Tail(s), t) \/ (Head(s).kind = "task" /\ Head(s).task = t))
<1>1. PICK i \in DOMAIN s : s[i].kind = "task" /\ s[i].task = t
  BY DEF Carries
<1>2. i \in 1..Len(s) /\ s # <<>> /\ Len(s) \in Nat
  BY <1>1
<1>3. CASE i = 1
  BY <1>1, <1>2, <1>3
<1>4. CASE i # 1
  <2> DEFINE j == i - 1
  <2>1. j \in DOMAIN Tail(s) /\ Tail(s)[j] = s[i]
    BY <1>2, <1>4
  <2> HIDE DEF j
  <2>2. Carries(Tail(s), t)
    BY <1>1, <2>1 DEF Carries
  <2> QED
    BY <1>2, <2>2
<1> QED
  BY <1>2, <1>3, <1>4

\* Nothing but the worker takes an envelope from its queue.
LEMMA QueueStays ==
    ASSUME NoLoss, ConnectedInv, AllReady, [Next]_vars, NEW t \in Tasks, NEW w \in Workers,
           claims[t] = NoClaim, claims'[t] = NoClaim, Carries(queue[w], t)
    PROVE  Carries(queue'[w], t)
<1>0. queue \in [Workers -> Seq(Envelopes)] /\ ClaimsType
  BY DEF ConnectedInv, MappedInv, IInv, TypeOK, WorkerType
<1>1. CASE queue'[w] = queue[w]
  BY <1>1
<1>2. ASSUME NEW v \in Workers, Take(v) PROVE Carries(queue'[w], t)
  <2>1. queue' = [queue EXCEPT ![v] = Tail(queue[v])]
    BY <1>2 DEF Take
  <2>2. CASE v # w
    BY <1>0, <1>1, <2>1, <2>2
  <2>3. CASE v = w
    <3>1. Head(queue[w]).task # t
      <4> SUFFICES ASSUME Head(queue[w]).task = t PROVE FALSE
        OBVIOUS
      <4>1. Claimable(t)
        BY DEF Claimable, NoClaim
      <4>2. PICK c : claims' = [claims EXCEPT ![t] = c] /\ c.status = "claimed"
        BY <1>2, <2>3, <4>1 DEF Take
      <4> QED
        BY <1>0, <4>2 DEF ClaimsType, NoClaim
    <3> QED
      BY <1>0, <2>1, <2>3, <3>1, CarriesLess
  <2> QED
    BY <2>2, <2>3
<1>3. ASSUME NEW v \in Workers, WorkerStep(v), ~Take(v) PROVE queue' = queue
  BY <1>3 DEF WorkerStep, SetBusy, Finish, CompleteRead, CompleteWrite, Reply, SeesClosed,
     Connect, AllReady
<1>4. ASSUME NEW v \in Workers, EndpointStep(v) \/ WorkerFault(v) PROVE queue' = queue
  BY <1>4 DEF EndpointStep, Register, CleanUp, WorkerFault, Drop, Kill, ConnectFails,
     WorkerRaises, workerVars, NoLoss, Fault
<1>5. ASSUME NEW n \in Nodes, Deliver(n) PROVE Carries(queue'[w], t)
  <2>1. \/ queue'[w] = queue[w]
        \/ listener[n].todo # {} /\ queue'[w] = Append(queue[w], listener[n].env)
    BY <1>5 DEF Deliver
  <2>2. listener[n].todo # {} => listener[n].env \in Envelopes
    BY DEF ConnectedInv, MappedInv, IInv, TypeOK, NodeType
  <2>3. queue[w] \in Seq(Envelopes)
    BY <1>0
  <2>4. ASSUME NEW e \in Envelopes, queue'[w] = Append(queue[w], e) PROVE Carries(queue'[w], t)
    BY <2>3, <2>4, CarriesMore
  <2> QED
    BY <1>1, <2>1, <2>2, <2>4
<1>6. ASSUME NEW n \in Nodes, Receive(n) \/ SweeperStep(n) \/ NodeFault(n) PROVE queue' = queue
  BY <1>6 DEF Receive, SweeperStep, SweepScan, SweepOne, SweepPublish, SweepRaises,
     ListenerRaises, NodeFault, workerVars
<1>7. ASSUME NEW u \in Tasks, Post(u) \/ Expire(u) PROVE queue' = queue
  BY <1>7 DEF Post, Expire, workerVars
<1>8. CASE UNCHANGED vars
  BY <1>1, <1>8 DEF vars, workerVars
<1> QED
  BY <1>1, <1>2, <1>3, <1>4, <1>5, <1>6, <1>7, <1>8 DEF Next, ListenerStep

\* What has been published at a node.
LEMMA Published ==
    ASSUME ConnectedInv, NEW e \in Envelopes, PublishTo(e), NEW t, NEW n \in Nodes
    PROVE  /\ Carries(inbox[n], t) => Carries(inbox'[n], t)
           /\ e.kind = "task" /\ e.task = t => Carries(inbox'[n], t)
<1>1. inbox[n] \in Seq(Envelopes) /\ inbox'[n] = Append(inbox[n], e)
  BY DEF PublishTo, ConnectedInv, MappedInv, IInv, TypeOK, NodeType
<1> QED
  BY <1>1, CarriesMore

\* The way through the node: the router withholds the task from a worker only if
\* the worker is saturated. Rowcount tells of no delivery that it is a repetition.
LEMMA NodeStays ==
    ASSUME ConnectedInv, AllReady, NEW t \in Tasks, NEW w \in Workers,
           msgStatus[t] # "none", NEW n \in Nodes, ListenerStep(n), OnItsWay(t, w)
    PROVE  OnItsWay(t, w)' \/ ~Available(w)
<1> DEFINE h == Home[w]
<1>0. /\ h \in Nodes /\ inbox \in [Nodes -> Seq(Envelopes)]
      /\ listener \in [Nodes -> [env : Envelopes \cup {NoEnv}, todo : SUBSET Agents]]
      /\ queue \in [Workers -> Seq(Envelopes)]
      /\ \A m \in Nodes : listener[m].todo # {} => listener[m].env \in Envelopes
  BY ClaimsAssumption DEF ConnectedInv, MappedInv, IInv, TypeOK, NodeType, WorkerType
<1>1. CASE Receive(n)
  <2> DEFINE env == Head(inbox[n])
             group == IF env.kind = "task" THEN Workers ELSE Watchers
             todo == {a \in group : Home[a] = n /\ Available(a)}
  <2>1. /\ listener[n].todo = {} /\ inbox[n] # <<>> /\ queue' = queue
        /\ inbox' = [inbox EXCEPT ![n] = Tail(@)]
        /\ listener' = [listener EXCEPT ![n] =
                           IF todo = {} THEN IdleListener ELSE [env |-> env, todo |-> todo]]
    BY <1>1 DEF Receive, workerVars
  <2>2. CASE n # h
    <3>1. inbox'[h] = inbox[h] /\ listener'[h] = listener[h]
      BY <1>0, <2>1, <2>2
    <3> QED
      BY <2>1, <3>1 DEF OnItsWay
  <2>3. CASE n = h /\ env.kind = "task" /\ env.task = t /\ Available(w)
    <3>1. w \in todo
      BY <2>3
    <3>2. listener'[h] = [env |-> env, todo |-> todo]
      BY <1>0, <2>1, <2>3, <3>1
    <3> HIDE DEF env, todo
    <3>3. listener'[h].env = env /\ w \in listener'[h].todo
      BY <3>1, <3>2
    <3> QED
      BY <2>3, <3>3, CarriesOne DEF OnItsWay
  <2>4. CASE n = h /\ ~(env.kind = "task" /\ env.task = t)
    <3>1. Carries(inbox[h], t) \/ Carries(queue[w], t)
      BY <2>1, <2>4 DEF OnItsWay
    <3>2. Carries(inbox[h], t) => Carries(inbox'[h], t)
      BY <1>0, <2>1, <2>4, CarriesLess
    <3> QED
      BY <2>1, <3>1, <3>2 DEF OnItsWay
  <2> QED
    BY <2>2, <2>3, <2>4
<1>2. CASE Deliver(n)
  <2> DEFINE env == listener[n].env
  <2>1. PICK a \in listener[n].todo :
          LET rest == listener[n].todo \ {a}
              sent == Connected(a) /\ References(env) /\ ~SeenAsDuplicate(env.task, a)
          IN /\ listener' = [listener EXCEPT ![n] =
                   IF rest = {} \/ (Connected(a) /\ ~References(env)) THEN IdleListener
                                                       ELSE [env |-> env, todo |-> rest]]
             /\ queue' = [v \in Workers |-> IF sent /\ v = a /\ link[v] THEN Append(queue[v], env)
                                                                       ELSE queue[v]]
    BY <1>2 DEF Deliver
  <2>2. UNCHANGED inbox /\ env \in Envelopes
    BY <1>0, <1>2 DEF Deliver
  <2>3. CASE Carries(queue[w], t)
    <3>1. queue'[w] = queue[w] \/ queue'[w] = Append(queue[w], env)
      BY <2>1
    <3> HIDE DEF env
    <3>2. queue[w] \in Seq(Envelopes) /\ env \in Envelopes
      BY <1>0, <2>2
    <3>3. Carries(Append(queue[w], env), t)
      BY <2>3, <3>2, CarriesMore
    <3>4. Carries(queue'[w], t)
      BY <2>3, <3>1, <3>3
    <3> QED
      BY <3>4 DEF OnItsWay
  <2>4. CASE Carries(inbox[h], t)
    BY <2>2, <2>4 DEF OnItsWay
  <2>5. CASE Carries(<<listener[h].env>>, t) /\ w \in listener[h].todo
    <3>1. listener[h].env.kind = "task" /\ listener[h].env.task = t
      BY <2>5, CarriesOne
    <3>2. CASE n # h
      <4>1. listener'[h] = listener[h]
        BY <1>0, <2>1, <3>2
      <4> QED
        BY <2>5, <4>1 DEF OnItsWay
    <3>3. (References(env) /\ env.task = t) \/ n # h
      BY <3>1 DEF References
    <3>4. CASE n = h /\ a # w
      <4>0. References(env) /\ listener[n].todo \ {a} # {}
        BY <2>5, <3>3, <3>4
      <4>1. listener'[h] = [env |-> env, todo |-> listener[n].todo \ {a}]
        BY <1>0, <2>1, <3>4, <4>0
      <4> HIDE DEF env
      <4>2. listener'[h].env = env /\ w \in listener'[h].todo
        BY <2>5, <3>4, <4>1
      <4> QED
        BY <2>5, <3>4, <4>2 DEF OnItsWay, env
    <3>5. CASE n = h /\ a = w
      <4>1. Connected(w) /\ link[w] /\ ~SeenAsDuplicate(env.task, w)
        BY DEF Connected, AllReady, SeenAsDuplicate, Rowcount
      <4>2. queue'[w] = Append(queue[w], env)
        BY <2>1, <3>3, <3>5, <4>1
      <4>3. Carries(queue'[w], t)
        BY <1>0, <2>2, <3>1, <3>5, <4>2, CarriesMore
      <4> QED
        BY <4>3 DEF OnItsWay
    <3> QED
      BY <3>2, <3>4, <3>5
  <2> QED
    BY <2>3, <2>4, <2>5 DEF OnItsWay
<1> QED
  BY <1>1, <1>2 DEF ListenerStep

LEMMA WayStays ==
    ASSUME NoLoss, "listen" \notin Faults, ConnectedInv, AllReady, [Next]_vars,
           NEW t \in Tasks, NEW w \in Workers,
           msgStatus[t] # "none", claims[t] = NoClaim, claims'[t] = NoClaim, OnItsWay(t, w)
    PROVE  OnItsWay(t, w)' \/ ~Available(w)
<1>0. Home[w] \in Nodes /\ \A n \in Nodes : sweeper[n].out # NoEnv => sweeper[n].out \in Envelopes
  BY ClaimsAssumption DEF ConnectedInv, MappedInv, IInv, TypeOK, NodeType
<1>1. CASE Carries(queue[w], t)
  BY <1>1, QueueStays DEF OnItsWay
<1>2. ASSUME UNCHANGED <<inbox, listener>>, ~Carries(queue[w], t) PROVE OnItsWay(t, w)'
  BY <1>2 DEF OnItsWay
<1>3. ASSUME NEW e \in Envelopes, PublishTo(e), UNCHANGED listener, ~Carries(queue[w], t)
      PROVE  OnItsWay(t, w)'
  BY <1>0, <1>3, Published DEF OnItsWay
<1>4. ASSUME NEW u \in Tasks, Post(u) \/ Expire(u), ~Carries(queue[w], t) PROVE OnItsWay(t, w)'
  <2>1. CASE Post(u)
    BY <1>3, <1>4, <2>1, TasksAreEnvelopes DEF Post
  <2>2. CASE Expire(u)
    BY <1>2, <1>4, <2>2 DEF Expire, nodeVars
  <2> QED
    BY <1>4, <2>1, <2>2
<1>5. ASSUME NEW n \in Nodes, SweeperStep(n) \/ NodeFault(n), ~Carries(queue[w], t)
      PROVE  OnItsWay(t, w)'
  <2>1. CASE SweepPublish(n)
    BY <1>0, <1>3, <1>5, <2>1 DEF SweepPublish
  <2>2. CASE SweepScan(n) \/ SweepOne(n) \/ SweepRaises(n)
    BY <1>2, <1>5, <2>2 DEF SweepScan, SweepOne, SweepRaises
  <2>3. ~ListenerRaises(n)
    BY DEF ListenerRaises, Fault
  <2> QED
    BY <1>5, <2>1, <2>2, <2>3 DEF SweeperStep, NodeFault
<1>6. ASSUME NEW v \in Workers, WorkerStep(v) \/ EndpointStep(v) \/ WorkerFault(v)
      PROVE  UNCHANGED <<inbox, listener>>
  BY <1>6 DEF WorkerStep, Take, SetBusy, Finish, CompleteRead, CompleteWrite, Reply, SeesClosed,
     Connect, EndpointStep, Register, CleanUp, WorkerFault, Drop, Kill, ConnectFails,
     WorkerRaises, nodeVars
<1>7. CASE UNCHANGED vars
  BY <1>1, <1>2, <1>7 DEF vars, nodeVars
<1> QED
  BY <1>1, <1>2, <1>4, <1>5, <1>6, <1>7, NodeStays DEF Next

\* Posting a task is the only step that gives it a row among the messages.
LEMMA PostedBy ==
    ASSUME ConnectedInv, [Next]_vars, NEW t \in Tasks, msgStatus[t] = "none", msgStatus'[t] # "none"
    PROVE  Post(t)
<1>0. ClaimsType
  BY DEF ConnectedInv, MappedInv, IInv, TypeOK
<1>1. ASSUME NEW u \in Tasks, Post(u) PROVE Post(t)
  BY <1>0, <1>1 DEF Post, ClaimsType
<1>2. ASSUME NEW n \in Nodes, SweepOne(n) PROVE FALSE
  <2>1. PICK c \in sweeper[n].todo : SweepDeadLetter(n, c) \/ SweepReclaim(n, c)
    BY <1>2 DEF SweepOne
  <2>2. /\ RowThere(c.task, c.id)
        /\ msgStatus' = [msgStatus EXCEPT ![c.task] = "dead_letter"]
    BY <2>1 DEF SweepDeadLetter, SweepReclaim
  <2>3. c.task = t
    BY <1>0, <2>2 DEF ClaimsType
  <2>4. claims[t] # NoClaim
    BY <2>2, <2>3, SnapshotFacts DEF ConnectedInv
  <2> QED
    BY <2>4 DEF ConnectedInv, MappedInv, PostedInv
<1>3. ASSUME NEW w \in Workers, WorkerStep(w) \/ EndpointStep(w) \/ WorkerFault(w)
      PROVE  UNCHANGED msgStatus
  BY <1>3 DEF WorkerStep, Take, SetBusy, Finish, CompleteRead, CompleteWrite, Reply, SeesClosed,
     Connect, EndpointStep, Register, CleanUp, WorkerFault, Drop, Kill, ConnectFails,
     WorkerRaises, dbVars
<1>4. ASSUME NEW n \in Nodes, ListenerStep(n) \/ SweepScan(n) \/ SweepPublish(n) \/ NodeFault(n)
      PROVE  UNCHANGED msgStatus
  BY <1>4 DEF ListenerStep, Receive, Deliver, SweepScan, SweepPublish, SweepRaises,
     ListenerRaises, NodeFault, dbVars
<1>5. ASSUME NEW u \in Tasks, Expire(u) PROVE UNCHANGED msgStatus
  BY <1>5 DEF Expire
<1>6. CASE UNCHANGED vars
  BY <1>6 DEF vars, dbVars
<1> QED
  BY <1>1, <1>2, <1>3, <1>4, <1>5, <1>6 DEF Next, SweeperStep

\* A task that is posted is on its way to every worker.
LEMMA PostReachesAll ==
    ASSUME ConnectedInv, NEW t \in Tasks, NEW w \in Workers, Post(t) PROVE OnItsWay(t, w)'
<1>1. Task(t, 1) \in Envelopes /\ Task(t, 1).kind = "task" /\ Task(t, 1).task = t
  BY TasksAreEnvelopes DEF Task
<1>2. Home[w] \in Nodes
  BY ClaimsAssumption
<1>3. PublishTo(Task(t, 1))
  BY DEF Post
<1> QED
  BY <1>1, <1>2, <1>3, Published DEF OnItsWay

-----------------------------------------------------------------------------
(* Claims may expire and be taken back, the transactions of workers and sweeps   *)
(* and a sweep's PUBLISH may fail, and workers may stop: a task that passes a    *)
(* worker by has been withheld from it for its claims in flight.                 *)

\* _filter_available and the delivery loop (message_router.py) keep a task that is
\* nobody's from a worker only if the worker has as many claims in flight as it may
\* have at that moment: no other reason, and no other step of any sweeper, worker or
\* router, takes the task off its way to the worker. Workers are connected from the
\* start and stay so, and a listener's transactions do not fail.
THEOREM SaturatedAloneAreSkipped ==
    ASSUME NoLoss, "listen" \notin Faults, InitReady = Workers
    PROVE  Spec => SkippedOnlyIfSaturated
<1> DEFINE Inv == ConnectedInv /\ AllReady
           Skip == \A t \in Tasks, w \in Workers :
                      /\ msgStatus[t] # "none" /\ OnItsWay(t, w)
                      /\ claims[t].status = "none" /\ claims'[t].status = "none"
                      => OnItsWay(t, w)' \/ InFlight(w) >= MaxConcurrent
<1>1. Init => Inv
  <2> SUFFICES ASSUME Init PROVE AllReady
    BY InitConnected
  <2> QED
    BY DEF Init, AllReady, Listening
<1>2. Inv /\ [Next]_vars => Inv'
  BY ReadyStep, LinkStep, HeldStep, AnswerStep, PostedStep, InvStep DEF ConnectedInv, MappedInv
<1>3. Inv /\ Inv' /\ [Next]_vars => Skip
  <2> SUFFICES ASSUME Inv, Inv', [Next]_vars, NEW t \in Tasks, NEW w \in Workers,
                      msgStatus[t] # "none", OnItsWay(t, w),
                      claims[t].status = "none", claims'[t].status = "none"
               PROVE  OnItsWay(t, w)' \/ InFlight(w) >= MaxConcurrent
    OBVIOUS
  <2>1. claims[t] = NoClaim /\ claims'[t] = NoClaim
    BY RowFacts DEF ConnectedInv, MappedInv, IInv, TypeOK, ClaimsType, Claims, ClaimStatus
  <2>2. OnItsWay(t, w)' \/ ~Available(w)
    BY <2>1, WayStays
  <2>3. InFlight(w) <= 1 /\ InFlight(w) \in Nat
    <3> DEFINE mine == {u \in Tasks : claims[u].agent = w /\ claims[u].status = "claimed"}
    <3>1. \A u, v \in mine : u = v
      BY DEF ConnectedInv, OneHeld, Held
    <3> HIDE DEF mine
    <3>2. Cardinality(mine) \in Nat /\ Cardinality(mine) <= 1
      BY <3>1, AtMostOneElement
    <3> QED
      BY <3>2 DEF mine, InFlight
  <2> QED
    BY <2>2, <2>3, ClaimsAssumption DEF Available
<1> HIDE DEF Inv
<1>4. Spec => []Inv
  BY <1>1, <1>2, PTL DEF Spec
<1>5. Skip => [Skip]_vars
  OBVIOUS
<1> QED
  BY <1>3, <1>4, PTL DEF Spec, SkippedOnlyIfSaturated

-----------------------------------------------------------------------------
(* Claims may expire and be taken back, the transactions of workers and sweeps  *)
(* may fail and workers stop: the sweeper's task finds every worker that is     *)
(* left, if none is saturated.                                                  *)

Roomy ==
    /\ NoLoss /\ Faults \cap {"redis", "listen"} = {} /\ InitReady = Workers
    /\ MaxConcurrent > 1 \/ \A t, u \in Tasks : t = u

RetryInv ==
    \A t \in Tasks : msgStatus[t] # "none" /\ claims[t] = NoClaim =>
        \/ \A w \in Workers : OnItsWay(t, w)
        \/ \E n \in Nodes : Carries(<<sweeper[n].out>>, t)

RoomyInv == ConnectedInv /\ AllReady /\ RetryInv

\* A worker holds one claim at a time, so none is saturated.
LEMMA RoomForOne ==
    ASSUME Roomy, ConnectedInv, NEW t \in Tasks, claims[t] = NoClaim, NEW w \in Workers
    PROVE  Available(w)
<1> DEFINE mine == {u \in Tasks : claims[u].agent = w /\ claims[u].status = "claimed"}
<1>1. InFlight(w) = Cardinality(mine)
  BY DEF InFlight
<1>2. \A u, v \in mine : u = v
  BY DEF ConnectedInv, OneHeld, Held
<1>3. (\A u, v \in Tasks : u = v) => mine = {}
  BY DEF NoClaim
<1> HIDE DEF mine
<1>4. CASE MaxConcurrent > 1
  <2>1. Cardinality(mine) \in Nat /\ Cardinality(mine) <= 1
    BY <1>2, AtMostOneElement
  <2> QED
    BY <1>1, <1>4, <2>1, ClaimsAssumption DEF Available
<1>5. CASE mine = {}
  BY <1>1, <1>5, FS_EmptySet, ClaimsAssumption DEF Available
<1> QED
  BY <1>3, <1>4, <1>5 DEF Roomy

\* What a sweeper is about to publish it publishes.
LEMMA OutStays ==
    ASSUME Roomy, ConnectedInv, [Next]_vars, NEW t \in Tasks, NEW n \in Nodes,
           Carries(<<sweeper[n].out>>, t)
    PROVE  \/ Carries(<<sweeper'[n].out>>, t)
           \/ \A w \in Workers : OnItsWay(t, w)'
<1> DEFINE out == sweeper[n].out
<1>0. /\ sweeper \in [Nodes -> [todo : SUBSET Snapshots, out : Envelopes \cup {NoEnv}]]
      /\ out.kind = "task" /\ out.task = t
  BY CarriesOne DEF ConnectedInv, MappedInv, IInv, TypeOK, NodeType
<1>1. out # NoEnv /\ out \in Envelopes
  BY <1>0 DEF NoEnv
<1>2. CASE sweeper'[n] = sweeper[n]
  BY <1>2
<1>3. CASE SweepPublish(n)
  <2>1. PublishTo(out)
    BY <1>3 DEF SweepPublish
  <2>2. \A w \in Workers : Home[w] \in Nodes
    BY ClaimsAssumption
  <2> HIDE DEF out
  <2> QED
    BY <1>0, <1>1, <2>1, <2>2, Published DEF OnItsWay
<1>4. ~SweepScan(n) /\ ~SweepOne(n) /\ ~SweepRaises(n)
  BY <1>1 DEF SweepScan, SweepOne, SweepRaises, IdleSweeper, Fault, Roomy
<1>5. ASSUME NEW m \in Nodes, SweeperStep(m) \/ NodeFault(m), m # n \/ ListenerRaises(m)
      PROVE  sweeper'[n] = sweeper[n]
  BY <1>0, <1>5 DEF SweeperStep, SweepScan, SweepOne, SweepDeadLetter, SweepReclaim, SweepPublish,
     SweepRaises, ListenerRaises, NodeFault
<1>6. ASSUME NEW m \in Nodes, ListenerStep(m) PROVE sweeper' = sweeper
  BY <1>6 DEF ListenerStep, Receive, Deliver
<1>7. ASSUME NEW w \in Workers, WorkerStep(w) \/ EndpointStep(w) \/ WorkerFault(w)
      PROVE  sweeper' = sweeper
  BY <1>7 DEF WorkerStep, Take, SetBusy, Finish, CompleteRead, CompleteWrite, Reply, SeesClosed,
     Connect, EndpointStep, Register, CleanUp, WorkerFault, Drop, Kill, ConnectFails,
     WorkerRaises, nodeVars
<1>8. ASSUME NEW u \in Tasks, Post(u) \/ Expire(u) PROVE sweeper' = sweeper
  BY <1>8 DEF Post, Expire, nodeVars
<1>9. CASE UNCHANGED vars
  BY <1>2, <1>9 DEF vars, nodeVars
<1> HIDE DEF out
<1> QED
  BY <1>2, <1>3, <1>4, <1>5, <1>6, <1>7, <1>8, <1>9 DEF Next, SweeperStep, NodeFault

LEMMA RetryStep == Roomy /\ RoomyInv /\ [Next]_vars => RetryInv'
<1> SUFFICES ASSUME Roomy, RoomyInv, [Next]_vars, NEW t \in Tasks,
                    msgStatus'[t] # "none", claims'[t] = NoClaim
             PROVE  \/ \A w \in Workers : OnItsWay(t, w)'
                    \/ \E n \in Nodes : Carries(<<sweeper'[n].out>>, t)
  BY DEF RetryInv
<1>0. NoLoss /\ ConnectedInv /\ AllReady /\ MappedInv
  BY DEF Roomy, RoomyInv, ConnectedInv
<1>1. CASE claims[t] = NoClaim /\ msgStatus[t] = "none"
  BY <1>0, <1>1, PostedBy, PostReachesAll
<1>2. CASE claims[t] = NoClaim /\ msgStatus[t] # "none"
  <2>1. ASSUME NEW n \in Nodes, Carries(<<sweeper[n].out>>, t)
        PROVE  \/ \A w \in Workers : OnItsWay(t, w)'
               \/ \E m \in Nodes : Carries(<<sweeper'[m].out>>, t)
    BY <1>0, <2>1, OutStays
  <2>2. ASSUME \A w \in Workers : OnItsWay(t, w), NEW w \in Workers PROVE OnItsWay(t, w)'
    BY <1>0, <1>2, <2>2, RoomForOne, WayStays DEF Roomy
  <2> QED
    BY <1>2, <2>1, <2>2 DEF RoomyInv, RetryInv
<1>3. CASE claims[t] # NoClaim
  <2>1. ASSUME NEW w \in Workers, Take(w) PROVE FALSE
    <3>1. \/ UNCHANGED claims
          \/ \E u \in Tasks : claims'[u].status = "claimed" /\ \A x \in Tasks \ {u} : claims'[x] = claims[x]
      BY <1>0, <2>1, Taken
    <3> QED
      BY <1>3, <3>1 DEF NoClaim
  <2>2. RowMove(t)
    BY <1>0, <2>1, RowMoves
  <2>3. claims[t].id # 0 /\ \A w \in Workers : ~Register(w)
    BY <1>0, <1>3 DEF Register, AllReady, MappedInv, IInv, TypeOK, ClaimsType, Claims
  <2>4. TakenBack(t)
    BY <2>2, <2>3 DEF RowMove, SameClaim, NoClaim
  <2> QED
    BY <2>4, CarriesOne DEF TakenBack
<1> QED
  BY <1>1, <1>2, <1>3

\* A claim that is taken back is not forgotten with it: the task is published anew
\* and finds every worker that is left, however late the old attempt's answer and
\* whatever transactions of workers and sweeps fail (claim_sweeper.py:_sweep,
\* message_router.py:_filter_available). That is as long as every worker is
\* connected, no PUBLISH and no transaction of a listener fails, and no worker has
\* as many claims as it may have: more than one is allowed, or there is one task.
THEOREM RetriesAreOffered == ASSUME Roomy PROVE Spec => []TaskIsOffered
<1>1. Init => RoomyInv
  <2> SUFFICES ASSUME Init PROVE RoomyInv
    OBVIOUS
  <2>1. InitReady = Workers
    BY DEF Roomy
  <2>2. AllReady
    BY <2>1 DEF Init, AllReady, Listening
  <2>3. RetryInv
    BY DEF Init, RetryInv
  <2> QED
    BY <2>2, <2>3, InitConnected DEF RoomyInv
<1>2. RoomyInv /\ [Next]_vars => RoomyInv'
  BY RetryStep, ReadyStep, LinkStep, HeldStep, AnswerStep, PostedStep, InvStep
     DEF RoomyInv, ConnectedInv, MappedInv, Roomy
<1>3. RoomyInv => TaskIsOffered
  <2> SUFFICES ASSUME RoomyInv, NEW t \in Tasks, msgStatus[t] # "none", claims[t].status = "none",
                      NEW w \in Workers, worker[w].pc # "stopped"
               PROVE  \/ OnItsWay(t, w)
                      \/ \E n \in Nodes : Carries(<<sweeper[n].out>>, t)
    BY DEF TaskIsOffered
  <2>1. claims[t] = NoClaim
    BY RowFacts DEF RoomyInv, ConnectedInv
  <2> QED
    BY <2>1 DEF RoomyInv, RetryInv
<1> QED
  BY <1>1, <1>2, <1>3, PTL DEF Spec
=============================================================================
