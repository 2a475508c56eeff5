------------------------- MODULE RequestReplyProofs -------------------------
(* Theorems about RequestReply, for all values of its constants. *)
EXTENDS RequestReply, TLAPS

-----------------------------------------------------------------------------
(* Types. That a handler gets its own frame back when its request has ended   *)
(* rests on InnerInv: it has been waiting for that request.                   *)

InnerInv ==
    \A r \in Inner : req[r] = "waiting" =>
        loop[By[r]].pc = "asking" /\ loop[By[r]].inner = r

LoopState == [pc : LoopPc, env : Envelopes \cup {NoEnv}, inner : Requests \cup {None}]
FramePc   == {"ack", "handle", "work", "asking"}

LEMMA LoopStates ==
    /\ \A pc \in LoopPc, e \in Envelopes \cup {NoEnv} : LoopAt(pc, e) \in LoopState
    /\ \A pc \in LoopPc, e \in Envelopes \cup {NoEnv} :
          LoopAt(pc, e).pc = pc /\ LoopAt(pc, e).env = e
  BY DEF LoopAt, LoopState

\* The loop of a gets to pc, with a frame in hand if pc needs one.
LEMMA LoopMoves ==
    ASSUME LoopType, NEW a \in Agents, NEW pc \in LoopPc \ {"asking"},
           NEW e \in Envelopes \cup {NoEnv},
           pc \in FramePc => e \in Envelopes,
           LoopTo(a, pc, e), running' \in [Agents -> BOOLEAN]
    PROVE  LoopType'
<1>1. LoopAt(pc, e) \in LoopState /\ LoopAt(pc, e).pc = pc /\ LoopAt(pc, e).env = e
  BY LoopStates
<1>2. loop' = [loop EXCEPT ![a] = LoopAt(pc, e)]
  BY DEF LoopTo
<1> QED
  BY <1>1, <1>2 DEF LoopType, LoopState, FramePc

LEMMA LoopReads ==
    ASSUME LoopType, NEW a \in Agents, ReadNext(a) \/ ConnectionClosed(a),
           running' = running
    PROVE  LoopType'
  BY LoopMoves DEF ReadNext, ConnectionClosed, LoopType, LoopPc, FramePc

LEMMA EnvelopeTypes ==
    /\ \A r \in Requests, a \in Agents, kind \in {"request", "task", "reply"} :
          Envelope(kind, r, a) \in Envelopes
    /\ \A a \in Agents : Envelope("dm", None, a) \in Envelopes
    /\ \A e \in Envelopes : HasTaskId(e) => e.req \in Requests
    /\ \A e \in Envelopes : HasReplyTo(e) => e.req \in Requests /\ HasTaskId(e)
    /\ \A e \in Envelopes : e.from \in Agents
  BY DEF Envelope, Envelopes, HasTaskId, HasReplyTo

LEMMA SendType ==
    ASSUME queue \in [Agents -> Seq(Envelopes)], NEW e \in Envelopes, NEW targets, Send(e, targets)
    PROVE  queue' \in [Agents -> Seq(Envelopes)]
  BY DEF Send

LEMMA RequestType ==
    ASSUME TypeOK, NEW r \in Requests, Request(r)
    PROVE  /\ queue' \in [Agents -> Seq(Envelopes)] /\ pending' \in [Agents -> SUBSET Requests]
           /\ req' \in [Requests -> ReqPc] /\ fut' \in [Requests -> FutState]
<1> USE DEF TypeOK
<1>1. By[r] \in Agents
  BY RequestAssumption DEF RequestAssumption
<1>2. queue' \in [Agents -> Seq(Envelopes)]
  <2>1. CASE link[By[r]]
    BY <1>1, <2>1, EnvelopeTypes, SendType DEF Request
  <2>2. CASE ~link[By[r]]
    BY <2>2 DEF Request
  <2> QED
    BY <2>1, <2>2
<1>3. pending' \in [Agents -> SUBSET Requests]
  BY <1>1 DEF Request
<1>4. req' \in [Requests -> ReqPc] /\ fut' \in [Requests -> FutState]
  BY DEF Request, ReqPc, FutState
<1> QED
  BY <1>2, <1>3, <1>4

LEMMA InitType == Init => TypeOK
<1> SUFFICES ASSUME Init PROVE TypeOK
  OBVIOUS
<1>1. LoopType
  <2>1. \A a \in Agents : /\ loop[a] \in LoopState
                          /\ loop[a].pc \in {"recv", "connect"}
    <3> SUFFICES ASSUME NEW a \in Agents
                 PROVE  loop[a] \in LoopState /\ loop[a].pc \in {"recv", "connect"}
      OBVIOUS
    <3>1. PICK pc \in {"recv", "connect"} : loop[a] = LoopAt(pc, NoEnv)
      BY DEF Init
    <3> QED
      BY <3>1, LoopStates DEF LoopPc
  <2> QED
    BY <2>1 DEF Init, LoopType, LoopState
<1>2. queue \in [Agents -> Seq(Envelopes)] /\ pending \in [Agents -> SUBSET Requests]
  BY DEF Init
<1> QED
  BY <1>1, <1>2 DEF Init, TypeOK, ReqPc, FutState

LEMMA LoopStepType ==
    ASSUME TypeOK, NEW a \in Agents, LoopStep(a) PROVE TypeOK'
<1> USE DEF TypeOK
<1>1. CASE Connect(a)
  <2>1. LoopType'
    BY <1>1, LoopMoves DEF Connect, LoopType, LoopPc, FramePc
  <2> QED
    BY <1>1, <2>1 DEF Connect, reqVars, claims, history
<1>2. CASE Receive(a)
  <2>1. Head(queue[a]) \in Envelopes /\ Tail(queue[a]) \in Seq(Envelopes)
    BY <1>2 DEF Receive
  <2>2. LoopType'
    BY <1>2, <2>1, LoopMoves DEF Receive, LoopType, LoopPc
  <2>3. queue' \in [Agents -> Seq(Envelopes)]
    BY <1>2, <2>1 DEF Receive
  <2>4. fut' \in [Requests -> FutState]
    BY <1>2 DEF Receive, FutState
  <2> QED
    BY <1>2, <2>2, <2>3, <2>4 DEF Receive, claims, history
<1>3. CASE ReceiveRaises(a) \/ Observe(a) \/ CustomIgnores(a)
  <2>1. LoopType'
    BY <1>3, LoopReads DEF ReceiveRaises, Observe, CustomIgnores
  <2> QED
    BY <1>3, <2>1 DEF ReceiveRaises, Observe, CustomIgnores, netVars, reqVars, claims, history
<1>4. CASE Ack(a)
  <2>1. loop[a].env \in Envelopes
    BY <1>4 DEF Ack, LoopType
  <2>2. LoopType'
    BY <1>4, <2>1, LoopMoves, LoopReads DEF Ack, LoopType, LoopPc
  <2> QED
    BY <1>4, <2>2 DEF Ack, netVars, reqVars, claims, history
<1>5. CASE Sleep(a)
  <2>1. LoopType'
    BY <1>5, LoopMoves DEF Sleep, AfterSleep, LoopType, LoopPc, FramePc
  <2> QED
    BY <1>5, <2>1 DEF Sleep, netVars, reqVars, claims, history
<1>6. CASE Claim(a)
  <2>1. loop[a].env \in Envelopes
    BY <1>6 DEF Claim, LoopType
  <2>2. LoopType'
    BY <1>6, <2>1, LoopMoves, LoopReads DEF Claim, LoopType, LoopPc
  <2>3. holder' \in [Requests -> Agents \cup {None}]
    BY <1>6 DEF Claim
  <2> QED
    BY <1>6, <2>2, <2>3 DEF Claim, netVars, reqVars, history
<1>7. CASE WorkerAnswers(a)
  <2>1. loop[a].env \in Envelopes
    BY <1>7 DEF WorkerAnswers, LoopType
  <2>2. LoopTo(a, "ended", NoEnv) \/ ReadNext(a) \/ ConnectionClosed(a)
    BY <1>7 DEF WorkerAnswers
  <2>3. LoopType'
    BY <1>7, <2>2, LoopMoves, LoopReads DEF WorkerAnswers, LoopType, LoopPc, FramePc
  <2>4. settled' \in SUBSET Requests /\ replied' \in SUBSET Requests
    BY <1>7, <2>1, EnvelopeTypes DEF WorkerAnswers
  <2>5. queue' \in [Agents -> Seq(Envelopes)]
    BY <1>7, <2>1, EnvelopeTypes, SendType DEF WorkerAnswers, AnswersTo
  <2> QED
    BY <1>7, <2>3, <2>4, <2>5 DEF WorkerAnswers, reqVars
<1>8. CASE CustomAnswers(a)
  <2>1. loop[a].env \in Envelopes
    BY <1>8 DEF CustomAnswers, LoopType
  <2>2. LoopType'
    BY <1>8, LoopReads DEF CustomAnswers
  <2>3. replied' \in SUBSET Requests
    BY <1>8, <2>1, EnvelopeTypes DEF CustomAnswers
  <2>4. queue' \in [Agents -> Seq(Envelopes)]
    BY <1>8, <2>1, EnvelopeTypes, SendType DEF CustomAnswers
  <2> QED
    BY <1>8, <2>2, <2>3, <2>4 DEF CustomAnswers, reqVars, claims
<1>9. CASE CustomAsks(a)
  <2>1. PICK r \in Inner :
           /\ loop[a].pc = "handle" /\ By[r] = a /\ Request(r)
           /\ IF link[a]
              THEN loop' = [loop EXCEPT ![a] =
                              [pc |-> "asking", env |-> loop[a].env, inner |-> r]]
              ELSE ConnectionClosed(a)
           /\ UNCHANGED <<running, link, fired, claims, history>>
    BY <1>9 DEF CustomAsks
  <2>2. r \in Requests
    BY RequestAssumption DEF RequestAssumption
  <2>3. LoopType'
    <3>1. CASE link[a]
      <4> DEFINE x == [pc |-> "asking", env |-> loop[a].env, inner |-> r]
      <4>1. /\ x \in LoopState /\ x.env \in Envelopes
            /\ x.pc = "asking" /\ x.inner \in Inner
        BY <2>1, <2>2 DEF LoopType, LoopState, LoopPc
      <4>2. loop' = [loop EXCEPT ![a] = x] /\ running' = running
        BY <2>1, <3>1
      <4> HIDE DEF x
      <4> QED
        BY <4>1, <4>2 DEF LoopType, LoopState
    <3>2. CASE ~link[a]
      BY <2>1, <3>2, LoopReads
    <3> QED
      BY <3>1, <3>2
  <2> QED
    BY <2>1, <2>2, <2>3, RequestType DEF claims, history
<1> QED
  BY <1>1, <1>2, <1>3, <1>4, <1>5, <1>6, <1>7, <1>8, <1>9 DEF LoopStep

LEMMA RequestStepType ==
    ASSUME TypeOK, InnerInv, NEW r \in Requests, RequestStep(r) PROVE TypeOK'
<1> USE DEF TypeOK
<1>1. CASE MakeRequest(r)
  BY <1>1, RequestType DEF MakeRequest, LoopType, claims, history
<1>2. CASE TimeOut(r)
  BY <1>2 DEF TimeOut, LoopType, FutState, netVars, claims, history
<1>3. CASE Return(r)
  <2>1. By[r] \in Agents
    BY RequestAssumption DEF RequestAssumption
  <2>2. r \in Inner => loop[By[r]].env \in Envelopes
    BY <1>3, <2>1 DEF Return, InnerInv, LoopType
  <2>3. req' \in [Requests -> ReqPc] /\ pending' \in [Agents -> SUBSET Requests]
    BY <1>3, <2>1 DEF Return, ReqPc, PendingWithout
  <2>4. LoopType'
    BY <1>3, <2>1, <2>2, LoopMoves DEF Return, LoopType, LoopPc, FramePc
  <2> QED
    BY <1>3, <2>3, <2>4 DEF Return, netVars, claims, history
<1> QED
  BY <1>1, <1>2, <1>3 DEF RequestStep

LEMMA OtherStepType ==
    ASSUME TypeOK, FaultStep \/ \E a \in Agents : Disconnect(a) PROVE TypeOK'
<1> USE DEF TypeOK, Fault
<1>1. ASSUME NEW a \in Agents, ConnectionDrops(a) PROVE TypeOK'
  BY <1>1 DEF ConnectionDrops, LoopType, reqVars, claims
<1>2. ASSUME NEW a \in Agents, ConnectRaises(a) \/ HandlerRaises(a) PROVE TypeOK'
  <2>1. LoopTo(a, "ended", NoEnv) /\ running' = running
    BY <1>2 DEF ConnectRaises, HandlerRaises
  <2>2. LoopType'
    BY <2>1, LoopMoves DEF LoopType, LoopPc, FramePc
  <2> QED
    BY <1>2, <2>2 DEF ConnectRaises, HandlerRaises, netVars, reqVars, claims
<1>3. ASSUME NEW r \in Requests, Requeue(r) PROVE TypeOK'
  <2>1. By[r] \in Agents
    BY RequestAssumption DEF RequestAssumption
  <2>2. queue' \in [Agents -> Seq(Envelopes)]
    BY <1>3, <2>1, EnvelopeTypes, SendType DEF Requeue
  <2> QED
    BY <1>3, <2>2 DEF Requeue, LoopType, reqVars
<1>4. ASSUME NEW a \in Agents, Disconnect(a) PROVE TypeOK'
  BY <1>4 DEF Disconnect, LoopType, reqVars, claims
<1> QED
  BY <1>1, <1>2, <1>3, <1>4 DEF FaultStep

LEMMA TypeStep == TypeOK /\ InnerInv /\ [Next]_vars => TypeOK'
<1> SUFFICES ASSUME TypeOK, InnerInv, [Next]_vars PROVE TypeOK'
  OBVIOUS
<1>1. CASE UNCHANGED vars
  BY <1>1 DEF vars, netVars, reqVars, claims, history, TypeOK, LoopType
<1>2. CASE Next
  BY <1>2, LoopStepType, RequestStepType, OtherStepType DEF Next
<1> QED
  BY <1>1, <1>2

-----------------------------------------------------------------------------
(* Requests and their futures. A request an agent's handler has made and that  *)
(* waits has the loop of the agent waiting for it.                             *)

\* What a step of the loop does with the requests.
LEMMA LoopLeavesRequests ==
    ASSUME NEW a \in Agents, LoopStep(a), ~CustomAsks(a)
    PROVE  req' = req /\ pending' = pending /\ fired' = fired
  BY DEF LoopStep, Connect, Receive, ReceiveRaises, Ack, Sleep, Observe, Claim, WorkerAnswers,
     CustomAnswers, CustomIgnores, reqVars

LEMMA LoopFrame ==
    ASSUME TypeOK, NEW a \in Agents, LoopStep(a)
    PROVE  /\ \A b \in Agents \ {a} : loop'[b] = loop[b]
           /\ loop[a].pc # "asking"
<1> USE DEF LoopStep, Connect, Receive, ReceiveRaises, Ack, Sleep, Observe, Claim, WorkerAnswers,
     CustomAnswers, CustomIgnores, CustomAsks
<1>1. loop[a].pc # "asking"
  OBVIOUS
<1>2. \E x : loop' = [loop EXCEPT ![a] = x]
  BY DEF LoopTo, ReadNext, ConnectionClosed
<1>3. \A b \in Agents \ {a} : loop'[b] = loop[b]
  BY <1>2 DEF TypeOK, LoopType
<1> QED
  BY <1>1, <1>3

LEMMA FaultFrame ==
    ASSUME FaultStep \/ \E a \in Agents : Disconnect(a)
    PROVE  UNCHANGED <<pending, req, fut, fired, replied>>
  BY DEF FaultStep, ConnectionDrops, ConnectRaises, HandlerRaises, Requeue, Disconnect, reqVars

LEMMA PendingStep == TypeOK /\ PendingIsAwaited /\ [Next]_vars => PendingIsAwaited'
<1> SUFFICES ASSUME TypeOK, PendingIsAwaited, [Next]_vars PROVE PendingIsAwaited'
  OBVIOUS
<1> USE DEF TypeOK, PendingIsAwaited
<1>1. ASSUME NEW r \in Requests, Request(r) PROVE PendingIsAwaited'
  <2>1. By[r] \in Agents
    BY RequestAssumption DEF RequestAssumption
  <2>2. req'[r] \in {"waiting", "raised"} /\ \A q \in Requests \ {r} : req'[q] = req[q]
    BY <1>1 DEF Request
  <2>3. pending' = [pending EXCEPT ![By[r]] = pending[By[r]] \cup {r}]
    BY <1>1 DEF Request
  <2>4. req[r] = "new"
    BY <1>1 DEF Request
  <2> QED
    BY <2>1, <2>2, <2>3, <2>4
<1>2. ASSUME NEW r \in Requests, Return(r) PROVE PendingIsAwaited'
  <2>1. By[r] \in Agents
    BY RequestAssumption DEF RequestAssumption
  <2>2. req'[r] \in {"answered", "timeout"} /\ \A q \in Requests \ {r} : req'[q] = req[q]
    BY <1>2 DEF Return
  <2>3. pending' = [pending EXCEPT ![By[r]] = pending[By[r]] \ {r}]
    BY <1>2 DEF Return, PendingWithout
  <2> QED
    BY <2>1, <2>2, <2>3
<1>3. CASE UNCHANGED <<pending, req>>
  BY <1>3
<1>4. UNCHANGED vars => UNCHANGED <<pending, req>>
  BY DEF vars, reqVars
<1>5. ASSUME NEW r \in Requests, TimeOut(r) PROVE UNCHANGED <<pending, req>>
  BY <1>5 DEF TimeOut
<1>6. ASSUME NEW a \in Agents, CustomAsks(a) PROVE \E r \in Requests : Request(r)
  BY <1>6, RequestAssumption DEF CustomAsks, RequestAssumption
<1> QED
  BY <1>1, <1>2, <1>3, <1>4, <1>5, <1>6, LoopLeavesRequests, FaultFrame
     DEF Next, RequestStep, MakeRequest

LEMMA InnerStep == TypeOK /\ InnerInv /\ [Next]_vars => InnerInv'
<1> SUFFICES ASSUME TypeOK, InnerInv, [Next]_vars PROVE InnerInv'
  OBVIOUS
<1>0. By \in [Requests -> Agents] /\ Inner \subseteq Requests
  BY RequestAssumption DEF RequestAssumption
<1>1. ASSUME NEW a \in Agents, LoopStep(a), ~CustomAsks(a) PROVE InnerInv'
  <2>1. req' = req
    BY <1>1, LoopLeavesRequests
  <2>2. loop[a].pc # "asking" /\ \A b \in Agents \ {a} : loop'[b] = loop[b]
    BY <1>1, LoopFrame
  <2> QED
    BY <1>0, <2>1, <2>2 DEF InnerInv
<1>2. ASSUME NEW a \in Agents, CustomAsks(a) PROVE InnerInv'
  <2>1. PICK r \in Inner :
           /\ loop[a].pc = "handle" /\ By[r] = a /\ Request(r)
           /\ IF link[a]
              THEN loop' = [loop EXCEPT ![a] =
                              [pc |-> "asking", env |-> loop[a].env, inner |-> r]]
              ELSE ConnectionClosed(a)
    BY <1>2 DEF CustomAsks
  <2>2. \A q \in Inner \ {r} : req'[q] = req[q]
    BY <1>0, <2>1 DEF Request, TypeOK
  <2>3. \A q \in Inner : req[q] = "waiting" => By[q] # a
    BY <2>1 DEF InnerInv
  <2>4. \A b \in Agents \ {a} : loop'[b] = loop[b]
    BY <1>2, LoopFrame DEF LoopStep
  <2>5. req'[r] = "waiting" => loop'[a].pc = "asking" /\ loop'[a].inner = r
    BY <1>0, <2>1 DEF Request, TypeOK, LoopType
  <2> QED
    BY <1>0, <2>1, <2>2, <2>3, <2>4, <2>5 DEF InnerInv
<1>3. ASSUME NEW r \in Requests, MakeRequest(r) PROVE InnerInv'
  <2>1. loop' = loop /\ r \notin Inner /\ \A q \in Requests \ {r} : req'[q] = req[q]
    BY <1>3 DEF MakeRequest, Request, TypeOK
  <2> QED
    BY <1>0, <2>1 DEF InnerInv
<1>4. ASSUME NEW r \in Requests, TimeOut(r) PROVE InnerInv'
  BY <1>4 DEF TimeOut, InnerInv
<1>5. ASSUME NEW r \in Requests, Return(r) PROVE InnerInv'
  <2>1. req'[r] # "waiting" /\ \A q \in Requests \ {r} : req'[q] = req[q]
    BY <1>5 DEF Return, TypeOK
  <2>2. r \in Inner => \A q \in Inner \ {r} : req[q] = "waiting" => By[q] # By[r]
    BY <1>5 DEF Return, InnerInv
  <2>3. \A b \in Agents : (r \notin Inner \/ b # By[r]) => loop'[b] = loop[b]
    BY <1>0, <1>5 DEF Return, LoopTo, TypeOK, LoopType
  <2> QED
    BY <1>0, <2>1, <2>2, <2>3 DEF InnerInv
<1>6. ASSUME NEW a \in Agents, ConnectRaises(a) \/ HandlerRaises(a) PROVE InnerInv'
  <2>1. loop[a].pc # "asking" /\ req' = req /\ \A b \in Agents \ {a} : loop'[b] = loop[b]
    BY <1>6 DEF ConnectRaises, HandlerRaises, LoopTo, reqVars, TypeOK, LoopType
  <2> QED
    BY <1>0, <2>1 DEF InnerInv
<1>7. CASE UNCHANGED <<loop, req>>
  BY <1>7 DEF InnerInv
<1>8. UNCHANGED vars => UNCHANGED <<loop, req>>
  BY DEF vars, reqVars
<1>9. ASSUME NEW a \in Agents, ConnectionDrops(a) \/ Disconnect(a)
      PROVE  UNCHANGED <<loop, req>>
  BY <1>9 DEF ConnectionDrops, Disconnect, reqVars
<1>10. ASSUME NEW r \in Requests, Requeue(r) PROVE UNCHANGED <<loop, req>>
  BY <1>10 DEF Requeue, reqVars
<1> QED
  BY <1>1, <1>2, <1>3, <1>4, <1>5, <1>6, <1>7, <1>8, <1>9, <1>10
     DEF Next, RequestStep, FaultStep

-----------------------------------------------------------------------------
(* What the frames say. A request in an agent's socket was addressed to it; a  *)
(* reply has been sent by an addressee; and neither they nor what the sweeper  *)
(* publishes belong to a request whose send has raised.                        *)

Sent(r) == req[r] \notin {"new", "raised"}

Sound(a) ==
    {e \in Envelopes : /\ e.kind = "request" => a \in To[e.req]
                       /\ e.kind = "reply" => e.req \in replied
                       /\ e.kind # "dm" => Sent(e.req)}

QueueInv  == \A a \in Agents : queue[a] \in Seq(Sound(a))
HandInv   == \A a \in Agents : loop[a].pc \in FramePc => loop[a].env \in Sound(a)
HolderInv == \A r \in Requests : holder[r] # None => Sent(r)
FrameInv  == QueueInv /\ HandInv /\ HolderInv

LEMMA SeqSubset ==
    ASSUME NEW S, NEW T, S \subseteq T PROVE Seq(S) \subseteq Seq(T)
  OBVIOUS

\* A request that has been sent stays so, and replies are not taken back.
LEMMA SentStays ==
    ASSUME TypeOK, [Next]_vars
    PROVE  (\A r \in Requests : Sent(r) => Sent(r)') /\ replied \subseteq replied'
<1> USE DEF Sent
<1>1. ASSUME NEW r \in Requests, Request(r), replied' = replied
      PROVE  (\A q \in Requests : Sent(q) => Sent(q)') /\ replied \subseteq replied'
  BY <1>1 DEF Request, TypeOK
<1>2. ASSUME NEW r \in Requests, Return(r)
      PROVE  (\A q \in Requests : Sent(q) => Sent(q)') /\ replied \subseteq replied'
  BY <1>2 DEF Return, TypeOK, history
<1>3. CASE req' = req /\ replied \subseteq replied'
  BY <1>3
<1>4. UNCHANGED vars => req' = req /\ replied' = replied
  BY DEF vars, reqVars, history
<1>5. ASSUME NEW r \in Requests, TimeOut(r) PROVE req' = req /\ replied' = replied
  BY <1>5 DEF TimeOut, history
<1>6. ASSUME NEW r \in Requests, MakeRequest(r) PROVE Request(r) /\ replied' = replied
  BY <1>6 DEF MakeRequest, history
<1>7. ASSUME NEW a \in Agents, CustomAsks(a)
      PROVE  replied' = replied /\ \E r \in Requests : Request(r)
  BY <1>7, RequestAssumption DEF CustomAsks, RequestAssumption, history
<1>8. ASSUME NEW a \in Agents, LoopStep(a), ~CustomAsks(a)
      PROVE  req' = req /\ replied \subseteq replied'
  <2>1. replied \subseteq replied'
    BY <1>8 DEF LoopStep, Connect, Receive, ReceiveRaises, Ack, Sleep, Observe, Claim,
         WorkerAnswers, CustomAnswers, CustomIgnores, history
  <2> QED
    BY <1>8, <2>1, LoopLeavesRequests
<1> HIDE DEF Sent
<1> QED
  BY <1>1, <1>2, <1>3, <1>4, <1>5, <1>6, <1>7, <1>8, FaultFrame DEF Next, RequestStep

LEMMA SoundGrows ==
    ASSUME TypeOK, [Next]_vars
    PROVE  \A a \in Agents : Sound(a) \subseteq Sound(a)' /\ Seq(Sound(a)) \subseteq Seq(Sound(a)')
<1>1. \A a \in Agents : Sound(a) \subseteq Sound(a)'
  BY SentStays DEF Sound, Envelopes
<1> QED
  BY <1>1, SeqSubset

LEMMA SendSound ==
    ASSUME QueueInv, NEW e, NEW targets, Send(e, targets),
           \A b \in Agents : Seq(Sound(b)) \subseteq Seq(Sound(b)'),
           \A b \in Agents \cap targets : e \in Sound(b)'
    PROVE  QueueInv'
  BY DEF QueueInv, Send

\* The loop of a keeps the frame it has in hand, or has none any more.
LEMMA HandStays ==
    ASSUME HandInv, NEW a \in Agents, \A b \in Agents : Sound(b) \subseteq Sound(b)',
           \A b \in Agents \ {a} : loop'[b] = loop[b],
           \/ loop'[a].pc \notin FramePc
           \/ loop'[a].env = loop[a].env /\ loop[a].pc \in FramePc
    PROVE  HandInv'
  BY DEF HandInv

LEMMA LoopKeeps ==
    ASSUME TypeOK, NEW a \in Agents, LoopStep(a), ~Receive(a)
    PROVE  \/ loop'[a].pc \notin FramePc
           \/ loop'[a].env = loop[a].env /\ loop[a].pc \in FramePc
<1>1. ASSUME NEW pc \in LoopPc, NEW e \in Envelopes \cup {NoEnv}, LoopTo(a, pc, e)
      PROVE  loop'[a].pc = pc /\ loop'[a].env = e
  BY <1>1, LoopStates DEF LoopTo, TypeOK, LoopType
<1>2. NoEnv \in Envelopes \cup {NoEnv} /\ loop[a].env \in Envelopes \cup {NoEnv}
  BY DEF TypeOK, LoopType
<1>3. ReadNext(a) \/ ConnectionClosed(a) => loop'[a].pc \notin FramePc
  BY <1>1, <1>2 DEF ReadNext, ConnectionClosed, LoopPc, FramePc
<1>4. Connect(a) \/ Sleep(a) => loop'[a].pc \notin FramePc
  BY <1>1, <1>2 DEF Connect, Sleep, AfterSleep, LoopPc, FramePc
<1>5. ASSUME Ack(a) \/ Claim(a)
      PROVE  \/ loop'[a].pc \notin FramePc
             \/ loop'[a].env = loop[a].env /\ loop[a].pc \in FramePc
  <2>1. loop[a].pc \in FramePc
    BY <1>5 DEF Ack, Claim, FramePc
  <2>2. \/ ReadNext(a) \/ ConnectionClosed(a)
        \/ LoopTo(a, "handle", loop[a].env) \/ LoopTo(a, "work", loop[a].env)
    BY <1>5 DEF Ack, Claim
  <2> QED
    BY <1>1, <1>2, <1>3, <2>1, <2>2 DEF LoopPc
<1>6. WorkerAnswers(a) => ReadNext(a) \/ ConnectionClosed(a) \/ LoopTo(a, "ended", NoEnv)
  BY DEF WorkerAnswers
<1>7. ReceiveRaises(a) \/ Observe(a) \/ CustomAnswers(a) \/ CustomIgnores(a)
      => ReadNext(a) \/ ConnectionClosed(a)
  BY DEF ReceiveRaises, Observe, CustomAnswers, CustomIgnores
<1>8. ASSUME CustomAsks(a)
      PROVE  \/ loop'[a].pc \notin FramePc
             \/ loop'[a].env = loop[a].env /\ loop[a].pc \in FramePc
  BY <1>3, <1>8 DEF CustomAsks, FramePc, TypeOK, LoopType
<1>9. LoopTo(a, "ended", NoEnv) => loop'[a].pc \notin FramePc
  BY <1>1, <1>2 DEF LoopPc, FramePc
<1> QED
  BY <1>3, <1>4, <1>5, <1>6, <1>7, <1>8, <1>9 DEF LoopStep

LEMMA HandStep == TypeOK /\ InnerInv /\ FrameInv /\ [Next]_vars => HandInv'
<1> SUFFICES ASSUME TypeOK, InnerInv, FrameInv, [Next]_vars PROVE HandInv'
  OBVIOUS
<1>0. \A b \in Agents : Sound(b) \subseteq Sound(b)'
  BY SoundGrows
<1>1. HandInv /\ QueueInv /\ By \in [Requests -> Agents]
  BY RequestAssumption DEF FrameInv, RequestAssumption
<1>2. ASSUME NEW a \in Agents, Receive(a) PROVE HandInv'
  <2>1. Head(queue[a]) \in Sound(a)
    BY <1>1, <1>2 DEF QueueInv, Receive
  <2>2. Head(queue[a]) \in Envelopes
    BY <2>1 DEF Sound
  <2>3. loop'[a].env = Head(queue[a])
    BY <1>2, <2>2, LoopStates DEF Receive, LoopTo, LoopPc, TypeOK, LoopType
  <2>4. \A b \in Agents \ {a} : loop'[b] = loop[b]
    BY <1>2, LoopFrame DEF LoopStep
  <2> QED
    BY <1>0, <1>1, <2>1, <2>3, <2>4 DEF HandInv
<1>3. ASSUME NEW a \in Agents, LoopStep(a), ~Receive(a) PROVE HandInv'
  BY <1>0, <1>1, <1>3, LoopKeeps, LoopFrame, HandStays
<1>4. ASSUME NEW r \in Requests, Return(r) PROVE HandInv'
  <2>1. CASE r \notin Inner
    BY <1>0, <1>1, <1>4, <2>1 DEF Return, HandInv
  <2>2. CASE r \in Inner
    <3>1. loop[By[r]].pc = "asking" /\ By[r] \in Agents
      BY <1>1, <1>4, <2>2 DEF Return, InnerInv
    <3>2. loop[By[r]].env \in Envelopes
      BY <3>1 DEF TypeOK, LoopType
    <3>3. PICK pc \in {"handle", "ended"}, e \in {loop[By[r]].env, NoEnv} :
             LoopTo(By[r], pc, e) /\ (pc = "handle" => e = loop[By[r]].env)
      BY <1>4, <2>2 DEF Return
    <3>4. /\ \A b \in Agents \ {By[r]} : loop'[b] = loop[b]
          /\ loop'[By[r]].pc = pc /\ loop'[By[r]].env = e
      BY <3>1, <3>2, <3>3, LoopStates DEF LoopTo, LoopPc, TypeOK, LoopType
    <3> QED
      BY <1>0, <1>1, <3>1, <3>3, <3>4, HandStays DEF FramePc
  <2> QED
    BY <2>1, <2>2
<1>5. ASSUME NEW a \in Agents, ConnectRaises(a) \/ HandlerRaises(a) PROVE HandInv'
  <2>1. LoopTo(a, "ended", NoEnv)
    BY <1>5 DEF ConnectRaises, HandlerRaises
  <2>2. loop'[a].pc = "ended" /\ \A b \in Agents \ {a} : loop'[b] = loop[b]
    BY <2>1, LoopStates DEF LoopTo, LoopPc, TypeOK, LoopType
  <2> QED
    BY <1>0, <1>1, <2>2, HandStays DEF FramePc
<1>6. CASE UNCHANGED loop
  BY <1>0, <1>1, <1>6 DEF HandInv
<1>7. UNCHANGED vars => UNCHANGED loop
  BY DEF vars
<1>8. ASSUME NEW r \in Requests, MakeRequest(r) \/ TimeOut(r) \/ Requeue(r) PROVE UNCHANGED loop
  BY <1>8 DEF MakeRequest, TimeOut, Requeue
<1>9. ASSUME NEW a \in Agents, ConnectionDrops(a) \/ Disconnect(a) PROVE UNCHANGED loop
  BY <1>9 DEF ConnectionDrops, Disconnect
<1> QED
  BY <1>2, <1>3, <1>4, <1>5, <1>6, <1>7, <1>8, <1>9 DEF Next, RequestStep, FaultStep

\* What Request puts into the sockets.
LEMMA RequestSound ==
    ASSUME TypeOK, FrameInv, [Next]_vars, NEW r \in Requests, Request(r) PROVE QueueInv'
<1>0. By[r] \in Agents /\ QueueInv
  BY RequestAssumption DEF RequestAssumption, FrameInv
<1>1. CASE link[By[r]]
  <2> DEFINE e == Envelope("request", r, By[r])
  <2>1. req'[r] = "waiting" /\ Send(e, Recipients(r))
    BY <1>1 DEF Request, TypeOK
  <2>2. \A b \in Agents \cap Recipients(r) : e \in Sound(b)'
    <3>1. e \in Envelopes /\ e.kind = "request" /\ e.req = r
      BY <1>0, EnvelopeTypes DEF Envelope
    <3> HIDE DEF e
    <3> QED
      BY <2>1, <3>1 DEF Sound, Sent, Recipients
  <2> HIDE DEF e
  <2> QED
    BY <1>0, <2>1, <2>2, SoundGrows, SendSound
<1>2. CASE ~link[By[r]]
  BY <1>0, <1>2, SoundGrows DEF Request, QueueInv
<1> QED
  BY <1>1, <1>2

\* What the handlers put there.
LEMMA AnswerSound ==
    ASSUME TypeOK, FrameInv, [Next]_vars, NEW a \in Agents,
           WorkerAnswers(a) \/ CustomAnswers(a)
    PROVE  QueueInv'
<1>0. QueueInv /\ HandInv
  BY DEF FrameInv
<1>1. loop[a].env \in Envelopes /\ loop[a].env \in Sound(a)
  BY <1>0 DEF WorkerAnswers, CustomAnswers, TypeOK, LoopType, FramePc, HandInv
<1>7. PICK e \in Envelopes : e = loop[a].env /\ e \in Sound(a)
  BY <1>1
<1>2. ASSUME HasReplyTo(e), replied' = replied \cup {e.req}, Send(Envelope("reply", e.req, a), {e.from})
      PROVE  QueueInv'
  <2> DEFINE x == Envelope("reply", e.req, a)
  <2>1. x \in Envelopes /\ x.kind = "reply" /\ x.req = e.req /\ e.req \in Requests
    BY <1>7, <1>2, EnvelopeTypes DEF Envelope
  <2>2. Sent(e.req)'
    BY <1>7, <1>2, <2>1, SentStays DEF Sound, HasReplyTo
  <2>3. Send(x, {e.from})
    BY <1>2
  <2> HIDE DEF x
  <2>4. \A b \in Agents \cap {e.from} : x \in Sound(b)'
    BY <1>2, <2>1, <2>2 DEF Sound
  <2> QED
    BY <1>0, <2>3, <2>4, SoundGrows, SendSound
<1>3. ASSUME Send(Envelope("dm", None, a), {e.from}) PROVE QueueInv'
  <2> DEFINE x == Envelope("dm", None, a)
  <2>1. x \in Envelopes /\ x.kind = "dm"
    BY EnvelopeTypes DEF Envelope
  <2>2. Send(x, {e.from})
    BY <1>3
  <2> HIDE DEF x
  <2>3. \A b \in Agents \cap {e.from} : x \in Sound(b)'
    BY <2>1 DEF Sound
  <2> QED
    BY <1>0, <2>2, <2>3, SoundGrows, SendSound
<1>4. CASE queue' = queue
  BY <1>0, <1>4, SoundGrows DEF QueueInv
<1>5. CASE WorkerAnswers(a)
  BY <1>7, <1>2, <1>3, <1>4, <1>5 DEF WorkerAnswers, AnswersTo
<1>6. CASE CustomAnswers(a)
  BY <1>7, <1>2, <1>4, <1>6 DEF CustomAnswers
<1> QED
  BY <1>5, <1>6

LEMMA QueueStep == TypeOK /\ FrameInv /\ [Next]_vars => QueueInv'
<1> SUFFICES ASSUME TypeOK, FrameInv, [Next]_vars PROVE QueueInv'
  OBVIOUS
<1>0. QueueInv /\ HolderInv /\ By \in [Requests -> Agents]
  BY RequestAssumption DEF FrameInv, RequestAssumption
<1>1. ASSUME NEW a \in Agents, Connect(a) PROVE QueueInv'
  BY <1>0, <1>1, SoundGrows DEF Connect, QueueInv
<1>2. ASSUME NEW a \in Agents, Receive(a) PROVE QueueInv'
  <2>1. queue' = [queue EXCEPT ![a] = Tail(queue[a])] /\ queue[a] # <<>>
    BY <1>2 DEF Receive
  <2>2. Tail(queue[a]) \in Seq(Sound(a))
    BY <1>0, <2>1 DEF QueueInv
  <2> QED
    BY <1>0, <2>1, <2>2, SoundGrows DEF QueueInv
<1>3. ASSUME NEW r \in Requests, Requeue(r) PROVE QueueInv'
  <2> DEFINE e == Envelope("task", r, By[r])
  <2>1. e \in Envelopes /\ e.kind = "task" /\ e.req = r
    BY <1>0, EnvelopeTypes DEF Envelope
  <2>2. Sent(r)' /\ Send(e, Recipients(r))
    BY <1>0, <1>3, SentStays DEF Requeue, HolderInv
  <2> HIDE DEF e
  <2>3. \A b \in Agents \cap Recipients(r) : e \in Sound(b)'
    BY <2>1, <2>2 DEF Sound
  <2> QED
    BY <1>0, <2>2, <2>3, SoundGrows, SendSound
<1>4. CASE UNCHANGED queue
  BY <1>0, <1>4, SoundGrows DEF QueueInv
<1>5. UNCHANGED vars => UNCHANGED queue
  BY DEF vars, netVars
<1>6. ASSUME NEW a \in Agents,
             \/ ReceiveRaises(a) \/ Ack(a) \/ Sleep(a) \/ Observe(a) \/ Claim(a) \/ CustomIgnores(a)
             \/ Disconnect(a) \/ ConnectionDrops(a) \/ ConnectRaises(a) \/ HandlerRaises(a)
      PROVE  UNCHANGED queue
  BY <1>6 DEF ReceiveRaises, Ack, Sleep, Observe, Claim, CustomIgnores, Disconnect,
     ConnectionDrops, ConnectRaises, HandlerRaises, netVars
<1>7. ASSUME NEW r \in Requests, TimeOut(r) \/ Return(r) PROVE UNCHANGED queue
  BY <1>7 DEF TimeOut, Return, netVars
<1>8. ASSUME NEW a \in Agents, CustomAsks(a) PROVE QueueInv'
  BY <1>8, RequestSound, RequestAssumption DEF CustomAsks, RequestAssumption
<1>9. ASSUME NEW r \in Requests, MakeRequest(r) PROVE QueueInv'
  BY <1>9, RequestSound DEF MakeRequest
<1> QED
  BY <1>1, <1>2, <1>3, <1>4, <1>5, <1>6, <1>7, <1>8, <1>9, AnswerSound
     DEF Next, LoopStep, RequestStep, FaultStep

LEMMA HolderStep == TypeOK /\ FrameInv /\ [Next]_vars => HolderInv'
<1> SUFFICES ASSUME TypeOK, FrameInv, [Next]_vars PROVE HolderInv'
  OBVIOUS
<1>0. HolderInv /\ HandInv
  BY DEF FrameInv
<1>1. ASSUME NEW a \in Agents, Claim(a) PROVE HolderInv'
  <2>0. loop[a].env \in Envelopes /\ loop[a].env \in Sound(a)
    BY <1>0, <1>1 DEF Claim, TypeOK, LoopType, FramePc, HandInv
  <2>1. PICK e \in Envelopes : e = loop[a].env /\ e \in Sound(a)
    BY <2>0
  <2>2. HasTaskId(e) => Sent(e.req)'
    BY <2>1, EnvelopeTypes, SentStays DEF Sound, HasTaskId
  <2>3. holder' = holder \/ (HasTaskId(e) /\ holder' = [holder EXCEPT ![e.req] = a])
    BY <1>1, <2>1 DEF Claim
  <2> QED
    BY <1>0, <2>2, <2>3, SentStays DEF HolderInv, TypeOK
<1>2. ASSUME NEW r \in Requests, Requeue(r) PROVE HolderInv'
  BY <1>0, <1>2, SentStays DEF Requeue, HolderInv, TypeOK
<1>3. CASE UNCHANGED holder
  BY <1>0, <1>3, SentStays DEF HolderInv
<1>4. ASSUME NEW a \in Agents, LoopStep(a), ~Claim(a) PROVE UNCHANGED holder
  BY <1>4 DEF LoopStep, Connect, Receive, ReceiveRaises, Ack, Sleep, Observe, WorkerAnswers,
     CustomAnswers, CustomIgnores, CustomAsks, claims
<1>5. ASSUME NEW r \in Requests, RequestStep(r) PROVE UNCHANGED holder
  BY <1>5 DEF RequestStep, MakeRequest, TimeOut, Return, claims
<1>6. ASSUME NEW a \in Agents,
             Disconnect(a) \/ ConnectionDrops(a) \/ ConnectRaises(a) \/ HandlerRaises(a)
      PROVE  UNCHANGED holder
  BY <1>6 DEF Disconnect, ConnectionDrops, ConnectRaises, HandlerRaises, claims
<1>7. UNCHANGED vars => UNCHANGED holder
  BY DEF vars, claims
<1> QED
  BY <1>1, <1>2, <1>3, <1>4, <1>5, <1>6, <1>7 DEF Next, FaultStep

-----------------------------------------------------------------------------
(* The futures, which only Receive resolves.                                   *)

FreshInv == \A r \in Requests : req[r] = "new" => fut[r] = "none"

\* What resolves a future is a frame for a request its reader waits for.
LEMMA Resolution ==
    ASSUME TypeOK, InnerInv, FrameInv, PendingIsAwaited, NEW a \in Agents, Receive(a),
           NEW r \in Requests, fut'[r] # fut[r]
    PROVE  /\ fut[r] = "pending" /\ fut'[r] = "resolved" /\ r \notin Inner
           /\ By[r] \notin To[r] => r \in replied
           /\ req[r] = "waiting"
<1> DEFINE e == Head(queue[a])
<1>1. e \in Sound(a) /\ e \in Envelopes
  <2>1. queue[a] \in Seq(Sound(a)) /\ queue[a] # <<>>
    BY DEF FrameInv, QueueInv, Receive
  <2>2. e \in Sound(a)
    BY <2>1
  <2> QED
    BY <2>2 DEF Sound
<1>2. r \in Matched(a, e) /\ Resolvable(r) /\ fut'[r] = "resolved"
  BY DEF Receive, TypeOK
<1> HIDE DEF e
<1>3. r \in pending[a] /\ e.kind \in {"request", "reply"} /\ e.req = r
  BY <1>2, RequestAssumption DEF Matched, Correlation, RequestAssumption
<1>4. By[r] = a /\ req[r] = "waiting"
  BY <1>1, <1>3 DEF PendingIsAwaited, Sound, Sent
<1>5. r \notin Inner
  BY <1>4 DEF InnerInv, Receive
<1> QED
  BY <1>1, <1>2, <1>3, <1>4, <1>5 DEF Sound, Resolvable

LEMMA RequestIsFresh ==
    ASSUME TypeOK, FreshInv, NEW r \in Requests, Request(r)
    PROVE  /\ fut[r] = "none" /\ fut'[r] = "pending" /\ req'[r] \in {"waiting", "raised"}
           /\ \A q \in Requests \ {r} : fut'[q] = fut[q] /\ req'[q] = req[q]
  BY DEF Request, FreshInv, TypeOK

\* How a step may change the call of a request and its future.
FutureStep(r) ==
    \/ UNCHANGED <<req[r], fut[r]>>
    \/ fut[r] = "none" /\ fut'[r] = "pending" /\ req'[r] \in {"waiting", "raised"}
    \/ /\ fut[r] = "pending" /\ fut'[r] = "resolved" /\ r \notin Inner /\ req'[r] = req[r]
       /\ By[r] \notin To[r] => r \in replied
    \/ fut[r] = "pending" /\ fut'[r] = "cancelled" /\ req'[r] = req[r]
    \/ /\ fut'[r] = fut[r] /\ req'[r] \in {"answered", "timeout"}
       /\ req'[r] = "answered" => fut[r] = "resolved"

LEMMA FutureSteps ==
    ASSUME TypeOK, InnerInv, FrameInv, PendingIsAwaited, FreshInv, [Next]_vars,
           NEW r \in Requests
    PROVE  FutureStep(r)
<1>1. ASSUME NEW q \in Requests, Request(q) PROVE FutureStep(r)
  BY <1>1, RequestIsFresh DEF FutureStep
<1>2. ASSUME NEW a \in Agents, Receive(a) PROVE FutureStep(r)
  <2>1. req' = req
    BY <1>2 DEF Receive
  <2> QED
    BY <1>2, <2>1, Resolution DEF FutureStep
<1>3. ASSUME NEW q \in Requests, TimeOut(q) PROVE FutureStep(r)
  BY <1>3 DEF TimeOut, FutureStep, TypeOK
<1>4. ASSUME NEW q \in Requests, Return(q) PROVE FutureStep(r)
  BY <1>4 DEF Return, FutureStep, TypeOK
<1>5. CASE UNCHANGED <<req, fut>>
  BY <1>5 DEF FutureStep
<1>6. UNCHANGED vars => UNCHANGED <<req, fut>>
  BY DEF vars, reqVars
<1>7. ASSUME NEW a \in Agents, LoopStep(a), ~Receive(a), ~CustomAsks(a)
      PROVE  UNCHANGED <<req, fut>>
  BY <1>7 DEF LoopStep, Connect, ReceiveRaises, Ack, Sleep, Observe, Claim, WorkerAnswers,
     CustomAnswers, CustomIgnores, reqVars
<1>8. ASSUME NEW a \in Agents, CustomAsks(a) PROVE \E q \in Requests : Request(q)
  BY <1>8, RequestAssumption DEF CustomAsks, RequestAssumption
<1>9. ASSUME NEW q \in Requests, MakeRequest(q) PROVE Request(q)
  BY <1>9 DEF MakeRequest
<1> QED
  BY <1>1, <1>2, <1>3, <1>4, <1>5, <1>6, <1>7, <1>8, <1>9, FaultFrame DEF Next, RequestStep

\* A loop that has heard disconnect is on its way out.
GoneInv ==
    \A a \in Agents : asked[a] = "heard" =>
        ~running[a] /\ ~link[a] /\ loop[a].pc \in {"recv", "ack", "sleep", "ended"}

LEMMA GoneStep == TypeOK /\ InnerInv /\ GoneInv /\ [Next]_vars => GoneInv'
<1> SUFFICES ASSUME TypeOK, InnerInv, GoneInv, [Next]_vars PROVE GoneInv'
  OBVIOUS
<1>0. By \in [Requests -> Agents]
  BY RequestAssumption DEF RequestAssumption
<1>1. ASSUME NEW a \in Agents, NEW pc \in LoopPc, NEW e \in Envelopes \cup {NoEnv}, LoopTo(a, pc, e)
      PROVE  loop'[a].pc = pc /\ \A b \in Agents \ {a} : loop'[b] = loop[b]
  BY <1>1, LoopStates DEF LoopTo, TypeOK, LoopType
<1>2. ASSUME NEW a \in Agents, LoopStep(a), asked[a] = "heard"
      PROVE  loop'[a].pc \in {"recv", "ack", "sleep", "ended"}
  <2>1. ~running[a] /\ ~link[a] /\ loop[a].pc \in {"recv", "ack", "sleep", "ended"}
    BY <1>2 DEF GoneInv
  <2>2. Receive(a) \/ ReceiveRaises(a) \/ Ack(a) \/ Sleep(a)
    BY <1>2, <2>1 DEF LoopStep, Connect, Observe, Claim, WorkerAnswers, CustomAnswers,
       CustomIgnores, CustomAsks
  <2>3. \E pc \in {"ack", "ended"}, e \in Envelopes \cup {NoEnv} : LoopTo(a, pc, e)
    BY <2>1, <2>2 DEF Receive, ReceiveRaises, Ack, Sleep, AfterSleep, ConnectionClosed, TypeOK
  <2> QED
    BY <1>1, <2>3 DEF LoopPc
<1>3. ASSUME NEW a \in Agents, LoopStep(a) PROVE GoneInv'
  <2>1. asked' = asked
    BY <1>3 DEF LoopStep, Connect, Receive, ReceiveRaises, Ack, Sleep, Observe, Claim,
       WorkerAnswers, CustomAnswers, CustomIgnores, CustomAsks, history
  <2>2. UNCHANGED <<running, link>> \/ Connect(a)
    BY <1>3 DEF LoopStep, Receive, ReceiveRaises, Ack, Sleep, Observe, Claim,
       WorkerAnswers, CustomAnswers, CustomIgnores, CustomAsks, netVars
  <2>3. Connect(a) => asked[a] # "heard"
    BY DEF Connect, GoneInv
  <2>4. Connect(a) => \A b \in Agents \ {a} : running'[b] = running[b] /\ link'[b] = link[b]
    BY DEF Connect, TypeOK, LoopType
  <2>5. \A b \in Agents \ {a} : loop'[b] = loop[b]
    BY <1>3, LoopFrame
  <2>6. SUFFICES ASSUME NEW b \in Agents, asked[b] = "heard"
                 PROVE  ~running'[b] /\ ~link'[b] /\ loop'[b].pc \in {"recv", "ack", "sleep", "ended"}
    BY <2>1 DEF GoneInv
  <2>7. ~running[b] /\ ~link[b] /\ loop[b].pc \in {"recv", "ack", "sleep", "ended"}
    BY <2>6 DEF GoneInv
  <2>8. CASE b = a
    BY <1>2, <1>3, <2>2, <2>3, <2>6, <2>7, <2>8
  <2>9. CASE b # a
    BY <2>2, <2>4, <2>5, <2>7, <2>9
  <2> QED
    BY <2>8, <2>9
<1>4. ASSUME NEW a \in Agents, Disconnect(a) PROVE GoneInv'
  BY <1>4 DEF Disconnect, GoneInv, TypeOK, LoopType
<1>5. ASSUME NEW r \in Requests, Return(r) PROVE GoneInv'
  <2>1. r \in Inner => loop[By[r]].pc = "asking"
    BY <1>5 DEF Return, InnerInv
  <2>2. \A a \in Agents : r \notin Inner \/ a # By[r] => loop'[a] = loop[a]
    BY <1>0, <1>5 DEF Return, LoopTo, TypeOK, LoopType
  <2>3. UNCHANGED <<asked, running, link>>
    BY <1>5 DEF Return, history, netVars
  <2> QED
    BY <2>1, <2>2, <2>3 DEF GoneInv
<1>6. ASSUME NEW a \in Agents, ConnectRaises(a) \/ HandlerRaises(a) PROVE GoneInv'
  <2>1. LoopTo(a, "ended", NoEnv) /\ UNCHANGED <<asked, running, link>>
    BY <1>6 DEF ConnectRaises, HandlerRaises, netVars
  <2>2. loop'[a].pc = "ended" /\ \A b \in Agents \ {a} : loop'[b] = loop[b]
    BY <1>1, <2>1 DEF LoopPc
  <2> QED
    BY <2>1, <2>2 DEF GoneInv
<1>7. ASSUME NEW a \in Agents, ConnectionDrops(a) PROVE GoneInv'
  BY <1>7 DEF ConnectionDrops, GoneInv, TypeOK
<1>8. CASE UNCHANGED <<asked, running, link, loop>>
  BY <1>8 DEF GoneInv
<1>9. ASSUME NEW r \in Requests, MakeRequest(r) \/ TimeOut(r) \/ Requeue(r)
      PROVE  UNCHANGED <<asked, running, link, loop>>
  BY <1>9 DEF MakeRequest, TimeOut, Requeue, history, netVars
<1>10. UNCHANGED vars => UNCHANGED <<asked, running, link, loop>>
  BY DEF vars, netVars, history
<1> QED
  BY <1>3, <1>4, <1>5, <1>6, <1>7, <1>8, <1>9, <1>10 DEF Next, RequestStep, FaultStep

-----------------------------------------------------------------------------
(* The inductive invariant.                                                    *)

IInv ==
    /\ TypeOK /\ InnerInv /\ PendingIsAwaited /\ FrameInv /\ FreshInv
    /\ AnsweredByReply /\ InnerIsUnanswered /\ GoneInv

LEMMA InitInv == Init => IInv
<1> SUFFICES ASSUME Init PROVE IInv
  OBVIOUS
<1>1. TypeOK
  BY InitType
<1>2. Inner \subseteq Requests /\ By \in [Requests -> Agents]
  BY RequestAssumption DEF RequestAssumption
<1>3. InnerInv /\ PendingIsAwaited /\ FreshInv /\ AnsweredByReply /\ InnerIsUnanswered
  BY <1>2 DEF Init, InnerInv, PendingIsAwaited, FreshInv, AnsweredByReply, InnerIsUnanswered
<1>4. FrameInv
  <2>1. QueueInv /\ HolderInv
    BY DEF Init, QueueInv, HolderInv
  <2>2. ASSUME NEW a \in Agents PROVE loop[a].pc \notin FramePc
    <3>1. PICK pc \in {"recv", "connect"} : loop[a] = LoopAt(pc, NoEnv)
      BY DEF Init
    <3> QED
      BY <3>1 DEF LoopAt, FramePc
  <2> QED
    BY <2>1, <2>2 DEF FrameInv, HandInv
<1>5. GoneInv
  BY DEF Init, GoneInv
<1> QED
  BY <1>1, <1>3, <1>4, <1>5 DEF IInv

LEMMA InvStep == IInv /\ [Next]_vars => IInv'
<1> SUFFICES ASSUME IInv, [Next]_vars PROVE IInv'
  OBVIOUS
<1>1. /\ TypeOK /\ InnerInv /\ PendingIsAwaited /\ FrameInv /\ FreshInv
      /\ AnsweredByReply /\ InnerIsUnanswered /\ GoneInv
  BY DEF IInv
<1>2. \A r \in Requests : FutureStep(r)
  BY <1>1, FutureSteps
<1>3. Inner \subseteq Requests
  BY RequestAssumption DEF RequestAssumption
<1>4. FreshInv'
  BY <1>1, <1>2 DEF FreshInv, FutureStep
<1>5. AnsweredByReply'
  BY <1>1, <1>2, SentStays DEF AnsweredByReply, FutureStep
<1>6. InnerIsUnanswered'
  BY <1>1, <1>2, <1>3 DEF InnerIsUnanswered, FutureStep
<1>7. FrameInv'
  BY <1>1, QueueStep, HandStep, HolderStep DEF FrameInv
<1> QED
  BY <1>1, <1>4, <1>5, <1>6, <1>7, TypeStep, InnerStep, PendingStep, GoneStep DEF IInv

LEMMA Invariance == Spec => []IInv
  BY InitInv, InvStep, PTL DEF Spec

\* Every variable stays in its type: a loop always has a frame when its handler
\* runs, and gets it back when its own request has ended.
THEOREM TypeCorrect == Spec => []TypeOK
<1>1. IInv => TypeOK
  BY DEF IInv
<1> QED
  BY <1>1, Invariance, PTL

\* No request that a message handler awaits is ever answered, whatever the agents,
\* the handlers and the faults are (base_agent.py: request awaited under _listen).
THEOREM InnerRequestsTimeOut == Spec => []InnerIsUnanswered
<1>1. IInv => InnerIsUnanswered
  BY DEF IInv
<1> QED
  BY <1>1, Invariance, PTL

\* What resolves a pending future is a reply some addressee has sent to that very
\* request (base_agent.py: the correlation check of _listen).
THEOREM AnswersAreReplies == Spec => []AnsweredByReply
<1>1. IInv => AnsweredByReply
  BY DEF IInv
<1> QED
  BY <1>1, Invariance, PTL

\* The table of pending replies holds what its agent waits for, plus the requests
\* whose send has raised (base_agent.py: the finally clause of request).
THEOREM TableAgrees == Spec => []PendingIsAwaited
<1>1. IInv => PendingIsAwaited
  BY DEF IInv
<1> QED
  BY <1>1, Invariance, PTL

\* An agent whose loop could notice disconnect is never connected again
\* (base_agent.py: disconnect, and the conditions of run and _listen).
THEOREM GoneIsGone == Spec => []GoneStaysGone
<1>1. IInv => GoneStaysGone
  BY DEF IInv, GoneInv, GoneStaysGone
<1> QED
  BY <1>1, Invariance, PTL

-----------------------------------------------------------------------------
(* The agents implement the remote call: one step of theirs is at most one    *)
(* step of one call.                                                          *)

CallsMove == [Calls!Next]_(Calls!vars)

LEMMA CallsRest ==
    ASSUME UNCHANGED <<req, fut, fired, replied>> PROVE CallsMove
  BY DEF CallsMove, Calls!vars

LEMMA RequestIsMake ==
    ASSUME NEW r \in Requests, Request(r), UNCHANGED <<fired, replied>> PROVE CallsMove
<1>1. req[r] = "new" /\ fut' = [fut EXCEPT ![r] = "pending"]
  BY DEF Request
<1>2. \E state \in {"waiting", "raised"} : req' = [req EXCEPT ![r] = state]
  BY DEF Request
<1>3. Calls!Make(r)
  BY <1>1, <1>2 DEF Calls!Make
<1> QED
  BY <1>3 DEF CallsMove, Calls!Next

\* A frame resolves one future, or none.
LEMMA ReceiveIsResolve ==
    ASSUME IInv, [Next]_vars, NEW a \in Agents, Receive(a) PROVE CallsMove
<1>0. /\ TypeOK /\ InnerInv /\ FrameInv /\ PendingIsAwaited /\ FreshInv
      /\ UNCHANGED <<req, fired, replied>> /\ DOMAIN fut' = Requests
  BY DEF IInv, Receive, history
<1>1. CASE \A r \in Requests : fut'[r] = fut[r]
  <2>1. fut' = fut
    BY <1>0, <1>1 DEF TypeOK, Receive
  <2> QED
    BY <1>0, <2>1, CallsRest
<1>2. ASSUME NEW r \in Requests, fut'[r] # fut[r] PROVE CallsMove
  <2>1. /\ fut[r] = "pending" /\ fut'[r] = "resolved" /\ r \notin Inner
        /\ By[r] \notin To[r] => r \in replied
        /\ req[r] = "waiting"
    BY <1>0, <1>2, Resolution
  <2>2. r \in Matched(a, Head(queue[a]))
    BY <1>2 DEF Receive
  <2>3. \A q \in Requests \ {r} : fut'[q] = fut[q]
    BY <2>2 DEF Receive, Matched
  <2>4. fut' = [fut EXCEPT ![r] = "resolved"]
    BY <1>0, <2>1, <2>3 DEF TypeOK, Receive
  <2>5. Calls!Resolve(r)
    BY <1>0, <2>1, <2>4 DEF Calls!Resolve
  <2> QED
    BY <2>5 DEF CallsMove, Calls!Next
<1> QED
  BY <1>1, <1>2

\* What an addressee answers has been asked.
LEMMA AnswerIsReply ==
    ASSUME IInv, NEW a \in Agents, WorkerAnswers(a) \/ CustomAnswers(a) PROVE CallsMove
<1>1. loop[a].env \in Sound(a)
  BY DEF IInv, FrameInv, HandInv, WorkerAnswers, CustomAnswers, FramePc
<1>2. PICK e \in Envelopes : e = loop[a].env /\ e \in Sound(a)
  BY <1>1 DEF Sound
<1>3. UNCHANGED <<req, fut, fired>>
  BY DEF WorkerAnswers, CustomAnswers, reqVars
<1>4. replied' = replied \/ (HasReplyTo(e) /\ replied' = replied \cup {e.req})
  BY <1>2 DEF WorkerAnswers, CustomAnswers
<1>5. ASSUME HasReplyTo(e), replied' = replied \cup {e.req} PROVE CallsMove
  <2>1. e.req \in Requests /\ Sent(e.req)
    BY <1>2, <1>5, EnvelopeTypes DEF Sound, HasReplyTo
  <2>2. Calls!Reply(e.req)
    BY <1>3, <1>5, <2>1 DEF Calls!Reply, Sent
  <2> QED
    BY <2>1, <2>2 DEF CallsMove, Calls!Next
<1> QED
  BY <1>3, <1>4, <1>5, CallsRest

LEMMA CallsStep == IInv /\ [Next]_vars => CallsMove
<1> SUFFICES ASSUME IInv, [Next]_vars PROVE CallsMove
  OBVIOUS
<1>0. TypeOK /\ Inner \subseteq Requests
  BY RequestAssumption DEF IInv, RequestAssumption
<1>1. ASSUME NEW r \in Requests, MakeRequest(r) PROVE CallsMove
  BY <1>1, RequestIsMake DEF MakeRequest, history
<1>2. ASSUME NEW a \in Agents, CustomAsks(a) PROVE CallsMove
  BY <1>0, <1>2, RequestIsMake DEF CustomAsks, history
<1>3. ASSUME NEW r \in Requests, TimeOut(r) PROVE CallsMove
  <2>1. Calls!Expire(r)
    BY <1>3 DEF TimeOut, Calls!Expire, history
  <2> QED
    BY <2>1 DEF CallsMove, Calls!Next
<1>4. ASSUME NEW r \in Requests, Return(r) PROVE CallsMove
  <2>1. Calls!Return(r)
    BY <1>4 DEF Return, Done, Calls!Return, history
  <2> QED
    BY <2>1 DEF CallsMove, Calls!Next
<1>5. ASSUME NEW a \in Agents, LoopStep(a), ~CustomAsks(a), ~Receive(a),
             ~WorkerAnswers(a), ~CustomAnswers(a)
      PROVE  CallsMove
  <2>1. UNCHANGED <<req, fut, fired, replied>>
    BY <1>5 DEF LoopStep, Connect, ReceiveRaises, Ack, Sleep, Observe, Claim, CustomIgnores,
       reqVars, history
  <2> QED
    BY <2>1, CallsRest
<1>6. CASE UNCHANGED vars
  BY <1>6, CallsRest DEF vars, reqVars, history
<1> QED
  BY <1>1, <1>2, <1>3, <1>4, <1>5, <1>6, ReceiveIsResolve, AnswerIsReply, FaultFrame, CallsRest
     DEF Next, RequestStep

\* Agents, handlers, sockets and faults together implement the remote call, so an
\* answer is a reply made to that call, in time, and is final (base_agent.py:
\* request, reply, and the future that _listen resolves).
THEOREM CallsAreImplemented == Spec => ImplementsCalls
<1>1. Init => Calls!Init
  BY DEF Init, Calls!Init
<1>2. IInv /\ [Next]_vars => [Calls!Next]_(Calls!vars)
  BY CallsStep DEF CallsMove
<1>3. Calls!Init /\ [][Calls!Next]_(Calls!vars) => ImplementsCalls
  BY DEF ImplementsCalls, Calls!Spec
<1> QED
  BY <1>1, <1>2, <1>3, Invariance, PTL DEF Spec
=============================================================================
