--------------------------- MODULE DeliveryProofs ---------------------------
(* Theorems about Delivery, for all values of its constants. *)
EXTENDS Delivery, FiniteSetTheorems, TLAPS

\* The counts that route and handle_ack take are natural numbers.
LEMMA CountsAreNat ==
    ASSUME DbType
    PROVE  /\ \A m \in Messages, a \in Agents : AckCount(m, a) \in Nat
           /\ \A m \in Messages : IsGroup(m) => Cardinality(CapableMembers(m)) \in Nat
<1> USE DeliveryAssumption
<1>1. \A S \in SUBSET Agents : Cardinality(S) \in Nat
  BY FS_Subset, FS_CardinalityType
<1>2. \A m \in Messages, a \in Agents : acks[m] \cup {a} \in SUBSET Agents
  BY DEF DbType
<1>3. \A m \in Messages : IsGroup(m) => CapableMembers(m) \in SUBSET Agents
  BY DEF DbType, IsGroup, CapableMembers
<1> QED
  BY <1>1, <1>2, <1>3 DEF AckCount

ListenerState == [pc : ListenerPc, msg : Messages \cup {None},
                  agent : Agents \cup {None}, todo : SUBSET Agents]

\* The next state of a listener that goes on with its loop.
LEMMA ContinueType ==
    ASSUME NEW m \in Messages, NEW todo \in SUBSET Agents
    PROVE  /\ Continue(m, todo) \in ListenerState
           /\ Continue(m, todo).pc \in {"idle", "loop"}
           /\ Continue(m, todo).pc = "loop" => Continue(m, todo).msg \in Messages
  BY DEF Continue, IdleListener, ListenerPc, ListenerState

\* It keeps its type if the new value of one listener is well formed.
LEMMA ListenerUpdate ==
    ASSUME ListenerType, NEW n \in Nodes, NEW l \in ListenerState,
           l.pc \in {"loop", "send", "failed"} => l.msg \in Messages,
           l.pc \in {"send", "failed"} => l.agent \in Agents,
           listener' = [listener EXCEPT ![n] = l]
    PROVE  ListenerType'
  BY DEF ListenerType, ListenerState

\* The same for a step that changes its pc only.
LEMMA ListenerPcUpdate ==
    ASSUME ListenerType, NEW n \in Nodes, NEW p \in ListenerPc,
           p \in {"loop", "send", "failed"} => listener[n].msg \in Messages,
           p \in {"send", "failed"} => listener[n].agent \in Agents,
           listener' = [listener EXCEPT ![n].pc = p]
    PROVE  ListenerType'
<1> DEFINE l == [listener[n] EXCEPT !.pc = p]
<1>1. listener[n] \in ListenerState
  BY DEF ListenerType, ListenerState
<1>2. l = [pc |-> p, msg |-> listener[n].msg, agent |-> listener[n].agent,
           todo |-> listener[n].todo]
  BY <1>1 DEF ListenerState
<1>3. l \in ListenerState /\ l.pc = p /\ l.msg = listener[n].msg /\ l.agent = listener[n].agent
  BY <1>1, <1>2 DEF ListenerState
<1>4. listener' = [listener EXCEPT ![n] = l]
  OBVIOUS
<1> HIDE DEF l
<1> QED
  BY <1>3, <1>4, ListenerUpdate

\* It keeps its type if the new value of one endpoint is well formed.
LEMMA HandlerUpdate ==
    ASSUME HandlerType, NEW s \in Socks, 
           NEW h \in [pc : HandlerPc, msg : Messages \cup {None}, n : Nat],
           h.pc \in {"counted", "persisted", "acking"} => h.msg \in Messages,
           handler' = [handler EXCEPT ![s] = h]
    PROVE  HandlerType'
  BY DEF HandlerType

LEMMA InitType == Init => TypeOK
<1> SUFFICES ASSUME Init PROVE TypeOK
  OBVIOUS
<1> USE DeliveryAssumption
<1>1. DbType
  BY DEF Init, DbType
<1>2. NodeType
  <2>1. \A n \in Nodes, a \in Agents :
          (IF \E s \in InitReady : NodeOf[s] = n /\ AgentOf[s] = a
           THEN CHOOSE s \in InitReady : NodeOf[s] = n /\ AgentOf[s] = a
           ELSE None) \in Socks \cup {None}
    OBVIOUS
  <2> QED
    BY <2>1 DEF Init, NodeType
<1>3. ListenerType
  BY DEF Init, ListenerType, IdleListener, ListenerPc
<1>4. HandlerType
  BY DEF Init, HandlerType, Ready, NewHandler, HandlerPc
<1>5. ClientType
  BY DEF Init, ClientType
<1> QED
  BY <1>1, <1>2, <1>3, <1>4, <1>5 DEF TypeOK

\* What a step leaves alone keeps its type.
LEMMA UnchangedTypes ==
    ASSUME TypeOK
    PROVE  /\ UNCHANGED dbVars => DbType'
           /\ UNCHANGED listener => ListenerType'
           /\ UNCHANGED <<conns, inbox, crashes>> => NodeType'
           /\ UNCHANGED handler => HandlerType'
           /\ UNCHANGED <<open, unacked, sentOn, got, sends>> => ClientType'
  BY DEF TypeOK, dbVars, DbType, ListenerType, NodeType, HandlerType, ClientType

LEMMA HandlerStepType == ASSUME TypeOK, NEW s \in Socks, HandlerStep(s) PROVE TypeOK'
<1> USE DeliveryAssumption DEF TypeOK
<1>1. CASE Accept(s)
  <2>1. HandlerType'
    BY <1>1, HandlerUpdate, SMTT(30) DEF Accept, HandlerPc, HandlerType
  <2>2. NodeType'
    BY <1>1 DEF Accept, NodeType
  <2>3. ClientType'
    BY <1>1 DEF Accept, ClientType
  <2> QED
    BY <1>1, <2>1, <2>2, <2>3, UnchangedTypes DEF Accept, TypeOK, dbVars, sockVars
<1>2. CASE Register(s)
  <2>1. HandlerType'
    BY <1>2, HandlerUpdate DEF Register, HandlerPc, HandlerType
  <2>2. DbType'
    BY <1>2 DEF Register, DbType
  <2> QED
    BY <1>2, <2>1, <2>2, UnchangedTypes DEF Register, TypeOK, dbVars, sockVars
<1>3. CASE EnterGroups(s)
  <2>1. HandlerType'
    BY <1>3, HandlerUpdate DEF EnterGroups, HandlerPc, HandlerType, Ready
  <2>2. DbType'
    BY <1>3 DEF EnterGroups, DbType
  <2> QED
    BY <1>3, <2>1, <2>2, UnchangedTypes DEF EnterGroups, TypeOK, dbVars, sockVars
<1>4. CASE HandlerExits(s)
  <2>1. HandlerType'
    BY <1>4, HandlerUpdate DEF HandlerExits, HandlerPc, HandlerType, Gone
  <2>2. NodeType'
    BY <1>4 DEF HandlerExits, Popped, NodeType
  <2> QED
    BY <1>4, <2>1, <2>2, UnchangedTypes DEF HandlerExits, TypeOK, dbVars, sockVars
<1>5. CASE PersistMessage(s)
  <2>1. HandlerType'
    BY <1>5, HandlerUpdate DEF PersistMessage, HandlerPc, HandlerType
  <2>2. DbType'
    BY <1>5 DEF PersistMessage, DbType, HandlerType
  <2> QED
    BY <1>5, <2>1, <2>2, UnchangedTypes DEF PersistMessage, TypeOK, dbVars, sockVars
<1>6. CASE Publish(s)
  <2>1. HandlerType'
    BY <1>6, HandlerUpdate DEF Publish, HandlerPc, HandlerType, Ready
  <2>2. NodeType'
    BY <1>6 DEF Publish, Enqueue, NodeType, HandlerType
  <2> QED
    BY <1>6, <2>1, <2>2, UnchangedTypes DEF Publish, TypeOK, dbVars, sockVars
<1>7. ASSUME NEW m \in Messages, CountAcks(s, m) PROVE TypeOK'
  <2>1. HandlerType'
    BY <1>7, CountsAreNat, HandlerUpdate DEF CountAcks, HandlerPc, HandlerType
  <2>2. ClientType'
    BY <1>7 DEF CountAcks, ClientType
  <2> QED
    BY <1>7, <2>1, <2>2, UnchangedTypes DEF CountAcks, TypeOK, dbVars, sockVars
<1>8. CASE CommitAck(s)
  <2>1. HandlerType'
    BY <1>8, HandlerUpdate DEF CommitAck, HandlerPc, HandlerType, Ready
  <2>2. DbType'
    BY <1>8 DEF CommitAck, DbType, HandlerType
  <2> QED
    BY <1>8, <2>1, <2>2, UnchangedTypes DEF CommitAck, TypeOK, dbVars, sockVars
<1> QED
  BY <1>1, <1>2, <1>3, <1>4, <1>5, <1>6, <1>7, <1>8 DEF HandlerStep

LEMMA ClientStepType ==
    ASSUME TypeOK, NEW s \in Socks, ClientStep(s) \/ SockFault(s) PROVE TypeOK'
<1> USE DeliveryAssumption DEF TypeOK
<1>1. CASE CheckDuplicate(s)
  <2>1. HandlerType'
    BY <1>1, HandlerUpdate DEF CheckDuplicate, HandlerPc, HandlerType
  <2> QED
    BY <1>1, <2>1, UnchangedTypes DEF CheckDuplicate, TypeOK, dbVars, sockVars
<1>2. CASE ClientDrops(s)
  <2>1. ClientType'
    BY <1>2 DEF ClientDrops, ClientType
  <2> QED
    BY <1>2, <2>1, UnchangedTypes DEF ClientDrops, TypeOK, dbVars, sockVars
<1>3. ASSUME NEW m \in Messages, CountRecipients(s, m) PROVE TypeOK'
  <2>1. HandlerType'
    BY <1>3, CountsAreNat, HandlerUpdate DEF CountRecipients, HandlerPc, HandlerType
  <2>2. ClientType'
    BY <1>3 DEF CountRecipients, ClientType
  <2> QED
    BY <1>3, <2>1, <2>2, UnchangedTypes DEF CountRecipients, TypeOK, dbVars, sockVars
<1>4. ASSUME NEW g \in Groups, JoinGroup(s, g) \/ LeaveGroup(s, g) PROVE TypeOK'
  <2>1. DbType'
    BY <1>4 DEF JoinGroup, LeaveGroup, DbType
  <2> QED
    BY <1>4, <2>1, UnchangedTypes DEF JoinGroup, LeaveGroup, dbVars, sockVars
<1>5. CASE HandlerRaises(s)
  <2>1. HandlerType'
    BY <1>5, HandlerUpdate DEF HandlerRaises, HandlerPc, HandlerType, Ready
  <2> QED
    BY <1>5, <2>1, UnchangedTypes DEF HandlerRaises, TypeOK, dbVars, sockVars
<1>6. CASE RegisterRaises(s)
  <2>1. HandlerType'
    BY <1>6, HandlerUpdate DEF RegisterRaises, HandlerPc, HandlerType, Gone
  <2>2. ClientType'
    BY <1>6 DEF RegisterRaises, ClientType
  <2> QED
    BY <1>6, <2>1, <2>2, UnchangedTypes DEF RegisterRaises, TypeOK, dbVars, sockVars
<1> QED
  BY <1>1, <1>2, <1>3, <1>4, <1>5, <1>6 DEF ClientStep, SockFault

LEMMA ListenerStepType == ASSUME TypeOK, NEW n \in Nodes, ListenerStep(n) PROVE TypeOK'
<1> USE DeliveryAssumption DEF TypeOK
<1>1. CASE ReceiveFromPubsub(n)
  <2> DEFINE m == Head(inbox[n])
  <2>1. m \in Messages /\ Tail(inbox[n]) \in Seq(Messages)
    BY <1>1 DEF ReceiveFromPubsub, NodeType
  <2>2. PICK todo \in SUBSET Agents : listener' = [listener EXCEPT ![n] = Continue(m, todo)]
    <3>1. CASE IsGroup(m)
      BY <1>1, <3>1 DEF ReceiveFromPubsub, CapableMembers, IsGroup, DbType
    <3>2. CASE ~IsGroup(m)
      <4>1. To[m] \in Agents
        BY <2>1, <3>2 DEF IsGroup
      <4>2. (IF IsLocal(n, To[m]) THEN {To[m]} ELSE {}) \in SUBSET Agents
        BY <4>1
      <4> QED
        BY <1>1, <3>2, <4>2 DEF ReceiveFromPubsub
    <3> QED
      BY <3>1, <3>2
  <2>3. ListenerType'
    BY <2>1, <2>2, ContinueType, ListenerUpdate
  <2>4. NodeType'
    BY <1>1, <2>1 DEF ReceiveFromPubsub, NodeType
  <2> QED
    BY <1>1, <2>3, <2>4, UnchangedTypes DEF ReceiveFromPubsub, dbVars, sockVars
<1>2. CASE TryDeliver(n)
  <2> DEFINE m == listener[n].msg
  <2>1. m \in Messages
    BY <1>2 DEF TryDeliver, ListenerType
  <2>2. PICK a \in listener[n].todo :
          \/ /\ listener' = [listener EXCEPT ![n] = Continue(m, listener[n].todo \ {a})]
             /\ UNCHANGED attempts
          \/ /\ listener' = [listener EXCEPT ![n] = IdleListener]
             /\ UNCHANGED attempts
          \/ /\ listener' = [listener EXCEPT ![n] =
                   [pc |-> "send", msg |-> m, agent |-> a, todo |-> listener[n].todo \ {a}]]
             /\ attempts' = attempts \cup {<<m, a>>}
    BY <1>2 DEF TryDeliver
  <2>3. a \in Agents /\ listener[n].todo \ {a} \in SUBSET Agents
    BY DEF ListenerType
  <2>4. ListenerType'
    <3>1. IdleListener \in ListenerState /\ IdleListener.pc = "idle"
      BY DEF IdleListener, ListenerState, ListenerPc
    <3>2. [pc |-> "send", msg |-> m, agent |-> a, todo |-> listener[n].todo \ {a}]
             \in ListenerState
      BY <2>1, <2>3 DEF ListenerState, ListenerPc
    <3> HIDE DEF m
    <3> QED
      BY <2>1, <2>2, <2>3, <3>1, <3>2, ContinueType, ListenerUpdate
  <2>5. DbType'
    BY <1>2, <2>1, <2>2, <2>3 DEF TryDeliver, DbType
  <2> QED
    BY <1>2, <2>4, <2>5, UnchangedTypes DEF TryDeliver, sockVars
<1>3. CASE SendFindsNothing(n)
  <2>1. ListenerType'
    BY <1>3, ContinueType, ListenerUpdate DEF SendFindsNothing, ListenerType
  <2> QED
    BY <1>3, <2>1, UnchangedTypes DEF SendFindsNothing, dbVars, sockVars
<1>4. CASE SendFrame(n)
  <2> DEFINE m == listener[n].msg
             a == listener[n].agent
             s == conns[n][a]
  <2>1. m \in Messages /\ a \in Agents /\ s \in Socks
    <3>1. m \in Messages /\ a \in Agents
      BY <1>4 DEF SendFrame, ListenerType
    <3>2. s # None
      BY <1>4 DEF SendFrame, IsLocal
    <3> HIDE DEF m, a
    <3> QED
      BY <3>1, <3>2 DEF NodeType
  <2>2. ListenerType'
    <3>1. \/ listener' = [listener EXCEPT ![n] = Continue(m, listener[n].todo)]
          \/ listener' = [listener EXCEPT ![n].pc = "failed"]
      BY <1>4 DEF SendFrame
    <3>2. listener[n].todo \in SUBSET Agents
      BY DEF ListenerType
    <3>3. CASE listener' = [listener EXCEPT ![n] = Continue(m, listener[n].todo)]
      BY <2>1, <3>2, <3>3, ContinueType, ListenerUpdate
    <3>4. CASE listener' = [listener EXCEPT ![n].pc = "failed"]
      BY <2>1, <3>4, ListenerPcUpdate DEF ListenerPc
    <3> QED
      BY <3>1, <3>3, <3>4
  <2>3. ClientType'
    <3>1. /\ sends' = [sends EXCEPT ![m][a] = @ + 1]
          /\ \/ got' = [got EXCEPT ![s] = Append(@, m)]
                /\ unacked' = [unacked EXCEPT ![s] = @ \cup {m}]
             \/ UNCHANGED <<got, unacked>>
          /\ UNCHANGED <<open, sentOn>>
      BY <1>4 DEF SendFrame
    <3> HIDE DEF m, a, s
    <3>2. sends' \in [Messages -> [Agents -> Nat]]
      BY <2>1, <3>1 DEF ClientType
    <3>3. got' \in [Socks -> Seq(Messages)]
      <4>1. got \in [Socks -> Seq(Messages)] /\ Append(got[s], m) \in Seq(Messages)
        BY <2>1 DEF ClientType
      <4> QED
        BY <3>1, <4>1
    <3>4. unacked' \in [Socks -> SUBSET Messages]
      <4>1. unacked \in [Socks -> SUBSET Messages] /\ unacked[s] \cup {m} \in SUBSET Messages
        BY <2>1 DEF ClientType
      <4> QED
        BY <3>1, <4>1
    <3> QED
      BY <3>1, <3>2, <3>3, <3>4 DEF ClientType
  <2> QED
    BY <1>4, <2>2, <2>3, UnchangedTypes DEF SendFrame, dbVars
<1>5. CASE SendFailed(n)
  <2>1. ListenerType'
    BY <1>5, ContinueType, ListenerUpdate DEF SendFailed, ListenerType
  <2>2. NodeType'
    BY <1>5 DEF SendFailed, Popped, NodeType
  <2> QED
    BY <1>5, <2>1, <2>2, UnchangedTypes DEF SendFailed, dbVars, sockVars
<1> QED
  BY <1>1, <1>2, <1>3, <1>4, <1>5 DEF ListenerStep

LEMMA NodeFaultType == ASSUME TypeOK, NEW n \in Nodes, NodeFault(n) PROVE TypeOK'
<1> USE DeliveryAssumption DEF TypeOK
<1>1. CASE ListenerRaises(n)
  <2>1. ListenerType'
    BY <1>1 DEF ListenerRaises, ListenerType, IdleListener, ListenerPc
  <2> QED
    BY <1>1, <2>1, UnchangedTypes DEF ListenerRaises, dbVars, sockVars
<1>2. CASE ListenerDies(n)
  <2>1. ListenerType'
    BY <1>2, ListenerPcUpdate DEF ListenerDies, ListenerPc
  <2>2. NodeType'
    BY <1>2 DEF ListenerDies, NodeType
  <2> QED
    BY <1>2, <2>1, <2>2, UnchangedTypes DEF ListenerDies, dbVars, sockVars
<1>3. CASE NodeCrashes(n)
  <2>1. ListenerType'
    BY <1>3 DEF NodeCrashes, ListenerType, IdleListener, ListenerPc
  <2>2. NodeType'
    BY <1>3 DEF NodeCrashes, NodeType
  <2>3. HandlerType'
    BY <1>3 DEF NodeCrashes, HandlerType, Gone, HandlerPc
  <2>4. ClientType'
    BY <1>3 DEF NodeCrashes, ClientType
  <2> QED
    BY <1>3, <2>1, <2>2, <2>3, <2>4, UnchangedTypes DEF NodeCrashes, dbVars
<1>4. CASE NodeRestarts(n)
  <2>1. ListenerType'
    BY <1>4, ListenerPcUpdate DEF NodeRestarts, ListenerPc
  <2> QED
    BY <1>4, <2>1, UnchangedTypes DEF NodeRestarts, dbVars, sockVars
<1> QED
  BY <1>1, <1>2, <1>3, <1>4 DEF NodeFault

LEMMA TypeStep == TypeOK /\ [Next]_vars => TypeOK'
<1> SUFFICES ASSUME TypeOK, [Next]_vars PROVE TypeOK'
  OBVIOUS
<1>1. CASE UNCHANGED vars
  BY <1>1, UnchangedTypes DEF TypeOK, vars, dbVars, sockVars
<1>2. CASE Next
  BY <1>2, HandlerStepType, ClientStepType, ListenerStepType, NodeFaultType DEF Next
<1> QED
  BY <1>1, <1>2

\* Every variable has its type in every reachable state, and a listener or an
\* endpoint in the middle of its work has a message to work on.
THEOREM TypeCorrect == Spec => []TypeOK
  BY InitType, TypeStep, PTL DEF Spec
-----------------------------------------------------------------------------
(* What most steps leave alone. *)

\* The steps of an endpoint, its client and its faults touch no listener and send nothing.
LEMMA SockStepFrame ==
    ASSUME NEW s \in Socks, HandlerStep(s) \/ ClientStep(s) \/ SockFault(s)
    PROVE  UNCHANGED <<listener, attempts, sends>>
<1>1. HandlerStep(s) => UNCHANGED <<listener, attempts, sends>>
  BY DEF HandlerStep, Accept, Register, EnterGroups, HandlerExits, PersistMessage, Publish,
         CountAcks, CommitAck, dbVars, sockVars
<1>2. ClientStep(s) => UNCHANGED <<listener, attempts, sends>>
  BY DEF ClientStep, CheckDuplicate, ClientDrops, CountRecipients, JoinGroup, LeaveGroup,
         dbVars, sockVars
<1>3. SockFault(s) => UNCHANGED <<listener, attempts, sends>>
  BY DEF SockFault, HandlerRaises, RegisterRaises, dbVars, sockVars
<1> QED
  BY <1>1, <1>2, <1>3

LEMMA ContinueNotSend ==
    ASSUME NEW m, NEW todo PROVE Continue(m, todo).pc # "send"
  BY DEF Continue, IdleListener

\* Nor do the steps of a node that insert no row and send nothing: they leave "send" or
\* never were there.
LEMMA NodeStepFrame ==
    ASSUME TypeOK, NEW n \in Nodes,
           \/ ReceiveFromPubsub(n) \/ SendFindsNothing(n) \/ SendFailed(n) \/ NodeFault(n)
    PROVE  /\ UNCHANGED <<attempts, sends>>
           /\ \A k \in Nodes : listener'[k] = listener[k] \/ listener'[k].pc # "send"
<1> USE DEF TypeOK, ListenerType, dbVars, sockVars
<1>1. CASE ReceiveFromPubsub(n)
  BY <1>1, ContinueNotSend DEF ReceiveFromPubsub
<1>2. CASE SendFindsNothing(n) \/ SendFailed(n)
  BY <1>2, ContinueNotSend DEF SendFindsNothing, SendFailed
<1>3. CASE NodeFault(n)
  BY <1>3 DEF NodeFault, ListenerRaises, ListenerDies, NodeCrashes, NodeRestarts, IdleListener
<1> QED
  BY <1>1, <1>2, <1>3

-----------------------------------------------------------------------------
(* Acknowledgements. *)

\* A frame is acknowledged by the agent whose connection received it.
TrailInv ==
    /\ \A m \in Messages : \A a \in acks[m] : sends[m][a] > 0
    /\ \A m \in Messages, a \in Agents : sends[m][a] > 0 => <<m, a>> \in attempts
    /\ \A m \in Messages, a \in Agents :
          <<m, a>> \in attempts => status[m] # "none" /\ a \in agents
    /\ \A s \in Socks : \A m \in unacked[s] : sends[m][AgentOf[s]] > 0
    /\ \A s \in Socks : handler[s].pc = "acking" => sends[handler[s].msg][AgentOf[s]] > 0
    /\ \A n \in Nodes : listener[n].pc = "send" =>
          <<listener[n].msg, listener[n].agent>> \in attempts
    /\ \A n \in Nodes, a \in Agents : conns[n][a] # None => AgentOf[conns[n][a]] = a

LEMMA TrailHandlerStep ==
    ASSUME TypeOK, TrailInv, NEW s \in Socks, HandlerStep(s) \/ ClientStep(s) \/ SockFault(s)
    PROVE  TrailInv'
<1> USE DeliveryAssumption DEF TypeOK
<1>1. CASE Accept(s)
  <2>1. \A n \in Nodes, a \in Agents : conns'[n][a] # None => AgentOf[conns'[n][a]] = a
    BY <1>1 DEF Accept, TrailInv, NodeType
  <2>2. \A r \in Socks : handler'[r].pc = "acking" => handler'[r] = handler[r]
    BY <1>1 DEF Accept, HandlerType
  <2> QED
    BY <1>1, <2>1, <2>2 DEF Accept, TrailInv, dbVars
<1>2. CASE CheckDuplicate(s) \/ HandlerRaises(s) \/ RegisterRaises(s) \/ Publish(s)
  <2>1. \A r \in Socks : handler'[r].pc = "acking" => handler'[r] = handler[r]
    BY <1>2 DEF CheckDuplicate, HandlerRaises, RegisterRaises, Publish, Ready, Gone, HandlerType
  <2> QED
    BY <1>2, <2>1 DEF CheckDuplicate, HandlerRaises, RegisterRaises, Publish, TrailInv, dbVars
<1>3. CASE Register(s) \/ EnterGroups(s)
  <2>1. \A r \in Socks : handler'[r].pc = "acking" => handler'[r] = handler[r]
    BY <1>3 DEF Register, EnterGroups, Ready, HandlerType
  <2>2. agents \subseteq agents'
    BY <1>3 DEF Register, EnterGroups
  <2> QED
    BY <1>3, <2>1, <2>2 DEF Register, EnterGroups, TrailInv
<1>4. CASE HandlerExits(s)
  <2>1. \A r \in Socks : handler'[r].pc = "acking" => handler'[r] = handler[r]
    BY <1>4 DEF HandlerExits, Gone, HandlerType
  <2>2. \A n \in Nodes, a \in Agents : conns'[n][a] # None => AgentOf[conns'[n][a]] = a
    BY <1>4 DEF HandlerExits, Popped, TrailInv, NodeType
  <2> QED
    BY <1>4, <2>1, <2>2 DEF HandlerExits, TrailInv, dbVars
<1>5. CASE PersistMessage(s)
  <2>1. \A r \in Socks : handler'[r].pc = "acking" => handler'[r] = handler[r]
    BY <1>5 DEF PersistMessage, HandlerType
  <2>2. \A m \in Messages : status[m] # "none" => status'[m] # "none"
    BY <1>5 DEF PersistMessage, HandlerType, DbType
  <2> QED
    BY <1>5, <2>1, <2>2 DEF PersistMessage, TrailInv
<1>6. ASSUME NEW m \in Messages, CountAcks(s, m) PROVE TrailInv'
  <2>1. \A r \in Socks : handler'[r].pc = "acking" =>
           handler'[r] = handler[r] \/ (r = s /\ handler'[r].msg = m)
    BY <1>6 DEF CountAcks, HandlerType
  <2>2. sends[m][AgentOf[s]] > 0
    BY <1>6 DEF CountAcks, TrailInv
  <2>3. \A r \in Socks : unacked'[r] \subseteq unacked[r]
    BY <1>6 DEF CountAcks, ClientType
  <2> QED
    BY <1>6, <2>1, <2>2, <2>3 DEF CountAcks, TrailInv, dbVars
<1>7. CASE CommitAck(s)
  <2> DEFINE m == handler[s].msg
  <2>1. m \in Messages /\ sends[m][AgentOf[s]] > 0
    BY <1>7 DEF CommitAck, TrailInv, HandlerType
  <2>2. \A r \in Socks : handler'[r].pc = "acking" => handler'[r] = handler[r]
    BY <1>7 DEF CommitAck, Ready, HandlerType
  <2>3. \A x \in Messages : status[x] # "none" => status'[x] # "none"
    BY <1>7, <2>1 DEF CommitAck, DbType
  <2>4. \A x \in Messages : \A a \in acks'[x] : a \in acks[x] \/ (x = m /\ a = AgentOf[s])
    BY <1>7, <2>1 DEF CommitAck, DbType
  <2>5. UNCHANGED <<sends, attempts, agents, unacked, listener, conns>>
    BY <1>7 DEF CommitAck
  <2> HIDE DEF m
  <2> QED
    BY <2>1, <2>2, <2>3, <2>4, <2>5 DEF TrailInv
<1>8. CASE ClientDrops(s) \/ \E g \in Groups : JoinGroup(s, g) \/ LeaveGroup(s, g)
  BY <1>8 DEF ClientDrops, JoinGroup, LeaveGroup, TrailInv, dbVars, sockVars
<1>9. ASSUME NEW m \in Messages, CountRecipients(s, m) PROVE TrailInv'
  <2>1. \A r \in Socks : handler'[r].pc = "acking" => handler'[r] = handler[r]
    BY <1>9 DEF CountRecipients, HandlerType
  <2> QED
    BY <1>9, <2>1 DEF CountRecipients, TrailInv, dbVars
<1> QED
  BY <1>1, <1>2, <1>3, <1>4, <1>5, <1>6, <1>7, <1>8, <1>9 DEF HandlerStep, ClientStep, SockFault

LEMMA TrailNodeStep ==
    ASSUME TypeOK, TrailInv, NEW n \in Nodes, ListenerStep(n) \/ NodeFault(n)
    PROVE  TrailInv'
<1> USE DeliveryAssumption DEF TypeOK
<1>1. ASSUME UNCHANGED <<attempts, sends, status, agents, acks>>,
             \A k \in Nodes : listener'[k] = listener[k] \/ listener'[k].pc # "send",
             \A k \in Nodes, a \in Agents : conns'[k][a] \in {conns[k][a], None},
             \A s \in Socks : unacked'[s] \subseteq unacked[s],
             \A s \in Socks : handler'[s].pc = "acking" => handler'[s] = handler[s]
      PROVE  TrailInv'
  <2>1. /\ \A m \in Messages : \A a \in acks'[m] : sends'[m][a] > 0
        /\ \A m \in Messages, a \in Agents : sends'[m][a] > 0 => <<m, a>> \in attempts'
        /\ \A m \in Messages, a \in Agents :
              <<m, a>> \in attempts' => status'[m] # "none" /\ a \in agents'
    BY <1>1 DEF TrailInv
  <2>2. /\ \A s \in Socks : \A m \in unacked'[s] : sends'[m][AgentOf[s]] > 0
        /\ \A s \in Socks : handler'[s].pc = "acking" => sends'[handler'[s].msg][AgentOf[s]] > 0
    BY <1>1 DEF TrailInv
  <2>3. \A k \in Nodes : listener'[k].pc = "send" =>
           <<listener'[k].msg, listener'[k].agent>> \in attempts'
    BY <1>1 DEF TrailInv
  <2>4. \A k \in Nodes, a \in Agents : conns'[k][a] # None => AgentOf[conns'[k][a]] = a
    BY <1>1 DEF TrailInv
  <2> QED
    BY <2>1, <2>2, <2>3, <2>4 DEF TrailInv
<1>2. CASE ReceiveFromPubsub(n) \/ SendFindsNothing(n)
  <2>1. UNCHANGED <<status, agents, acks, conns, unacked, handler>>
    BY <1>2 DEF ReceiveFromPubsub, SendFindsNothing, dbVars, sockVars
  <2> QED
    BY <1>1, <1>2, <2>1, NodeStepFrame
<1>3. CASE SendFailed(n) \/ NodeFault(n)
  <2>1. UNCHANGED <<status, agents, acks>>
    BY <1>3 DEF SendFailed, NodeFault, ListenerRaises, ListenerDies, NodeCrashes, NodeRestarts, dbVars
  <2>2. \A k \in Nodes, a \in Agents : conns'[k][a] \in {conns[k][a], None}
    <3>1. CASE SendFailed(n)
      BY <3>1 DEF SendFailed, Popped, NodeType
    <3>2. CASE NodeCrashes(n)
      BY <3>2 DEF NodeCrashes, NodeType
    <3>3. CASE UNCHANGED conns
      BY <3>3
    <3> QED
      BY <1>3, <3>1, <3>2, <3>3 DEF NodeFault, ListenerRaises, ListenerDies, NodeRestarts
  <2>3. /\ \A s \in Socks : unacked'[s] \subseteq unacked[s]
        /\ \A s \in Socks : handler'[s].pc = "acking" => handler'[s] = handler[s]
    <3>1. CASE NodeCrashes(n)
      <4>1. \A s \in Socks : unacked'[s] \subseteq unacked[s]
        BY <3>1 DEF NodeCrashes, ClientType
      <4>2. \A s \in Socks : handler'[s].pc = "acking" => handler'[s] = handler[s]
        BY <3>1 DEF NodeCrashes, Gone, HandlerType
      <4> QED
        BY <4>1, <4>2
    <3>2. CASE UNCHANGED <<unacked, handler>>
      BY <3>2
    <3> QED
      BY <1>3, <3>1, <3>2 DEF SendFailed, NodeFault, ListenerRaises, ListenerDies, NodeRestarts, sockVars
  <2> QED
    BY <1>1, <1>3, <2>1, <2>2, <2>3, NodeStepFrame
<1>4. CASE TryDeliver(n)
  <2> DEFINE m == listener[n].msg
  <2>1. UNCHANGED <<status, agents, acks, sends, unacked, handler, conns>>
    BY <1>4 DEF TryDeliver, sockVars
  <2>2. \/ /\ UNCHANGED attempts
           /\ \A k \in Nodes : listener'[k] = listener[k] \/ listener'[k].pc # "send"
        \/ \E a \in listener[n].todo :
              /\ References(m, a)
              /\ listener' = [listener EXCEPT ![n] =
                    [pc |-> "send", msg |-> m, agent |-> a, todo |-> listener[n].todo \ {a}]]
              /\ attempts' = attempts \cup {<<m, a>>}
    BY <1>4, ContinueNotSend DEF TryDeliver, ListenerType, IdleListener
  <2>3. CASE /\ UNCHANGED attempts
             /\ \A k \in Nodes : listener'[k] = listener[k] \/ listener'[k].pc # "send"
    BY <1>1, <2>1, <2>3
  <2>4. ASSUME NEW a \in listener[n].todo, References(m, a),
               listener' = [listener EXCEPT ![n] =
                  [pc |-> "send", msg |-> m, agent |-> a, todo |-> listener[n].todo \ {a}]],
               attempts' = attempts \cup {<<m, a>>}
        PROVE  TrailInv'
    <3>1. /\ listener'[n].msg = m /\ listener'[n].agent = a
          /\ \A k \in Nodes \ {n} : listener'[k] = listener[k]
      BY <2>4 DEF ListenerType
    <3>2. status[m] # "none" /\ a \in agents
      BY <2>4 DEF References
    <3> HIDE DEF m
    <3> QED
      BY <2>1, <2>4, <3>1, <3>2 DEF TrailInv
  <2> QED
    BY <2>2, <2>3, <2>4
<1>5. CASE SendFrame(n)
  <2> DEFINE m == listener[n].msg
             a == listener[n].agent
             s == conns[n][a]
  <2>1. m \in Messages /\ a \in Agents /\ s \in Socks /\ AgentOf[s] = a
    <3>1. m \in Messages /\ a \in Agents
      BY <1>5 DEF SendFrame, ListenerType
    <3>2. s # None
      BY <1>5 DEF SendFrame, IsLocal
    <3> HIDE DEF m, a
    <3> QED
      BY <3>1, <3>2 DEF NodeType, TrailInv
  <2>2. <<m, a>> \in attempts
    BY <1>5 DEF SendFrame, TrailInv
  <2>3. /\ sends' = [sends EXCEPT ![m][a] = @ + 1]
        /\ unacked' = [unacked EXCEPT ![s] = @ \cup {m}] \/ UNCHANGED unacked
        /\ UNCHANGED <<attempts, status, agents, acks, conns, handler>>
    BY <1>5 DEF SendFrame, dbVars
  <2>4. \A k \in Nodes : listener'[k] = listener[k] \/ listener'[k].pc # "send"
    <3>1. \/ listener' = [listener EXCEPT ![n] = Continue(m, listener[n].todo)]
          \/ listener' = [listener EXCEPT ![n].pc = "failed"]
      BY <1>5 DEF SendFrame
    <3>2. CASE listener' = [listener EXCEPT ![n] = Continue(m, listener[n].todo)]
      BY <3>2, ContinueNotSend DEF ListenerType
    <3>3. CASE listener' = [listener EXCEPT ![n].pc = "failed"]
      BY <3>3 DEF ListenerType
    <3> QED
      BY <3>1, <3>2, <3>3
  <2> HIDE DEF m, a, s
  <2>5. \A x \in Messages, y \in Agents :
           /\ sends[x][y] > 0 => sends'[x][y] > 0
           /\ sends'[x][y] > 0 => sends[x][y] > 0 \/ (x = m /\ y = a)
           /\ x = m /\ y = a => sends'[x][y] > 0
    BY <2>1, <2>3 DEF ClientType
  <2>6. \A r \in Socks : \A x \in unacked'[r] : x \in unacked[r] \/ (x = m /\ r = s)
    BY <2>1, <2>3 DEF ClientType
  <2>7. /\ \A x \in Messages : \A y \in acks'[x] : sends'[x][y] > 0
        /\ \A r \in Socks : handler'[r].pc = "acking" => sends'[handler'[r].msg][AgentOf[r]] > 0
    BY <2>3, <2>5 DEF TrailInv, DbType, HandlerType
  <2>8. \A r \in Socks : \A x \in unacked'[r] : sends'[x][AgentOf[r]] > 0
    <3> SUFFICES ASSUME NEW r \in Socks, NEW x \in unacked'[r]
                 PROVE  sends'[x][AgentOf[r]] > 0
      OBVIOUS
    <3>1. AgentOf[r] \in Agents
      OBVIOUS
    <3>2. CASE x \in unacked[r]
      <4>1. x \in Messages /\ sends[x][AgentOf[r]] > 0
        BY <3>2 DEF TrailInv, ClientType
      <4> QED
        BY <2>5, <3>1, <4>1
    <3>3. CASE x = m /\ r = s
      BY <2>1, <2>5, <3>3
    <3> QED
      BY <2>6, <3>2, <3>3
  <2> QED
    BY <2>1, <2>2, <2>3, <2>4, <2>5, <2>7, <2>8 DEF TrailInv
<1> QED
  BY <1>2, <1>3, <1>4, <1>5 DEF ListenerStep

\* Behind every acknowledgement are a send, a delivery attempt and rows for the
\* message and the agent, through crashes, broken connections and failed
\* transactions (deliver_from_pubsub, handle_ack).
THEOREM AckLeadsBack == Spec => []DeliveryTrail
<1>1. Init => TrailInv
  BY DeliveryAssumption DEF Init, TrailInv, IdleListener, Ready, NewHandler
<1>2. TypeOK /\ TrailInv /\ [Next]_vars => TrailInv'
  <2> SUFFICES ASSUME TypeOK, TrailInv, [Next]_vars PROVE TrailInv'
    OBVIOUS
  <2>1. CASE UNCHANGED vars
    BY <2>1 DEF vars, dbVars, sockVars, TrailInv
  <2> QED
    BY <2>1, TrailHandlerStep, TrailNodeStep DEF Next
<1>3. TrailInv => DeliveryTrail
  BY DEF TrailInv, DeliveryTrail
<1> QED
  BY <1>1, <1>2, <1>3, TypeCorrect, PTL DEF Spec
-----------------------------------------------------------------------------
(* "Delivered" is never premature. *)

\* A transaction of handle_ack has counted no more than the acks there will be
\* when it commits, whatever other transactions commit in between.
AckInv ==
    /\ \A s \in Socks : handler[s].pc = "acking" =>
          /\ status[handler[s].msg] # "none"
          /\ handler[s].n <= AckCount(handler[s].msg, AgentOf[s])
    /\ \A m \in Messages : status[m] = "delivered" => Cardinality(acks[m]) >= recipients[m]

LEMMA CountMonotone ==
    ASSUME NEW S \in SUBSET Agents, NEW T \in SUBSET S
    PROVE  Cardinality(T) \in Nat /\ Cardinality(S) \in Nat /\ Cardinality(T) <= Cardinality(S)
  BY DeliveryAssumption, FS_Subset, FS_CardinalityType

\* It holds after a step that leaves the acks and the messages alone, and in
\* which no endpoint begins to acknowledge.
LEMMA AckFrame ==
    ASSUME TypeOK, AckInv, UNCHANGED <<status, recipients, acks>>,
           \A s \in Socks : handler'[s].pc = "acking" => handler'[s] = handler[s]
    PROVE  AckInv'
  BY DEF AckInv, AckCount

LEMMA AckStep == TypeOK /\ AckInv /\ [Next]_vars => AckInv'
<1> SUFFICES ASSUME TypeOK, AckInv, [Next]_vars PROVE AckInv'
  OBVIOUS
<1> USE DeliveryAssumption
<1>1. CASE UNCHANGED vars
  BY <1>1, AckFrame DEF vars, dbVars, sockVars
<1>2. ASSUME NEW s \in Socks,
             \/ Accept(s) \/ Register(s) \/ EnterGroups(s) \/ HandlerExits(s) \/ Publish(s)
             \/ ClientStep(s) \/ SockFault(s)
      PROVE  AckInv'
  <2>1. UNCHANGED <<status, recipients, acks>>
    BY <1>2 DEF Accept, Register, EnterGroups, HandlerExits, Publish, ClientStep, CheckDuplicate,
                ClientDrops, CountRecipients, JoinGroup, LeaveGroup, SockFault, HandlerRaises,
                RegisterRaises, dbVars
  <2>2. \A r \in Socks : handler'[r].pc = "acking" => handler'[r] = handler[r]
    <3>1. CASE Accept(s) \/ Register(s) \/ EnterGroups(s) \/ HandlerExits(s) \/ Publish(s)
      BY <3>1 DEF Accept, Register, EnterGroups, HandlerExits, Publish, Ready, Gone,
                  TypeOK, HandlerType
    <3>2. CASE ClientStep(s)
      BY <3>2 DEF ClientStep, CheckDuplicate, ClientDrops, CountRecipients, JoinGroup,
                  LeaveGroup, sockVars, TypeOK, HandlerType
    <3>3. CASE SockFault(s)
      BY <3>3 DEF SockFault, HandlerRaises, RegisterRaises, Ready, Gone, TypeOK, HandlerType
    <3> QED
      BY <1>2, <3>1, <3>2, <3>3
  <2> QED
    BY <2>1, <2>2, AckFrame
<1>3. ASSUME NEW s \in Socks, PersistMessage(s) PROVE AckInv'
  <2>1. \A r \in Socks : handler'[r].pc = "acking" => handler'[r] = handler[r]
    BY <1>3 DEF PersistMessage, TypeOK, HandlerType
  <2>2. \A m \in Messages : status[m] # "none" =>
           status'[m] = status[m] /\ recipients'[m] = recipients[m]
    BY <1>3 DEF PersistMessage, TypeOK, DbType, HandlerType
  <2>3. \A m \in Messages : status'[m] = "delivered" => status[m] = "delivered"
    BY <1>3 DEF PersistMessage, TypeOK, DbType, HandlerType
  <2>4. UNCHANGED acks
    BY <1>3 DEF PersistMessage
  <2> QED
    <3>1. ASSUME NEW r \in Socks, handler'[r].pc = "acking"
          PROVE  /\ status'[handler'[r].msg] # "none"
                 /\ handler'[r].n <= Cardinality(acks'[handler'[r].msg] \cup {AgentOf[r]})
      <4>1. handler'[r] = handler[r] /\ handler[r].msg \in Messages
        BY <2>1, <3>1 DEF TypeOK, HandlerType
      <4>2. status[handler[r].msg] # "none" /\ handler[r].n <= AckCount(handler[r].msg, AgentOf[r])
        BY <3>1, <4>1 DEF AckInv
      <4> QED
        BY <2>2, <2>4, <4>1, <4>2 DEF AckCount
    <3>2. \A m \in Messages : status'[m] = "delivered" => Cardinality(acks'[m]) >= recipients'[m]
      BY <2>2, <2>3, <2>4 DEF AckInv
    <3> QED
      BY <3>1, <3>2 DEF AckInv, AckCount
<1>4. ASSUME NEW s \in Socks, NEW m \in Messages, CountAcks(s, m) PROVE AckInv'
  <2>1. /\ status[m] # "none"
        /\ handler' = [handler EXCEPT ![s] = [pc |-> "acking", msg |-> m, n |-> AckCount(m, AgentOf[s])]]
        /\ UNCHANGED <<status, recipients, acks>>
    BY <1>4 DEF CountAcks, dbVars
  <2>2. AckCount(m, AgentOf[s]) \in Nat
    BY CountsAreNat DEF TypeOK
  <2>3. \A r \in Socks : handler'[r] = handler[r] \/
           (r = s /\ handler'[r].msg = m /\ handler'[r].n = AckCount(m, AgentOf[s]))
    BY <2>1 DEF TypeOK, HandlerType
  <2>4. \A x, a : AckCount(x, a)' = AckCount(x, a)
    BY <2>1 DEF AckCount
  <2> QED
    BY <2>1, <2>2, <2>3, <2>4 DEF AckInv
<1>5. ASSUME NEW s \in Socks, CommitAck(s) PROVE AckInv'
  <2> DEFINE m == handler[s].msg
             b == AgentOf[s]
  <2>1. m \in Messages /\ b \in Agents
    BY <1>5 DEF CommitAck, TypeOK, HandlerType
  <2>2. \A r \in Socks : handler'[r].pc = "acking" => handler'[r] = handler[r]
    BY <1>5 DEF CommitAck, Ready, TypeOK, HandlerType
  <2>3. /\ acks' = [acks EXCEPT ![m] = @ \cup {b}]
        /\ status' = [status EXCEPT ![m] = IF handler[s].n >= recipients[m] THEN "delivered" ELSE @]
        /\ UNCHANGED recipients
    BY <1>5 DEF CommitAck
  <2>4. handler[s].n \in Nat /\ handler[s].n <= AckCount(m, b)
    BY <1>5 DEF CommitAck, AckInv, TypeOK, HandlerType
  <2> HIDE DEF m, b
  <2>5. \A x \in Messages : acks[x] \subseteq acks'[x] /\ acks'[x] \in SUBSET Agents
    BY <2>1, <2>3 DEF TypeOK, DbType
  <2>6. \A x \in Messages, a \in Agents :
           /\ AckCount(x, a) <= Cardinality(acks'[x] \cup {a})
           /\ AckCount(x, a) \in Nat /\ Cardinality(acks'[x] \cup {a}) \in Nat
    <3> SUFFICES ASSUME NEW x \in Messages, NEW a \in Agents
                 PROVE  /\ AckCount(x, a) <= Cardinality(acks'[x] \cup {a})
                        /\ AckCount(x, a) \in Nat /\ Cardinality(acks'[x] \cup {a}) \in Nat
      OBVIOUS
    <3>1. acks[x] \cup {a} \in SUBSET (acks'[x] \cup {a}) /\ acks'[x] \cup {a} \in SUBSET Agents
      BY <2>5
    <3> QED
      BY <3>1, CountMonotone DEF AckCount
  <2>7. ASSUME NEW r \in Socks, handler'[r].pc = "acking"
        PROVE  /\ status'[handler'[r].msg] # "none"
               /\ handler'[r].n <= Cardinality(acks'[handler'[r].msg] \cup {AgentOf[r]})
    <3>1. /\ handler'[r] = handler[r]
          /\ handler[r].msg \in Messages /\ handler[r].n \in Nat /\ AgentOf[r] \in Agents
          /\ status[handler[r].msg] # "none"
          /\ handler[r].n <= AckCount(handler[r].msg, AgentOf[r])
      BY <2>2, <2>7 DEF AckInv, TypeOK, HandlerType
    <3>2. status'[handler[r].msg] # "none"
      BY <2>1, <2>3, <3>1 DEF TypeOK, DbType
    <3>3. handler[r].n <= Cardinality(acks'[handler[r].msg] \cup {AgentOf[r]})
      BY <2>6, <3>1
    <3> QED
      BY <3>1, <3>2, <3>3
  <2>8. \A x \in Messages : status'[x] = "delivered" => Cardinality(acks'[x]) >= recipients'[x]
    <3> SUFFICES ASSUME NEW x \in Messages, status'[x] = "delivered"
                 PROVE  Cardinality(acks'[x]) >= recipients[x]
      BY <2>3
    <3>1. recipients[x] \in Nat
      BY DEF TypeOK, DbType
    <3>2. CASE status[x] = "delivered"
      BY <2>5, <3>1, <3>2, CountMonotone DEF AckInv
    <3>3. CASE status[x] # "delivered"
      <4>1. x = m /\ handler[s].n >= recipients[m]
        BY <2>1, <2>3, <3>3 DEF TypeOK, DbType
      <4>2. acks'[m] = acks[m] \cup {b}
        BY <2>1, <2>3 DEF TypeOK, DbType
      <4>3. Cardinality(acks'[m]) = AckCount(m, b) /\ AckCount(m, b) \in Nat
        BY <2>1, <2>6, <4>2 DEF AckCount
      <4> QED
        BY <2>4, <3>1, <4>1, <4>3
    <3> QED
      BY <3>2, <3>3
  <2> QED
    BY <2>7, <2>8 DEF AckInv, AckCount
<1>6. ASSUME NEW n \in Nodes, ListenerStep(n) \/ NodeFault(n) PROVE AckInv'
  <2>1. UNCHANGED <<status, recipients, acks>>
    BY <1>6 DEF ListenerStep, ReceiveFromPubsub, TryDeliver, SendFindsNothing, SendFrame, SendFailed,
                NodeFault, ListenerRaises, ListenerDies, NodeCrashes, NodeRestarts, dbVars
  <2>2. \A r \in Socks : handler'[r] = handler[r] \/ handler'[r].pc = "gone"
    <3>1. CASE NodeCrashes(n)
      BY <3>1 DEF NodeCrashes, Gone
    <3>2. CASE UNCHANGED handler
      BY <3>2
    <3> QED
      BY <1>6, <3>1, <3>2 DEF ListenerStep, ReceiveFromPubsub, TryDeliver, SendFindsNothing, SendFrame,
           SendFailed, NodeFault, ListenerRaises, ListenerDies, NodeRestarts, sockVars
  <2> QED
    BY <2>1, <2>2, AckFrame
<1> QED
  BY <1>1, <1>2, <1>3, <1>4, <1>5, <1>6 DEF Next, HandlerStep

\* A message is marked delivered only after as many agents have acknowledged it
\* as route counted, although handle_ack decides on a count that other
\* transactions make stale (handle_ack under READ COMMITTED).
THEOREM DeliveredIsAcknowledged == Spec => []DeliveredNeedsAcks
<1>1. Init => AckInv
  BY DEF Init, AckInv, Ready, NewHandler
<1>2. AckInv => DeliveredNeedsAcks
  BY DEF AckInv, DeliveredNeedsAcks
<1> QED
  BY <1>1, <1>2, AckStep, TypeCorrect, PTL DEF Spec
=============================================================================
