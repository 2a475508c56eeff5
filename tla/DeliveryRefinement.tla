------------------------- MODULE DeliveryRefinement -------------------------
(* Delivery implements MessageBus, for all values of its constants for which the *)
(* agents connect to one node each; and where nothing fails, wherever they        *)
(* connect, it loses no direct message that the abstract bus has stored.          *)
EXTENDS DeliveryOrder

\* What is in hand, and what has been counted, is for addressees: the capable
\* members of a group when they were looked up, and the one agent of a direct
\* message.
AddressInv ==
    /\ \A n \in Nodes : listener[n].pc \in {"loop", "send", "failed"} =>
          listener[n].todo \subseteq Addressees[listener[n].msg]
    /\ \A n \in Nodes : listener[n].pc = "send" =>
          listener[n].agent \in Addressees[listener[n].msg]
    /\ \A s \in Socks : handler[s].pc = "counted" =>
          \E R \in SUBSET Addressees[handler[s].msg] : handler[s].n = Cardinality(R)

LEMMA ContinueAddresses ==
    ASSUME NEW m, NEW todo, todo \subseteq Addressees[m]
    PROVE  /\ Continue(m, todo).pc \in {"idle", "loop"}
           /\ Continue(m, todo).pc = "loop" =>
                Continue(m, todo).todo \subseteq Addressees[Continue(m, todo).msg]
  BY DEF Continue, IdleListener

LEMMA MembersAreAddressees ==
    ASSUME NEW m \in Messages
    PROVE  /\ IsGroup(m) => CapableMembers(m) \subseteq Addressees[m]
           /\ ~IsGroup(m) => Addressees[m] = {To[m]}
  BY DEF CapableMembers, Addressees

\* The listeners may change as long as a new value has its agents addressed.
LEMMA ListenerAddresses ==
    ASSUME AddressInv, UNCHANGED handler,
           \A n \in Nodes :
              \/ listener'[n] = listener[n]
              \/ listener'[n].pc \notin {"loop", "send", "failed"}
              \/ /\ listener'[n].todo \subseteq Addressees[listener'[n].msg]
                 /\ listener'[n].pc = "send" => listener'[n].agent \in Addressees[listener'[n].msg]
    PROVE  AddressInv'
  BY DEF AddressInv

LEMMA HandlerAddresses ==
    ASSUME AddressInv, UNCHANGED listener,
           \A s \in Socks : handler'[s] = handler[s] \/ handler'[s].pc # "counted"
    PROVE  AddressInv'
  BY DEF AddressInv

LEMMA CountRecipientsAddresses ==
    ASSUME TypeOK, AddressInv, NEW s \in Socks, NEW m \in Messages, CountRecipients(s, m)
    PROVE  AddressInv'
<1>1. PICK n : /\ n = IF IsGroup(m) THEN Cardinality(CapableMembers(m)) ELSE 1
               /\ handler' = [handler EXCEPT ![s] = [pc |-> "counted", msg |-> m, n |-> n]]
  BY DEF CountRecipients
<1>2. \E R \in SUBSET Addressees[m] : n = Cardinality(R)
  <2>1. CASE IsGroup(m)
    BY <1>1, <2>1, MembersAreAddressees
  <2>2. CASE ~IsGroup(m)
    <3>1. Addressees[m] = {To[m]} /\ Cardinality({To[m]}) = 1
      BY <2>2, MembersAreAddressees, FS_Singleton
    <3> QED
      BY <1>1, <2>2, <3>1
  <2> QED
    BY <2>1, <2>2
<1>3. \A r \in Socks : r # s => handler'[r] = handler[r]
  BY <1>1 DEF TypeOK, HandlerType
<1>4. handler'[s].msg = m /\ handler'[s].n = n
  BY <1>1 DEF TypeOK, HandlerType
<1>5. listener' = listener
  BY DEF CountRecipients
<1> QED
  BY <1>2, <1>3, <1>4, <1>5 DEF AddressInv

LEMMA SockAddresses ==
    ASSUME TypeOK, AddressInv, NEW s \in Socks, HandlerStep(s) \/ ClientStep(s) \/ SockFault(s)
    PROVE  AddressInv'
<1>1. UNCHANGED listener
  BY SockStepFrame
<1>2. ASSUME NEW m \in Messages, CountRecipients(s, m) PROVE AddressInv'
  BY <1>2, CountRecipientsAddresses
<1>3. ASSUME ~\E m \in Messages : CountRecipients(s, m)
      PROVE  \A r \in Socks : handler'[r] = handler[r] \/ handler'[r].pc # "counted"
  <2>1. CASE HandlerStep(s)
    BY <2>1 DEF HandlerStep, Accept, Register, EnterGroups, HandlerExits, PersistMessage, Publish,
       CountAcks, CommitAck, Ready, Gone, TypeOK, HandlerType
  <2>2. CASE ClientStep(s)
    BY <1>3, <2>2 DEF ClientStep, CheckDuplicate, ClientDrops, JoinGroup, LeaveGroup, sockVars,
       TypeOK, HandlerType
  <2>3. CASE SockFault(s)
    BY <2>3 DEF SockFault, HandlerRaises, RegisterRaises, Ready, Gone, TypeOK, HandlerType
  <2> QED
    BY <2>1, <2>2, <2>3
<1> QED
  BY <1>1, <1>2, <1>3, HandlerAddresses

LEMMA NodeAddresses ==
    ASSUME TypeOK, AddressInv, NEW n \in Nodes, ListenerStep(n) \/ NodeFault(n)
    PROVE  AddressInv'
<1> USE DEF TypeOK, ListenerType
<1>1. CASE ReceiveFromPubsub(n)
  <2> DEFINE m == Head(inbox[n])
  <2>1. m \in Messages /\ UNCHANGED handler
    BY <1>1 DEF ReceiveFromPubsub, NodeType, sockVars
  <2>2. PICK todo \in SUBSET Addressees[m] : listener' = [listener EXCEPT ![n] = Continue(m, todo)]
    <3>1. CASE IsGroup(m)
      BY <1>1, <2>1, <3>1, MembersAreAddressees DEF ReceiveFromPubsub
    <3>2. CASE ~IsGroup(m)
      <4>1. (IF IsLocal(n, To[m]) THEN {To[m]} ELSE {}) \in SUBSET Addressees[m]
        BY <2>1, <3>2, MembersAreAddressees
      <4> QED
        BY <1>1, <3>2, <4>1 DEF ReceiveFromPubsub
    <3> QED
      BY <3>1, <3>2
  <2> HIDE DEF m
  <2> QED
    BY <2>1, <2>2, ContinueAddresses, ListenerAddresses
<1>2. CASE TryDeliver(n)
  <2> DEFINE m == listener[n].msg
  <2>1. UNCHANGED handler /\ listener[n].todo \subseteq Addressees[m]
    BY <1>2 DEF TryDeliver, sockVars, AddressInv
  <2>2. PICK a \in listener[n].todo :
          \/ listener' = [listener EXCEPT ![n] = Continue(m, listener[n].todo \ {a})]
          \/ listener' = [listener EXCEPT ![n] = IdleListener]
          \/ listener' = [listener EXCEPT ![n] =
                [pc |-> "send", msg |-> m, agent |-> a, todo |-> listener[n].todo \ {a}]]
    BY <1>2 DEF TryDeliver
  <2>3. listener[n].todo \ {a} \subseteq Addressees[m] /\ a \in Addressees[m]
    BY <2>1
  <2>4. CASE listener' = [listener EXCEPT ![n] = Continue(m, listener[n].todo \ {a})]
    BY <2>1, <2>3, <2>4, ContinueAddresses, ListenerAddresses
  <2>5. CASE listener' = [listener EXCEPT ![n] = IdleListener]
    BY <2>1, <2>5, ListenerAddresses DEF IdleListener
  <2>6. CASE listener' = [listener EXCEPT ![n] =
                [pc |-> "send", msg |-> m, agent |-> a, todo |-> listener[n].todo \ {a}]]
    BY <2>1, <2>3, <2>6, ListenerAddresses
  <2> QED
    BY <2>2, <2>4, <2>5, <2>6
<1>3. CASE SendFindsNothing(n) \/ SendFailed(n) \/ SendFrame(n)
  <2> DEFINE l == Continue(listener[n].msg, listener[n].todo)
  <2>1. UNCHANGED handler /\ listener[n].todo \subseteq Addressees[listener[n].msg]
    BY <1>3 DEF SendFindsNothing, SendFailed, SendFrame, sockVars, AddressInv
  <2>2. \/ listener' = [listener EXCEPT ![n] = l]
        \/ listener' = [listener EXCEPT ![n].pc = "failed"]
    BY <1>3 DEF SendFindsNothing, SendFailed, SendFrame
  <2>3. CASE listener' = [listener EXCEPT ![n] = l]
    BY <2>1, <2>3, ContinueAddresses, ListenerAddresses
  <2>4. CASE listener' = [listener EXCEPT ![n].pc = "failed"]
    <3>1. /\ listener'[n].pc = "failed" /\ listener'[n].todo = listener[n].todo
          /\ listener'[n].msg = listener[n].msg
          /\ \A k \in Nodes \ {n} : listener'[k] = listener[k]
      BY <2>4
    <3> QED
      BY <2>1, <3>1, ListenerAddresses
  <2> QED
    BY <2>2, <2>3, <2>4
<1>4. CASE NodeFault(n)
  <2>1. \A k \in Nodes : listener'[k] = listener[k] \/ listener'[k].pc \in {"idle", "dead", "down"}
    BY <1>4 DEF NodeFault, ListenerRaises, ListenerDies, NodeCrashes, NodeRestarts, IdleListener
  <2>2. \A s \in Socks : handler'[s] = handler[s] \/ handler'[s].pc # "counted"
    BY <1>4 DEF NodeFault, ListenerRaises, ListenerDies, NodeCrashes, NodeRestarts, Gone, sockVars
  <2> QED
    BY <2>1, <2>2 DEF AddressInv
<1> QED
  BY <1>1, <1>2, <1>3, <1>4 DEF ListenerStep

-----------------------------------------------------------------------------
(* Step simulation. *)

\* A frame is the first one its agent gets of the message: DeliveryOrder has it from the
\* order of a node's messages.
OnceInv ==
    /\ \A m \in Messages, a \in Agents : sends[m][a] <= 1
    /\ \A n \in Nodes : listener[n].pc = "send" /\ IsLocal(n, listener[n].agent) =>
          sends[listener[n].msg][listener[n].agent] = 0

MappedInv == TypeOK /\ OnceInv /\ TrailInv /\ AckInv /\ AddressInv

LEMMA OrderedOnce == FifoInv /\ HandedInv => OnceInv
<1> SUFFICES ASSUME FifoInv, HandedInv, NEW n \in Nodes,
                    listener[n].pc = "send", IsLocal(n, listener[n].agent)
             PROVE  sends[listener[n].msg][listener[n].agent] = 0
  BY DEF OnceInv, HandedInv
<1> DEFINE m == listener[n].msg
           a == listener[n].agent
<1>1. TypeOK /\ EntryInv
  BY DEF FifoInv
<1>2. m \in Messages /\ a \in Agents /\ sends[m][a] \in Nat /\ conns[n][a] # None
  BY <1>1 DEF TypeOK, ListenerType, ClientType, IsLocal
<1>3. PICK s \in Socks : NodeOf[s] = n /\ AgentOf[s] = a
  <2> HIDE DEF a
  <2> QED
    BY <1>1, <1>2 DEF EntryInv, TypeOK, NodeType
<1>4. a \in Awaits(n)
  BY DEF Awaits
<1>5. ~(sends[m][a] > 0)
  BY <1>2, <1>3, <1>4 DEF HandedInv
<1> QED
  BY <1>2, <1>5

LEMMA InitMaps == Init => Bus!Init
  BY DEF Init, Bus!Init

\* The steps that the abstract bus does not see.
LEMMA Unseen ==
    ASSUME UNCHANGED <<status, recipients, sends, acks>> PROVE UNCHANGED Bus!vars
  BY DEF Bus!vars

\* The abstract bus counts as Delivery does.
LEMMA SameCount == \A S : Bus!Cardinality(S) = Cardinality(S)
  BY DEF Bus!Cardinality, Cardinality

LEMMA PersistIsStore ==
    ASSUME MappedInv, NEW s \in Socks, PersistMessage(s) PROVE [Bus!Next]_(Bus!vars)
<1> DEFINE m == handler[s].msg
<1>1. m \in Messages /\ \E R \in SUBSET Addressees[m] : handler[s].n = Cardinality(R)
  BY DEF MappedInv, TypeOK, HandlerType, PersistMessage, AddressInv
<1>2. UNCHANGED <<sends, acks>>
  BY DEF PersistMessage
<1>3. CASE status[m] = "none"
  <2>1. /\ status' = [status EXCEPT ![m] = "pending"]
        /\ recipients' = [recipients EXCEPT ![m] = handler[s].n]
    BY <1>3 DEF PersistMessage
  <2> HIDE DEF m
  <2>2. Bus!Store(m)
    BY <1>1, <1>2, <1>3, <2>1, SameCount DEF Bus!Store
  <2> QED
    BY <1>1, <2>2 DEF Bus!Next
<1>4. CASE status[m] # "none"
  BY <1>2, <1>4, Unseen DEF PersistMessage
<1> QED
  BY <1>3, <1>4

LEMMA CommitIsAcknowledge ==
    ASSUME MappedInv, NEW s \in Socks, CommitAck(s) PROVE [Bus!Next]_(Bus!vars)
<1> DEFINE m == handler[s].msg
           a == AgentOf[s]
<1>1. m \in Messages /\ a \in Agents
  BY DeliveryAssumption DEF CommitAck, MappedInv, TypeOK, HandlerType
<1>2. sends[m][a] > 0 /\ handler[s].n <= AckCount(m, a)
  BY DEF CommitAck, MappedInv, TrailInv, AckInv
<1>3. /\ acks' = [acks EXCEPT ![m] = @ \cup {a}]
      /\ status' = [status EXCEPT ![m] = IF handler[s].n >= recipients[m] THEN "delivered" ELSE @]
      /\ UNCHANGED <<recipients, sends>>
  BY DEF CommitAck
<1>4. /\ handler[s].n \in Nat /\ recipients[m] \in Nat /\ AckCount(m, a) \in Nat
      /\ sends[m][a] \in Nat /\ status \in [Messages -> {"none", "pending", "delivered"}]
  BY <1>1, CountsAreNat DEF MappedInv, TypeOK, HandlerType, DbType, ClientType
<1>5. sends[m][a] <= 1
  BY <1>1 DEF MappedInv, OnceInv
<1> HIDE DEF m, a
<1>6. sends[m][a] = 1
  BY <1>2, <1>4, <1>5
<1>7. \/ UNCHANGED status
      \/ /\ Cardinality(acks[m] \cup {a}) >= recipients[m]
         /\ status' = [status EXCEPT ![m] = "delivered"]
  <2>1. CASE handler[s].n >= recipients[m]
    BY <1>2, <1>3, <1>4, <2>1 DEF AckCount
  <2>2. CASE ~(handler[s].n >= recipients[m])
    BY <1>1, <1>3, <1>4, <2>2
  <2> QED
    BY <2>1, <2>2
<1>8. Bus!Acknowledge(m, a)
  BY <1>3, <1>6, <1>7, SameCount DEF Bus!Acknowledge
<1> QED
  BY <1>1, <1>8 DEF Bus!Next

LEMMA SendIsHandOver ==
    ASSUME MappedInv, NEW n \in Nodes, SendFrame(n) PROVE [Bus!Next]_(Bus!vars)
<1> DEFINE m == listener[n].msg
           a == listener[n].agent
<1>1. m \in Messages /\ a \in Agents
  BY DEF SendFrame, MappedInv, TypeOK, ListenerType
<1>2. /\ <<m, a>> \in attempts /\ sends[m][a] = 0 /\ a \in Addressees[m]
  BY DEF SendFrame, MappedInv, OnceInv, TrailInv, AddressInv
<1>3. sends' = [sends EXCEPT ![m][a] = @ + 1] /\ UNCHANGED <<status, recipients, acks>>
  BY DEF SendFrame, dbVars
<1> HIDE DEF m, a
<1>4. status[m] # "none"
  BY <1>1, <1>2 DEF MappedInv, TrailInv
<1>5. sends' = [sends EXCEPT ![m][a] = 1]
  BY <1>1, <1>2, <1>3 DEF MappedInv, TypeOK, ClientType
<1>6. Bus!HandOver(m, a)
  BY <1>2, <1>3, <1>4, <1>5 DEF Bus!HandOver
<1> QED
  BY <1>1, <1>6 DEF Bus!Next

LEMMA StepMaps == MappedInv /\ [Next]_vars => [Bus!Next]_(Bus!vars)
<1> SUFFICES ASSUME MappedInv, [Next]_vars PROVE [Bus!Next]_(Bus!vars)
  OBVIOUS
<1>1. CASE UNCHANGED vars
  BY <1>1, Unseen DEF vars, dbVars
<1>2. ASSUME NEW s \in Socks, HandlerStep(s) \/ ClientStep(s) \/ SockFault(s),
             ~PersistMessage(s), ~CommitAck(s)
      PROVE  UNCHANGED <<status, recipients, sends, acks>>
  <2>1. UNCHANGED sends
    BY <1>2, SockStepFrame
  <2>2. UNCHANGED <<status, recipients, acks>>
    BY <1>2 DEF HandlerStep, Accept, Register, EnterGroups, HandlerExits, Publish, CountAcks,
       ClientStep, CheckDuplicate, ClientDrops, CountRecipients, JoinGroup, LeaveGroup,
       SockFault, HandlerRaises, RegisterRaises, dbVars
  <2> QED
    BY <2>1, <2>2
<1>3. ASSUME NEW n \in Nodes, ListenerStep(n) \/ NodeFault(n), ~SendFrame(n)
      PROVE  UNCHANGED <<status, recipients, sends, acks>>
  BY <1>3 DEF ListenerStep, ReceiveFromPubsub, TryDeliver, SendFindsNothing, SendFailed, NodeFault,
     ListenerRaises, ListenerDies, NodeCrashes, NodeRestarts, dbVars
<1> QED
  BY <1>1, <1>2, <1>3, Unseen, PersistIsStore, CommitIsAcknowledge, SendIsHandOver DEF Next

\* All of it but OnceInv, wherever agents connect.
LEMMA MappedRest ==
    Spec => [](TypeOK /\ TrailInv /\ AckInv /\ AddressInv)
<1> DEFINE Rest == TypeOK /\ TrailInv /\ AckInv /\ AddressInv
<1>1. Init => Rest
  <2>1. Init => TrailInv
    BY DeliveryAssumption DEF Init, TrailInv, IdleListener, Ready, NewHandler
  <2>2. Init => AckInv /\ AddressInv
    BY DEF Init, AckInv, AddressInv, IdleListener, Ready, NewHandler
  <2> QED
    BY <2>1, <2>2, InitType
<1>2. Rest /\ [Next]_vars => Rest'
  <2> SUFFICES ASSUME Rest, [Next]_vars PROVE Rest'
    OBVIOUS
  <2>1. TypeOK' /\ AckInv'
    BY TypeStep, AckStep
  <2>2. TrailInv' /\ AddressInv'
    <3>1. CASE UNCHANGED vars
      BY <3>1, HandlerAddresses DEF vars, dbVars, sockVars, TrailInv
    <3> QED
      BY <3>1, TrailHandlerStep, TrailNodeStep, SockAddresses, NodeAddresses DEF Next
  <2> QED
    BY <2>1, <2>2
<1> QED
  BY <1>1, <1>2, PTL DEF Spec

LEMMA OnceHolds == ASSUME AgentsStay PROVE Spec => []OnceInv
<1>1. Init => FifoInv /\ HandedInv
  BY InitFifo, InitHanded
<1>2. FifoInv /\ HandedInv /\ [Next]_vars => FifoInv' /\ HandedInv'
  BY FifoStep, HandedStep
<1> QED
  BY <1>1, <1>2, OrderedOnce, PTL DEF Spec

\* With agents that connect to one node each ("sticky sessions by agent_id"), the nodes
\* with their tables, queues, transactions and crashes do to a message what the abstract
\* bus does (message_router.py: route, deliver_from_pubsub, handle_ack).
THEOREM BusIsImplemented == ASSUME AgentsStay PROVE Spec => ImplementsBus
<1>1. TypeOK /\ TrailInv /\ AckInv /\ AddressInv /\ OnceInv => MappedInv
  BY DEF MappedInv
<1>2. Bus!Init /\ [][Bus!Next]_(Bus!vars) => ImplementsBus
  BY DEF ImplementsBus, Bus!Spec
<1> QED
  BY <1>1, <1>2, MappedRest, OnceHolds, InitMaps, StepMaps, PTL DEF Spec
-----------------------------------------------------------------------------
(* The way of a direct message, where nothing fails. *)

NothingFails == Faults = {} /\ MaxCrashes = 0

\* A connection that has stayed up keeps its entry: no other endpoint of the agent
\* gets past the duplicate check, and none leaves.
Kept(r) ==
    /\ handler[r].pc \in {"ready", "counted", "persisted", "acking"}
    /\ conns[NodeOf[r]][AgentOf[r]] = r
    /\ AgentOf[r] \in agents
    /\ \A s \in Socks \ {r} : NodeOf[s] = NodeOf[r] /\ AgentOf[s] = AgentOf[r] =>
          handler[s].pc \in {"new", "gone"}
    /\ listener[NodeOf[r]].pc = "failed" => listener[NodeOf[r]].agent # AgentOf[r]

KeptInv ==
    /\ \A n \in Nodes : listener[n].pc \notin {"dead", "down"}
    /\ \A r \in InitReady : handler[r].pc \notin {"new", "checked", "accepted", "registered"}
    /\ \A r \in InitReady \cap open : Kept(r)

\* What the steps need of a connection that stays.
KeptTypes == TypeOK /\ EntryInv /\ RunningInv /\ KeptInv

\* With one agent to visit the loop goes on.
LEMMA ContinueWithOne ==
    ASSUME NEW m, NEW a
    PROVE  Continue(m, {a}) = [pc |-> "loop", msg |-> m, agent |-> None, todo |-> {a}]
  BY DEF Continue

\* So a message is on its way once the loop for its addressee has begun.
LEMMA NextInLoop ==
    ASSUME NEW n, NEW m, listener'[n] = Continue(m, {To[m]})
    PROVE  OnItsWay(m, n)'
<1>1. listener'[n] = [pc |-> "loop", msg |-> m, agent |-> None, todo |-> {To[m]}]
  BY ContinueWithOne
<1> QED
  BY <1>1 DEF OnItsWay

\* Only the entry of the agent is popped.
LEMMA OthersKeepTheirEntry ==
    ASSUME NodeType, NEW n \in Nodes, NEW b \in Agents, conns' = [conns EXCEPT ![n][b] = None],
           NEW k \in Nodes, NEW a \in Agents, k # n \/ a # b
    PROVE  conns'[k][a] = conns[k][a]
  BY DEF NodeType

\* What a step of the listener leaves alone.
LEMMA ListenerFrame ==
    ASSUME NEW n \in Nodes, ListenerStep(n)
    PROVE  UNCHANGED <<agents, members, status, recipients, acks, handler, open, sentOn, crashes>>
<1>1. CASE ReceiveFromPubsub(n)
  BY <1>1 DEF ReceiveFromPubsub, dbVars, sockVars
<1>2. CASE TryDeliver(n)
  BY <1>2 DEF TryDeliver, sockVars
<1>3. CASE SendFindsNothing(n)
  BY <1>3 DEF SendFindsNothing, dbVars, sockVars
<1>4. CASE SendFrame(n)
  BY <1>4 DEF SendFrame, dbVars
<1>5. CASE SendFailed(n)
  BY <1>5 DEF SendFailed, dbVars, sockVars
<1> QED
  BY <1>1, <1>2, <1>3, <1>4, <1>5 DEF ListenerStep

\* Where the listener of n is after a step: the one that fails has met a closed
\* connection.
LEMMA ListenerTurns ==
    ASSUME TypeOK, NEW n \in Nodes, ListenerStep(n)
    PROVE  /\ \A k \in Nodes \ {n} : listener'[k] = listener[k]
           /\ \/ listener'[n].pc \in {"idle", "loop", "send"}
              \/ /\ conns[n][listener[n].agent] \notin open
                 /\ listener'[n].pc = "failed" /\ listener'[n].agent = listener[n].agent
<1> USE DEF TypeOK, ListenerType
<1>1. ASSUME NEW m, NEW todo, listener' = [listener EXCEPT ![n] = Continue(m, todo)]
      PROVE  /\ \A k \in Nodes \ {n} : listener'[k] = listener[k]
             /\ listener'[n].pc \in {"idle", "loop"}
  BY <1>1, ContinueAwaits
<1>2. CASE ReceiveFromPubsub(n)
  <2>1. \E m, todo : listener' = [listener EXCEPT ![n] = Continue(m, todo)]
    BY <1>2 DEF ReceiveFromPubsub
  <2> QED
    BY <1>1, <2>1
<1>3. CASE TryDeliver(n)
  <2>1. \/ \E m, todo : listener' = [listener EXCEPT ![n] = Continue(m, todo)]
        \/ \E l : l.pc \in {"idle", "send"} /\ listener' = [listener EXCEPT ![n] = l]
    BY <1>3 DEF TryDeliver, IdleListener
  <2> QED
    BY <1>1, <2>1
<1>4. CASE SendFindsNothing(n) \/ SendFailed(n)
  BY <1>1, <1>4 DEF SendFindsNothing, SendFailed
<1>5. CASE SendFrame(n)
  <2>1. \/ \E m, todo : listener' = [listener EXCEPT ![n] = Continue(m, todo)]
        \/ /\ conns[n][listener[n].agent] \notin open
           /\ listener' = [listener EXCEPT ![n].pc = "failed"]
    BY <1>5 DEF SendFrame
  <2> QED
    BY <1>1, <2>1
<1> QED
  BY <1>2, <1>3, <1>4, <1>5 DEF ListenerStep

\* No endpoint begins again, and a client gets no message back.
LEMMA Onward ==
    ASSUME TypeOK, [Next]_vars, NEW s \in Socks
    PROVE  /\ handler'[s].pc = "new" => handler[s].pc = "new"
           /\ \A m \in Messages : Received(m, s) => Received(m, s)'
<1> USE DEF TypeOK, HandlerType
<1>1. handler'[s].pc = "new" => handler[s].pc = "new"
  <2>1. ASSUME NEW t \in Socks, HandlerStep(t) \/ SockFault(t)
        PROVE  handler'[s].pc = "new" => handler[s].pc = "new"
    BY <2>1 DEF HandlerStep, Accept, Register, EnterGroups, HandlerExits, PersistMessage, Publish,
       CountAcks, CommitAck, SockFault, HandlerRaises, RegisterRaises, Ready, Gone
  <2>2. ASSUME NEW t \in Socks, ClientStep(t)
        PROVE  handler'[s].pc = "new" => handler[s].pc = "new"
    BY <2>2 DEF ClientStep, CheckDuplicate, ClientDrops, CountRecipients, JoinGroup, LeaveGroup,
       sockVars
  <2>3. ASSUME NEW n \in Nodes, ListenerStep(n) \/ NodeFault(n)
        PROVE  handler'[s].pc = "new" => handler[s].pc = "new"
    <3>1. NodeFault(n) => handler'[s] \in {handler[s], Gone}
      BY DEF NodeFault, ListenerRaises, ListenerDies, NodeRestarts, NodeCrashes, sockVars
    <3> QED
      BY <2>3, <3>1, ListenerFrame DEF Gone
  <2> QED
    BY <2>1, <2>2, <2>3 DEF Next, vars, sockVars
<1>2. \/ got'[s] = got[s]
      \/ \E m \in Messages : got'[s] = Append(got[s], m)
  <2>1. CASE UNCHANGED got
    BY <2>1
  <2>2. ASSUME NEW n \in Nodes, SendFrame(n), ~UNCHANGED got
        PROVE  \E m \in Messages : got'[s] \in {got[s], Append(got[s], m)}
    <3>1. listener[n].msg \in Messages /\ got \in [Socks -> Seq(Messages)]
      BY <2>2 DEF SendFrame, ListenerType, ClientType
    <3>2. PICK r : got' = [got EXCEPT ![r] = Append(@, listener[n].msg)]
      BY <2>2 DEF SendFrame
    <3> QED
      BY <3>1, <3>2
  <2>3. ASSUME ~\E n \in Nodes : SendFrame(n) PROVE UNCHANGED got
    <3>1. ASSUME NEW t \in Socks, HandlerStep(t) \/ ClientStep(t) \/ SockFault(t) PROVE UNCHANGED got
      BY <3>1 DEF HandlerStep, Accept, Register, EnterGroups, HandlerExits, PersistMessage, Publish,
         CountAcks, CommitAck, ClientStep, CheckDuplicate, ClientDrops, CountRecipients, JoinGroup,
         LeaveGroup, SockFault, HandlerRaises, RegisterRaises
    <3>2. ASSUME NEW n \in Nodes, ListenerStep(n) \/ NodeFault(n) PROVE UNCHANGED got
      BY <2>3, <3>2 DEF ListenerStep, ReceiveFromPubsub, TryDeliver, SendFindsNothing, SendFailed,
         NodeFault, ListenerRaises, ListenerDies, NodeRestarts, NodeCrashes
    <3> QED
      BY <3>1, <3>2 DEF Next, vars
  <2> QED
    BY <2>1, <2>2, <2>3
<1>3. ASSUME NEW m \in Messages, Received(m, s) PROVE Received(m, s)'
  <2>1. PICK i \in 1..Len(got[s]) : got[s][i] = m
    BY <1>3 DEF Received
  <2>2. got[s] \in Seq(Messages)
    BY DEF ClientType
  <2>3. i \in 1..Len(got'[s]) /\ got'[s][i] = m
    BY <1>2, <2>1, <2>2
  <2> QED
    BY <2>3 DEF Received
<1> QED
  BY <1>1, <1>3

\* The steps of another endpoint, or of the connection's own, leave it in place.
LEMMA KeptSockStep ==
    ASSUME NothingFails, KeptTypes, NEW s \in Socks, HandlerStep(s) \/ ClientStep(s) \/ SockFault(s),
           NEW r \in InitReady
    PROVE  /\ handler'[r].pc \notin {"new", "checked", "accepted", "registered"}
           /\ r \in open' => r \in open /\ Kept(r)'
<1> USE DeliveryAssumption DEF TypeOK, HandlerType, NodeType
<1>0. /\ r \in Socks /\ ~SockFault(s) /\ TypeOK /\ UNCHANGED listener
      /\ handler[r].pc \notin {"new", "checked", "accepted", "registered"}
      /\ r \in open => Kept(r)
  BY SockStepFrame DEF NothingFails, SockFault, HandlerRaises, RegisterRaises, KeptTypes, KeptInv
<1>1. CASE Accept(s)
  <2>1. /\ handler[s].pc = "checked" /\ handler' = [handler EXCEPT ![s].pc = "accepted"]
        /\ conns' = [conns EXCEPT ![NodeOf[s]][AgentOf[s]] = s]
        /\ open' = open \cup {s} /\ UNCHANGED agents
    BY <1>1 DEF Accept, dbVars
  <2>2. s # r
    BY <1>0, <2>1
  <2>3. ASSUME r \in open
        PROVE  Kept(r)'
    <3>1. ~(NodeOf[s] = NodeOf[r] /\ AgentOf[s] = AgentOf[r])
      BY <1>0, <2>1, <2>2, <2>3 DEF Kept
    <3> QED
      BY <1>0, <2>1, <2>2, <2>3, <3>1 DEF Kept
  <2> QED
    BY <1>0, <2>1, <2>2, <2>3
<1>2. CASE HandlerExits(s)
  <2>1. /\ handler[s].pc = "ready" /\ s \notin open /\ handler' = [handler EXCEPT ![s] = Gone]
        /\ conns' = [conns EXCEPT ![NodeOf[s]][AgentOf[s]] = None] /\ UNCHANGED <<open, agents>>
    BY <1>2 DEF HandlerExits, Popped, dbVars
  <2>2. handler'[r].pc \notin {"new", "checked", "accepted", "registered"}
    BY <1>0, <2>1 DEF Gone
  <2>3. ASSUME r \in open
        PROVE  Kept(r)'
    <3>1. s # r /\ ~(NodeOf[s] = NodeOf[r] /\ AgentOf[s] = AgentOf[r])
      BY <1>0, <2>1, <2>3 DEF Kept
    <3> QED
      BY <1>0, <2>1, <2>3, <3>1 DEF Kept
  <2> QED
    BY <2>1, <2>2, <2>3
<1>3. CASE CheckDuplicate(s)
  <2>1. /\ handler[s].pc = "new" /\ UNCHANGED <<open, agents, conns>>
        /\ handler' = [handler EXCEPT ![s].pc =
              IF conns[NodeOf[s]][AgentOf[s]] # None THEN "gone" ELSE "checked"]
    BY <1>3 DEF CheckDuplicate, IsLocal, dbVars
  <2>2. s # r
    BY <1>0, <2>1
  <2>3. ASSUME r \in open
        PROVE  Kept(r)'
    <3>1. NodeOf[s] = NodeOf[r] /\ AgentOf[s] = AgentOf[r] => handler'[s].pc = "gone"
      BY <1>0, <2>1, <2>3 DEF Kept
    <3> QED
      BY <1>0, <2>1, <2>2, <2>3, <3>1 DEF Kept
  <2> QED
    BY <1>0, <2>1, <2>2, <2>3
<1>4. CASE ClientDrops(s) \/ \E g \in Groups : JoinGroup(s, g) \/ LeaveGroup(s, g)
  BY <1>0, <1>4 DEF ClientDrops, JoinGroup, LeaveGroup, dbVars, sockVars, Kept
\* What is left are the steps inside the endpoint.
<1>5. CASE Register(s) \/ EnterGroups(s) \/ PersistMessage(s) \/ Publish(s) \/ CommitAck(s)
           \/ \E m \in Messages : CountAcks(s, m) \/ CountRecipients(s, m)
  <2>1. /\ UNCHANGED <<open, conns>> /\ agents \subseteq agents'
        /\ \A q \in Socks \ {s} : handler'[q] = handler[q]
        /\ handler'[s].pc \in {"registered", "ready", "counted", "persisted", "acking"}
        /\ handler'[s].pc = "registered" => handler[s].pc = "accepted"
        /\ handler[s].pc \notin {"new", "checked", "gone"}
    <3>1. CASE Register(s)
      BY <1>0, <3>1 DEF Register
    <3>2. CASE EnterGroups(s)
      BY <1>0, <3>2 DEF EnterGroups, Ready
    <3>3. CASE PersistMessage(s)
      BY <1>0, <3>3 DEF PersistMessage
    <3>4. CASE Publish(s)
      BY <1>0, <3>4 DEF Publish, Ready, dbVars
    <3>5. CASE CommitAck(s)
      BY <1>0, <3>5 DEF CommitAck, Ready
    <3>6. ASSUME NEW m \in Messages, CountAcks(s, m) \/ CountRecipients(s, m)
          PROVE  /\ UNCHANGED <<open, conns>> /\ agents \subseteq agents'
                 /\ \A q \in Socks \ {s} : handler'[q] = handler[q]
                 /\ handler'[s].pc \in {"counted", "acking"} /\ handler[s].pc = "ready"
      BY <1>0, <3>6 DEF CountAcks, CountRecipients, dbVars
    <3> QED
      BY <1>5, <3>1, <3>2, <3>3, <3>4, <3>5, <3>6
  <2>2. ASSUME r \in open
        PROVE  Kept(r)'
    <3>1. ASSUME NEW q \in Socks \ {r}, NodeOf[q] = NodeOf[r], AgentOf[q] = AgentOf[r]
          PROVE  handler'[q].pc \in {"new", "gone"}
      BY <1>0, <2>1, <2>2, <3>1 DEF Kept
    <3> QED
      BY <1>0, <2>1, <2>2, <3>1 DEF Kept
  <2> QED
    BY <1>0, <2>1, <2>2
<1> QED
  BY <1>0, <1>1, <1>2, <1>3, <1>4, <1>5 DEF HandlerStep, ClientStep

LEMMA KeptNodeStep ==
    ASSUME NothingFails, KeptTypes, NEW n \in Nodes, ListenerStep(n) \/ NodeFault(n)
    PROVE  /\ UNCHANGED <<handler, open>> /\ ~NodeFault(n)
           /\ \A k \in Nodes : listener'[k].pc \notin {"dead", "down"}
           /\ \A r \in InitReady \cap open : Kept(r)'
<1> USE DEF TypeOK, NodeType, ListenerType
<1>0. TypeOK /\ KeptInv
  BY DEF KeptTypes
<1>1. ~NodeFault(n)
  <2>1. crashes \in Nat /\ listener[n].pc # "down"
    BY <1>0 DEF KeptInv
  <2> QED
    BY <2>1 DEF NothingFails, NodeFault, ListenerRaises, ListenerDies, NodeCrashes, NodeRestarts
<1>2. UNCHANGED <<handler, open, agents>>
  BY <1>1, ListenerFrame
<1>3. /\ \A k \in Nodes \ {n} : listener'[k] = listener[k]
      /\ listener'[n].pc \in {"idle", "loop", "send", "failed"}
  BY <1>0, <1>1, ListenerTurns
<1>4. ASSUME listener'[n].pc = "failed"
      PROVE  /\ listener'[n].agent = listener[n].agent
             /\ conns[n][listener[n].agent] \notin open
  BY <1>0, <1>1, <1>4, ListenerTurns
<1>5. \/ UNCHANGED conns
      \/ listener[n].pc = "failed" /\ conns' = [conns EXCEPT ![n][listener[n].agent] = None]
  <2>1. CASE SendFailed(n)
    BY <2>1 DEF SendFailed, Popped
  <2> QED
    BY <1>1, <2>1 DEF ListenerStep, ReceiveFromPubsub, TryDeliver, SendFindsNothing, SendFrame
<1>6. ASSUME NEW r \in InitReady \cap open
      PROVE  Kept(r)'
  <2>1. Kept(r) /\ r \in Socks /\ NodeOf[r] \in Nodes /\ AgentOf[r] \in Agents
    BY <1>0, DeliveryAssumption DEF KeptInv
  <2>2. conns'[NodeOf[r]][AgentOf[r]] = r
    <3>1. ASSUME NEW k \in Nodes, NEW a \in Agents, listener[k].pc = "failed" => listener[k].agent # a
          PROVE  conns'[k][a] = conns[k][a]
      <4>1. CASE UNCHANGED conns
        BY <4>1
      <4>2. CASE /\ listener[n].pc = "failed"
                 /\ conns' = [conns EXCEPT ![n][listener[n].agent] = None]
        <5>1. listener[n].agent \in Agents /\ (k # n \/ a # listener[n].agent)
          BY <1>0, <3>1, <4>2
        <5> QED
          BY <1>0, <4>2, <5>1, OthersKeepTheirEntry
      <4> QED
        BY <1>5, <4>1, <4>2
    <3>2. /\ conns[NodeOf[r]][AgentOf[r]] = r
          /\ listener[NodeOf[r]].pc = "failed" => listener[NodeOf[r]].agent # AgentOf[r]
      BY <2>1 DEF Kept
    <3>3. conns'[NodeOf[r]][AgentOf[r]] = conns[NodeOf[r]][AgentOf[r]]
      BY ONLY <2>1, <3>1, <3>2
    <3> QED
      BY <3>2, <3>3
  <2>3. listener'[NodeOf[r]].pc = "failed" => listener'[NodeOf[r]].agent # AgentOf[r]
    BY <1>3, <1>4, <2>1 DEF Kept
  <2> QED
    BY <1>2, <2>1, <2>2, <2>3 DEF Kept
<1> QED
  BY <1>0, <1>1, <1>2, <1>3, <1>6 DEF KeptInv

LEMMA KeptStep ==
    ASSUME NothingFails, KeptTypes, [Next]_vars
    PROVE  KeptTypes' /\ \A r \in InitReady : r \in open' => r \in open
<1>1. TypeOK' /\ EntryInv' /\ RunningInv'
  BY TypeStep, EntryStep, RunningStep DEF KeptTypes, NothingFails
<1>2. CASE UNCHANGED vars
  BY <1>1, <1>2 DEF KeptTypes, KeptInv, Kept, vars, dbVars, sockVars
<1>3. ASSUME NEW s \in Socks, HandlerStep(s) \/ ClientStep(s) \/ SockFault(s)
      PROVE  KeptInv' /\ \A r \in InitReady : r \in open' => r \in open
  BY <1>3, KeptSockStep, SockStepFrame DEF KeptInv, KeptTypes
<1>4. ASSUME NEW n \in Nodes, ListenerStep(n) \/ NodeFault(n)
      PROVE  KeptInv' /\ \A r \in InitReady : r \in open' => r \in open
  BY <1>4, KeptNodeStep DEF KeptInv, KeptTypes
<1> QED
  BY <1>1, <1>2, <1>3, <1>4 DEF Next, KeptTypes

\* A message sent to a connection that stays up is received.
LEMMA SendIsReceived ==
    ASSUME NothingFails, KeptTypes, [Next]_vars, NEW r \in InitReady \cap open,
           NEW m \in Messages, listener[NodeOf[r]].pc = "send", listener[NodeOf[r]].msg = m,
           listener[NodeOf[r]].agent = AgentOf[r]
    PROVE  listener'[NodeOf[r]] = listener[NodeOf[r]] \/ Received(m, r)'
<1> DEFINE n == NodeOf[r]
<1> USE DEF TypeOK, ListenerType
<1>0. /\ TypeOK /\ r \in Socks /\ n \in Nodes /\ conns[n][AgentOf[r]] = r /\ r # None
  BY DeliveryAssumption DEF KeptTypes, KeptInv, Kept
<1>1. ASSUME NEW k \in Nodes, k # n, ListenerStep(k) PROVE listener'[n] = listener[n]
  BY <1>0, <1>1 DEF ListenerStep, ReceiveFromPubsub, TryDeliver, SendFindsNothing, SendFrame, SendFailed
<1>2. ASSUME ListenerStep(n) PROVE Received(m, r)'
  <2>1. SendFrame(n)
    BY <1>0, <1>2 DEF ListenerStep, ReceiveFromPubsub, TryDeliver, SendFindsNothing, SendFailed, IsLocal
  <2>2. got' = [got EXCEPT ![r] = Append(@, m)]
    BY <1>0, <2>1 DEF SendFrame
  <2>3. got'[r] = Append(got[r], m) /\ got[r] \in Seq(Messages)
    BY <1>0, <2>2 DEF ClientType
  <2>4. Len(got[r]) + 1 \in 1..Len(got'[r]) /\ got'[r][Len(got[r]) + 1] = m
    BY <2>3
  <2> QED
    BY <2>4 DEF Received
<1>3. ASSUME NEW s \in Socks, HandlerStep(s) \/ ClientStep(s) \/ SockFault(s)
      PROVE  listener'[n] = listener[n]
  BY <1>3, SockStepFrame
<1>4. ASSUME NEW k \in Nodes, NodeFault(k) PROVE FALSE
  BY <1>4, KeptNodeStep
<1>5. CASE UNCHANGED vars
  BY <1>5 DEF vars
<1> QED
  BY <1>1, <1>2, <1>3, <1>4, <1>5 DEF Next

\* Where a stored message is on its way to a node, for the proof one step at a time.
LEMMA WayOfQueue ==
    ASSUME NothingFails, KeptTypes, [Next]_vars, NEW r \in InitReady \cap open,
           NEW m \in Messages, ~IsGroup(m), To[m] = AgentOf[r],
           NEW i \in 1..Len(inbox[NodeOf[r]]), inbox[NodeOf[r]][i] = m
    PROVE  OnItsWay(m, NodeOf[r])'
<1> DEFINE n == NodeOf[r]
           a == AgentOf[r]
<1>0. /\ TypeOK /\ n \in Nodes /\ a \in Agents /\ conns[n][a] # None
      /\ inbox[n] \in Seq(Messages)
  BY DeliveryAssumption DEF KeptTypes, KeptInv, Kept, TypeOK, NodeType
<1>1. ASSUME \E j \in 1..Len(inbox'[n]) : inbox'[n][j] = m PROVE OnItsWay(m, n)'
  BY <1>1 DEF OnItsWay
<1>2. CASE inbox'[n] = inbox[n]
  BY <1>1, <1>2
<1>3. ASSUME NEW x, inbox'[n] = Append(inbox[n], x) PROVE OnItsWay(m, n)'
  <2>1. i \in 1..Len(inbox'[n]) /\ inbox'[n][i] = m
    BY <1>0, <1>3
  <2> QED
    BY <1>1, <2>1
<1>4. CASE ReceiveFromPubsub(n)
  <2>1. inbox'[n] = Tail(inbox[n]) /\ Head(inbox[n]) = inbox[n][1]
    BY <1>0, <1>4 DEF ReceiveFromPubsub, TypeOK, NodeType
  <2>2. CASE i # 1
    <3>1. i - 1 \in 1..Len(inbox'[n]) /\ inbox'[n][i - 1] = m
      BY <1>0, <2>1, <2>2
    <3> QED
      BY <1>1, <3>1
  <2>3. CASE i = 1
    <3>1. listener' = [listener EXCEPT ![n] = Continue(m, {a})]
      BY <1>0, <1>4, <2>1, <2>3 DEF ReceiveFromPubsub, IsLocal
    <3>2. listener'[n] = Continue(m, {a})
      BY <1>0, <3>1 DEF TypeOK, ListenerType
    <3> QED
      BY <1>0, <3>2, NextInLoop
  <2> QED
    BY <2>2, <2>3
<1>5. ASSUME NEW k \in Nodes, ListenerStep(k), ~ReceiveFromPubsub(n) PROVE inbox'[n] = inbox[n]
  BY <1>0, <1>5 DEF ListenerStep, ReceiveFromPubsub, TryDeliver, SendFindsNothing, SendFrame,
     SendFailed, TypeOK, NodeType
<1>6. ASSUME NEW s \in Socks, HandlerStep(s) \/ ClientStep(s) \/ SockFault(s)
      PROVE  inbox'[n] = inbox[n] \/ \E x : inbox'[n] = Append(inbox[n], x)
  <2>1. CASE Publish(s)
    BY <1>0, <2>1 DEF Publish, Enqueue
  <2>2. CASE ~Publish(s)
    BY <1>6, <2>2 DEF HandlerStep, Accept, Register, EnterGroups, HandlerExits, PersistMessage,
       CountAcks, CommitAck, ClientStep, CheckDuplicate, ClientDrops, CountRecipients, JoinGroup,
       LeaveGroup, SockFault, HandlerRaises, RegisterRaises
  <2> QED
    BY <2>1, <2>2
<1>7. ASSUME NEW k \in Nodes, NodeFault(k) PROVE FALSE
  BY <1>7, KeptNodeStep
<1>8. CASE UNCHANGED vars
  BY <1>2, <1>8 DEF vars
<1> QED
  BY <1>2, <1>3, <1>4, <1>5, <1>6, <1>7, <1>8 DEF Next

LEMMA WayOfHandler ==
    ASSUME NothingFails, KeptTypes, [Next]_vars, NEW n \in Nodes, NEW m \in Messages,
           NEW s \in Socks, handler[s].pc = "persisted", handler[s].msg = m
    PROVE  OnItsWay(m, n)'
<1> USE DEF TypeOK, HandlerType
<1>0. TypeOK /\ listener[n].pc \notin {"dead", "down"} /\ inbox[n] \in Seq(Messages)
  BY DEF KeptTypes, KeptInv, NodeType
<1>1. CASE handler'[s] = handler[s]
  BY <1>1 DEF OnItsWay
<1>2. CASE Publish(s)
  <2>1. inbox'[n] = Append(inbox[n], m)
    BY <1>0, <1>2 DEF Publish, Enqueue, Listening
  <2>2. Len(inbox[n]) + 1 \in 1..Len(inbox'[n]) /\ inbox'[n][Len(inbox[n]) + 1] = m
    BY <1>0, <2>1
  <2> QED
    BY <2>2 DEF OnItsWay
<1>3. ASSUME NEW t \in Socks, HandlerStep(t) \/ ClientStep(t) \/ SockFault(t), ~Publish(s)
      PROVE  handler'[s] = handler[s]
  <2>1. CASE HandlerStep(t)
    BY <1>0, <1>3, <2>1 DEF HandlerStep, Accept, Register, EnterGroups, HandlerExits, PersistMessage,
       Publish, CountAcks, CommitAck
  <2>2. CASE ClientStep(t)
    BY <1>0, <2>2 DEF ClientStep, CheckDuplicate, ClientDrops, CountRecipients, JoinGroup, LeaveGroup,
       sockVars
  <2>3. ~SockFault(t)
    BY DEF NothingFails, SockFault, HandlerRaises, RegisterRaises
  <2> QED
    BY <1>3, <2>1, <2>2, <2>3
<1>4. ASSUME NEW k \in Nodes, ListenerStep(k) \/ NodeFault(k) PROVE handler'[s] = handler[s]
  BY <1>4, KeptNodeStep
<1>5. CASE UNCHANGED vars
  BY <1>1, <1>5 DEF vars, sockVars
<1> QED
  BY <1>1, <1>2, <1>3, <1>4, <1>5 DEF Next

LEMMA WayOfListener ==
    ASSUME NothingFails, KeptTypes, AddressInv, [Next]_vars,
           NEW r \in InitReady \cap open, NEW m \in Messages,
           ~IsGroup(m), status[m] # "none", To[m] = AgentOf[r],
           listener[NodeOf[r]].msg = m, listener[NodeOf[r]].pc = "loop",
           To[m] \in listener[NodeOf[r]].todo
    PROVE  OnItsWay(m, NodeOf[r])'
<1> DEFINE n == NodeOf[r]
           a == AgentOf[r]
<1>0. /\ TypeOK /\ r \in Socks /\ n \in Nodes /\ a \in Agents /\ conns[n][a] # None /\ a \in agents
  BY DeliveryAssumption DEF KeptTypes, KeptInv, Kept
<1>1. CASE listener'[n] = listener[n]
  BY <1>1 DEF OnItsWay
<1>2. CASE TryDeliver(n)
  <2>1. listener[n].todo = {a}
    BY <1>0, MembersAreAddressees DEF AddressInv
  <2>2. References(m, a)
    BY <1>0 DEF References
  <2>3. ~SeenAsDuplicate(m, a)
    BY DEF SeenAsDuplicate, Rowcount
  <2>4. listener' = [listener EXCEPT ![n] = [pc |-> "send", msg |-> m, agent |-> a,
                                             todo |-> listener[n].todo \ {a}]]
    BY <1>0, <1>2, <2>1, <2>2, <2>3 DEF TryDeliver, IsLocal
  <2>5. listener'[n].pc = "send" /\ listener'[n].msg = m /\ listener'[n].agent = a
    BY <1>0, <2>4 DEF TypeOK, ListenerType
  <2> QED
    BY <2>5 DEF OnItsWay
<1>3. ASSUME NEW k \in Nodes, ListenerStep(k), ~TryDeliver(n) PROVE listener'[n] = listener[n]
  BY <1>0, <1>3 DEF ListenerStep, ReceiveFromPubsub, TryDeliver, SendFindsNothing, SendFrame,
     SendFailed, TypeOK, ListenerType
<1>4. ASSUME NEW s \in Socks, HandlerStep(s) \/ ClientStep(s) \/ SockFault(s)
      PROVE  listener'[n] = listener[n]
  BY <1>4, SockStepFrame
<1>5. ASSUME NEW k \in Nodes, NodeFault(k) PROVE FALSE
  BY <1>5, KeptNodeStep
<1>6. CASE UNCHANGED vars
  BY <1>1, <1>6 DEF vars
<1> QED
  BY <1>1, <1>2, <1>3, <1>4, <1>5, <1>6 DEF Next

\* Only _persist_message makes a row.
LEMMA StoredBy ==
    ASSUME TypeOK, AckInv, [Next]_vars, NEW m \in Messages, status[m] = "none", status'[m] # "none"
    PROVE  \E s \in Socks : handler'[s].pc = "persisted" /\ handler'[s].msg = m
<1>1. ASSUME NEW s \in Socks, CommitAck(s) PROVE status'[m] = status[m]
  BY <1>1 DEF CommitAck, AckInv, TypeOK, DbType
<1>2. ASSUME NEW s \in Socks, HandlerStep(s) \/ ClientStep(s) \/ SockFault(s),
             ~PersistMessage(s), ~CommitAck(s)
      PROVE  UNCHANGED status
  BY <1>2 DEF HandlerStep, Accept, Register, EnterGroups, HandlerExits, Publish, CountAcks,
     ClientStep, CheckDuplicate, ClientDrops, CountRecipients, JoinGroup, LeaveGroup,
     SockFault, HandlerRaises, RegisterRaises, dbVars
<1>3. ASSUME NEW n \in Nodes, ListenerStep(n) \/ NodeFault(n) PROVE UNCHANGED status
  BY <1>3 DEF ListenerStep, ReceiveFromPubsub, TryDeliver, SendFindsNothing, SendFrame, SendFailed,
     NodeFault, ListenerRaises, ListenerDies, NodeCrashes, NodeRestarts, dbVars
<1>4. PICK s \in Socks : PersistMessage(s)
  BY <1>1, <1>2, <1>3 DEF Next, vars, dbVars
<1>5. handler[s].msg = m /\ handler' = [handler EXCEPT ![s].pc = "persisted"]
  BY <1>4 DEF PersistMessage, TypeOK, DbType
<1>6. handler'[s].pc = "persisted" /\ handler'[s].msg = m
  BY <1>5 DEF TypeOK, HandlerType
<1> QED
  BY <1>6

LEMMA StoredStep ==
    ASSUME NothingFails, KeptTypes, AckInv, AddressInv, StoredIsOnItsWay, [Next]_vars
    PROVE  StoredIsOnItsWay'
<1> SUFFICES ASSUME NEW m \in Messages, NEW r \in InitReady \cap open',
                    ~IsGroup(m), status'[m] # "none", To[m] = AgentOf[r]
             PROVE  OnItsWay(m, NodeOf[r])' \/ Received(m, r)'
  BY DEF StoredIsOnItsWay
<1>0. TypeOK /\ r \in Socks /\ r \in InitReady \cap open /\ NodeOf[r] \in Nodes
  BY KeptStep, DeliveryAssumption DEF KeptTypes
<1>1. CASE status[m] = "none"
  BY <1>0, <1>1, StoredBy DEF OnItsWay
<1>2. CASE status[m] # "none"
  <2>1. OnItsWay(m, NodeOf[r]) \/ Received(m, r)
    BY <1>0, <1>2 DEF StoredIsOnItsWay
  <2>2. CASE Received(m, r)
    BY <1>0, <2>2, Onward
  <2>3. CASE \E s \in Socks : handler[s].pc = "persisted" /\ handler[s].msg = m
    BY <1>0, <2>3, WayOfHandler
  <2>4. CASE \E i \in 1..Len(inbox[NodeOf[r]]) : inbox[NodeOf[r]][i] = m
    BY <1>0, <2>4, WayOfQueue
  <2>5. CASE /\ listener[NodeOf[r]].msg = m
             /\ listener[NodeOf[r]].pc = "loop" /\ To[m] \in listener[NodeOf[r]].todo
    BY <1>0, <1>2, <2>5, WayOfListener
  <2>6. CASE /\ listener[NodeOf[r]].msg = m
             /\ listener[NodeOf[r]].pc = "send" /\ listener[NodeOf[r]].agent = To[m]
    BY <1>0, <2>6, SendIsReceived DEF OnItsWay
  <2> QED
    BY <2>1, <2>2, <2>3, <2>4, <2>5, <2>6 DEF OnItsWay
<1> QED
  BY <1>1, <1>2

\* With no failing transaction, subscription or node, a stored direct message is in
\* some handler's, queue's or listener's hands until each connection that its addressee
\* has kept since before it has received it, whatever other connections the addressee has
\* (message_router.py: route, deliver_from_pubsub; redis_pubsub.py; connection_manager.py).
THEOREM NothingStoredIsLost == ASSUME NothingFails PROVE Spec => []StoredIsOnItsWay
<1> DEFINE Inv == KeptTypes /\ StoredIsOnItsWay
<1>1. Init => Inv
  <2> SUFFICES ASSUME Init PROVE Inv
    OBVIOUS
  <2> USE DeliveryAssumption
  <2>1. TypeOK /\ EntryInv
    BY InitType, InitialEntry DEF EntryInv
  <2>2. /\ \A s \in Socks : handler[s].pc = IF s \in InitReady THEN "ready" ELSE "new"
        /\ \A n \in Nodes : listener[n].pc = "idle"
        /\ agents = {AgentOf[s] : s \in InitReady}
        /\ \A m \in Messages : status[m] = "none"
    BY DEF Init, Ready, NewHandler, IdleListener
  <2>3. RunningInv
    BY <2>2, InitialEntry DEF RunningInv
  <2>4. ASSUME NEW r \in InitReady PROVE conns[NodeOf[r]][AgentOf[r]] = r
    <3>1. r \in Socks /\ NodeOf[r] \in Nodes /\ AgentOf[r] \in Agents
      OBVIOUS
    <3>2. conns[NodeOf[r]][AgentOf[r]] =
             CHOOSE s \in InitReady : NodeOf[s] = NodeOf[r] /\ AgentOf[s] = AgentOf[r]
      BY <3>1 DEF Init
    <3> QED
      BY <3>2
  <2>5. KeptInv
    BY <2>2, <2>4 DEF KeptInv, Kept
  <2> QED
    BY <2>1, <2>2, <2>3, <2>5 DEF KeptTypes, StoredIsOnItsWay
<1>2. AckInv /\ AddressInv /\ Inv /\ [Next]_vars => Inv'
  BY KeptStep, StoredStep
<1> QED
  BY <1>1, <1>2, MappedRest, PTL DEF Spec
=============================================================================
