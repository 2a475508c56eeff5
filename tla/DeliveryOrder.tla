---------------------------- MODULE DeliveryOrder ----------------------------
(* The order in which Delivery hands messages over, whom it turns away, and how  *)
(* often it hands a message to an agent that keeps to one node, for all values   *)
(* of its constants.                                                             *)
EXTENDS DeliveryProofs

\* What a node's table of connections holds, whatever fails.
EntryInv ==
    \A n \in Nodes, a \in Agents : conns[n][a] # None =>
        NodeOf[conns[n][a]] = n /\ AgentOf[conns[n][a]] = a

\* Where no transaction fails, an entry never outlives its endpoint.
RunningInv ==
    \A n \in Nodes, a \in Agents : conns[n][a] # None =>
        handler[conns[n][a]].pc \notin {"new", "checked", "gone"}

LEMMA InitialEntry ==
    ASSUME Init, NEW n \in Nodes, NEW a \in Agents, conns[n][a] # None
    PROVE  conns[n][a] \in InitReady /\ NodeOf[conns[n][a]] = n /\ AgentOf[conns[n][a]] = a
<1> DEFINE S == {s \in InitReady : NodeOf[s] = n /\ AgentOf[s] = a}
<1>1. conns[n][a] = IF \E s \in InitReady : NodeOf[s] = n /\ AgentOf[s] = a
                    THEN CHOOSE s \in InitReady : NodeOf[s] = n /\ AgentOf[s] = a ELSE None
  BY DEF Init
<1>2. PICK s \in InitReady : NodeOf[s] = n /\ AgentOf[s] = a
  BY <1>1
<1> QED
  BY <1>1, <1>2

\* What a step does to one entry of a table.
LEMMA EntryMoves ==
    ASSUME TypeOK, [Next]_vars, NEW n \in Nodes, NEW a \in Agents
    PROVE  \/ conns'[n][a] = conns[n][a]
           \/ conns'[n][a] = None
           \/ \E s \in Socks : Accept(s) /\ NodeOf[s] = n /\ AgentOf[s] = a /\ conns'[n][a] = s
<1> USE DeliveryAssumption DEF TypeOK, NodeType
<1>1. ASSUME NEW s \in Socks, Accept(s)
      PROVE  conns'[n][a] = conns[n][a] \/ (NodeOf[s] = n /\ AgentOf[s] = a /\ conns'[n][a] = s)
  BY <1>1 DEF Accept
<1>2. ASSUME NEW s \in Socks, HandlerExits(s)
      PROVE  conns'[n][a] = conns[n][a] \/ conns'[n][a] = None
  BY <1>2 DEF HandlerExits, Popped
<1>3. ASSUME NEW s \in Socks, HandlerStep(s) \/ ClientStep(s) \/ SockFault(s),
             ~Accept(s), ~HandlerExits(s)
      PROVE  UNCHANGED conns
  BY <1>3 DEF HandlerStep, Register, EnterGroups, PersistMessage, Publish, CountAcks, CommitAck,
     ClientStep, CheckDuplicate, ClientDrops, CountRecipients, JoinGroup, LeaveGroup,
     SockFault, HandlerRaises, RegisterRaises
<1>4. ASSUME NEW k \in Nodes, SendFailed(k)
      PROVE  conns'[n][a] = conns[n][a] \/ conns'[n][a] = None
  BY <1>4 DEF SendFailed, Popped
<1>5. ASSUME NEW k \in Nodes, NodeCrashes(k)
      PROVE  conns'[n][a] = conns[n][a] \/ conns'[n][a] = None
  BY <1>5 DEF NodeCrashes
<1>6. ASSUME NEW k \in Nodes, ListenerStep(k) \/ NodeFault(k), ~SendFailed(k), ~NodeCrashes(k)
      PROVE  UNCHANGED conns
  BY <1>6 DEF ListenerStep, ReceiveFromPubsub, TryDeliver, SendFindsNothing, SendFrame,
     NodeFault, ListenerRaises, ListenerDies, NodeRestarts
<1>7. CASE UNCHANGED vars
  BY <1>7 DEF vars
<1>8. CASE \E s \in Socks : HandlerStep(s) \/ ClientStep(s) \/ SockFault(s)
  BY <1>1, <1>2, <1>3, <1>8
<1>9. CASE \E k \in Nodes : ListenerStep(k) \/ NodeFault(k)
  BY <1>4, <1>5, <1>6, <1>9
<1> QED
  BY <1>7, <1>8, <1>9 DEF Next

LEMMA EntryStep == TypeOK /\ EntryInv /\ [Next]_vars => EntryInv'
  BY EntryMoves DEF EntryInv

\* An endpoint stays in its loop until it exits, and then takes its entry along;
\* so does a node that crashes.
LEMMA RunningStep ==
    Faults = {} /\ TypeOK /\ EntryInv /\ RunningInv /\ [Next]_vars => RunningInv'
<1> SUFFICES ASSUME Faults = {}, TypeOK, EntryInv, RunningInv, [Next]_vars,
                    NEW n \in Nodes, NEW a \in Agents, conns'[n][a] # None
             PROVE  handler'[conns'[n][a]].pc \notin {"new", "checked", "gone"}
  BY DEF RunningInv
<1>0. conns \in [Nodes -> [Agents -> Socks \cup {None}]]
  BY DEF TypeOK, NodeType
<1>1. CASE conns'[n][a] # conns[n][a]
  <2>0. \/ conns'[n][a] = conns[n][a]
        \/ conns'[n][a] = None
        \/ \E s \in Socks : Accept(s) /\ NodeOf[s] = n /\ AgentOf[s] = a /\ conns'[n][a] = s
    BY EntryMoves
  <2>1. PICK s \in Socks : Accept(s) /\ conns'[n][a] = s
    BY <1>1, <2>0
  <2> QED
    BY <2>1 DEF Accept, TypeOK, HandlerType
<1>2. CASE conns'[n][a] = conns[n][a]
  <2>1. PICK r \in Socks : /\ r = conns[n][a] /\ NodeOf[r] = n /\ AgentOf[r] = a
                           /\ handler[r].pc \notin {"new", "checked", "gone"}
    BY <1>0, <1>2 DEF EntryInv, RunningInv
  <2>2. ASSUME NEW s \in Socks, HandlerStep(s)
        PROVE  handler'[r].pc \notin {"new", "checked", "gone"}
    <3>1. CASE HandlerExits(s)
      <4>1. s # r
        BY <1>0, <1>2, <2>1, <3>1 DEF HandlerExits, Popped
      <4> QED
        BY <2>1, <3>1, <4>1 DEF HandlerExits, TypeOK, HandlerType
    <3>2. CASE ~HandlerExits(s)
      BY <2>1, <2>2, <3>2 DEF HandlerStep, Accept, Register, EnterGroups, PersistMessage, Publish,
         CountAcks, CommitAck, Ready, TypeOK, HandlerType
    <3> QED
      BY <3>1, <3>2
  <2>3. ASSUME NEW s \in Socks, ClientStep(s) \/ SockFault(s)
        PROVE  handler'[r].pc \notin {"new", "checked", "gone"}
    <3>1. ~SockFault(s)
      BY DEF SockFault, HandlerRaises, RegisterRaises
    <3>2. CASE CheckDuplicate(s)
      <4>1. s # r
        BY <2>1, <3>2 DEF CheckDuplicate
      <4> QED
        BY <2>1, <3>2, <4>1 DEF CheckDuplicate, TypeOK, HandlerType
    <3>3. CASE \E m \in Messages : CountRecipients(s, m)
      BY <2>1, <3>3 DEF CountRecipients, TypeOK, HandlerType
    <3>4. CASE ~CheckDuplicate(s) /\ ~\E m \in Messages : CountRecipients(s, m)
      BY <2>1, <2>3, <3>1, <3>4 DEF ClientStep, ClientDrops, JoinGroup, LeaveGroup, sockVars
    <3> QED
      BY <3>2, <3>3, <3>4
  <2>4. ASSUME NEW k \in Nodes, ListenerStep(k) \/ NodeFault(k)
        PROVE  handler'[r].pc \notin {"new", "checked", "gone"}
    <3>1. CASE NodeCrashes(k)
      <4>1. k # n
        BY <1>0, <1>2, <2>1, <3>1 DEF NodeCrashes
      <4> QED
        BY <2>1, <3>1, <4>1 DEF NodeCrashes
    <3>2. CASE ~NodeCrashes(k)
      BY <2>1, <2>4, <3>2 DEF ListenerStep, ReceiveFromPubsub, TryDeliver, SendFindsNothing,
         SendFrame, SendFailed, NodeFault, ListenerRaises, ListenerDies, NodeRestarts, sockVars
    <3> QED
      BY <3>1, <3>2
  <2>5. ASSUME UNCHANGED vars
        PROVE  handler'[r].pc \notin {"new", "checked", "gone"}
    BY <2>1, <2>5 DEF vars, sockVars
  <2>6. handler'[r].pc \notin {"new", "checked", "gone"}
    BY <2>2, <2>3, <2>4, <2>5 DEF Next
  <2> QED
    BY <1>2, <2>1, <2>6
<1> QED
  BY <1>1, <1>2

\* ConnectionManager.connect rejects a connection only while another endpoint of
\* the agent runs on the node. With a failing register that is not so: main.py:272
\* is outside the try statement.
THEOREM OnlyDuplicatesAreRejected ==
    ASSUME Faults = {} PROVE Spec => RejectedOnlyIfDuplicate
<1> DEFINE Inv == TypeOK /\ EntryInv /\ RunningInv
           Rejected ==
             \A s \in Socks :
                handler[s].pc = "new" /\ handler'[s].pc = "gone" =>
                    \E r \in Socks \ {s} :
                        /\ NodeOf[r] = NodeOf[s] /\ AgentOf[r] = AgentOf[s]
                        /\ handler[r].pc \notin {"new", "checked", "gone"}
<1>1. Init => Inv
  <2> SUFFICES ASSUME Init PROVE EntryInv /\ RunningInv
    BY InitType
  <2>1. EntryInv
    BY InitialEntry DEF EntryInv
  <2>2. \A s \in InitReady : handler[s].pc = "ready"
    BY DeliveryAssumption DEF Init, Ready
  <2>3. RunningInv
    BY <2>2, InitialEntry DEF RunningInv
  <2> QED
    BY <2>1, <2>3
<1>2. Inv /\ [Next]_vars => Inv'
  BY TypeStep, EntryStep, RunningStep
<1>3. Inv /\ [Next]_vars => [Rejected]_vars
  <2> SUFFICES ASSUME Inv, [Next]_vars, NEW s \in Socks,
                      handler[s].pc = "new", handler'[s].pc = "gone"
               PROVE  \E r \in Socks \ {s} :
                        /\ NodeOf[r] = NodeOf[s] /\ AgentOf[r] = AgentOf[s]
                        /\ handler[r].pc \notin {"new", "checked", "gone"}
    OBVIOUS
  <2> USE DEF TypeOK, HandlerType
  <2>1. ASSUME NEW k \in Nodes, ListenerStep(k) \/ NodeFault(k) PROVE FALSE
    <3>1. handler'[s] = handler[s]
      BY <2>1 DEF ListenerStep, ReceiveFromPubsub, TryDeliver, SendFindsNothing,
         SendFrame, SendFailed, NodeFault, ListenerRaises, ListenerDies, NodeRestarts, NodeCrashes,
         sockVars
    <3> QED
      BY <3>1
  <2>2. ASSUME NEW t \in Socks, HandlerStep(t) \/ SockFault(t) PROVE FALSE
    BY <2>2 DEF HandlerStep, Accept, Register, EnterGroups, HandlerExits, PersistMessage, Publish,
       CountAcks, CommitAck, SockFault, HandlerRaises, RegisterRaises, Ready, Gone
  <2>3. handler' # handler
    OBVIOUS
  <2>4. PICK t \in Socks : ClientStep(t)
    BY <2>1, <2>2, <2>3 DEF Next, vars, sockVars
  <2>5. CheckDuplicate(s) /\ IsLocal(NodeOf[s], AgentOf[s])
    BY <2>4 DEF ClientStep, CheckDuplicate, ClientDrops, CountRecipients, JoinGroup, LeaveGroup,
       sockVars
  <2> DEFINE r == conns[NodeOf[s]][AgentOf[s]]
  <2>6. /\ r \in Socks /\ NodeOf[r] = NodeOf[s] /\ AgentOf[r] = AgentOf[s]
        /\ handler[r].pc \notin {"new", "checked", "gone"}
    BY <2>5, DeliveryAssumption DEF IsLocal, EntryInv, RunningInv, NodeType
  <2> QED
    BY <2>6
<1> QED
  BY <1>1, <1>2, <1>3, PTL DEF Spec, RejectedOnlyIfDuplicate
-----------------------------------------------------------------------------
(* Order. *)

\* The pairs of messages of which the first was sent on no connection as late as
\* the second.
Before ==
    {p \in Messages \X Messages :
        \A s \in Socks : \A k, l \in 1..Len(sentOn[s]) :
            sentOn[s][k] = p[1] /\ sentOn[s][l] = p[2] => k < l}

\* The endpoint s routes m and has not published it.
Routing(s, m) == handler[s].pc \in {"counted", "persisted"} /\ handler[s].msg = m

Published == {m \in Messages : Sent(m) /\ \A s \in Socks : ~Routing(s, m)}

\* The agents a listener may still send its message to.
Awaits(n) ==
    IF listener[n].pc \in {"loop", "failed"} THEN listener[n].todo
    ELSE IF listener[n].pc = "send" THEN listener[n].todo \cup {listener[n].agent}
    ELSE {}

\* A message is sent once, and an endpoint routes the last one it has read.
RoutingInv ==
    /\ \A s, r \in Socks : \A k \in 1..Len(sentOn[s]), l \in 1..Len(sentOn[r]) :
          sentOn[s][k] = sentOn[r][l] => s = r /\ k = l
    /\ \A s \in Socks : handler[s].pc \in {"counted", "persisted"} =>
          sentOn[s] # <<>> /\ handler[s].msg = sentOn[s][Len(sentOn[s])]

\* A listener does not come back to the agent it sends to.
TodoInv == \A n \in Nodes : listener[n].pc = "send" => listener[n].agent \notin listener[n].todo

\* Only published messages are on a node.
PipeInv(n) ==
    /\ \A j \in 1..Len(inbox[n]) : inbox[n][j] \in Published
    /\ Awaits(n) # {} => listener[n].msg \in Published
    /\ \A r \in Socks : NodeOf[r] = n => \A i \in 1..Len(got[r]) : got[r][i] \in Published

\* What a client has got was before what the listener has in hand for it, and that
\* before what Redis has queued.
OrderInv(n) ==
    /\ \A i, j \in 1..Len(inbox[n]) : i < j => <<inbox[n][i], inbox[n][j]>> \in Before
    /\ Awaits(n) # {} => \A j \in 1..Len(inbox[n]) : <<listener[n].msg, inbox[n][j]>> \in Before
    /\ \A r \in Socks : NodeOf[r] = n =>
          /\ \A i \in 1..Len(got[r]), j \in 1..Len(inbox[n]) : <<got[r][i], inbox[n][j]>> \in Before
          /\ AgentOf[r] \in Awaits(n) => \A i \in 1..Len(got[r]) : <<got[r][i], listener[n].msg>> \in Before
          /\ \A i, j \in 1..Len(got[r]) : i < j => <<got[r][i], got[r][j]>> \in Before

FifoInv ==
    /\ TypeOK /\ EntryInv /\ RoutingInv /\ TodoInv
    /\ \A n \in Nodes : PipeInv(n) /\ OrderInv(n)

-----------------------------------------------------------------------------
(* The senders' side. *)

\* Routing of a message never begins again.
LEMMA SentMoves ==
    ASSUME TypeOK, [Next]_vars
    PROVE  \/ /\ UNCHANGED sentOn
              /\ \A s \in Socks : \/ handler'[s].pc \notin {"counted", "persisted"}
                                  \/ /\ handler[s].pc \in {"counted", "persisted"}
                                     /\ handler'[s].msg = handler[s].msg
           \/ \E s \in Socks, m \in Messages : CountRecipients(s, m)
<1> USE DEF TypeOK, HandlerType
<1>1. ASSUME NEW s \in Socks, HandlerStep(s) \/ ClientStep(s) \/ SockFault(s),
             ~\E m \in Messages : CountRecipients(s, m)
      PROVE  /\ UNCHANGED sentOn
             /\ \A r \in Socks : \/ handler'[r].pc \notin {"counted", "persisted"}
                                 \/ /\ handler[r].pc \in {"counted", "persisted"}
                                    /\ handler'[r].msg = handler[r].msg
  <2>1. CASE HandlerStep(s)
    BY <2>1 DEF HandlerStep, Accept, Register, EnterGroups, HandlerExits, PersistMessage,
       Publish, CountAcks, CommitAck, Ready, Gone
  <2>2. CASE ClientStep(s)
    BY <1>1, <2>2 DEF ClientStep, CheckDuplicate, ClientDrops, JoinGroup, LeaveGroup, sockVars
  <2>3. CASE SockFault(s)
    BY <2>3 DEF SockFault, HandlerRaises, RegisterRaises, Ready, Gone
  <2> QED
    BY <1>1, <2>1, <2>2, <2>3
<1>2. ASSUME NEW n \in Nodes, ListenerStep(n) \/ NodeFault(n)
      PROVE  /\ UNCHANGED sentOn
             /\ \A r \in Socks : handler'[r] = handler[r] \/ handler'[r].pc = "gone"
  <2>1. CASE NodeCrashes(n)
    BY <2>1 DEF NodeCrashes, Gone
  <2>2. CASE ~NodeCrashes(n)
    BY <1>2, <2>2 DEF ListenerStep, ReceiveFromPubsub, TryDeliver, SendFindsNothing, SendFrame,
       SendFailed, NodeFault, ListenerRaises, ListenerDies, NodeRestarts, sockVars
  <2> QED
    BY <2>1, <2>2
<1>3. CASE UNCHANGED vars
  BY <1>3 DEF vars, sockVars
<1>4. CASE \E n \in Nodes : ListenerStep(n) \/ NodeFault(n)
  BY <1>2, <1>4
<1>5. CASE \E s \in Socks : HandlerStep(s) \/ ClientStep(s) \/ SockFault(s)
  BY <1>1, <1>5
<1> QED
  BY <1>3, <1>4, <1>5 DEF Next

\* What CountRecipients appends.
LEMMA Appended ==
    ASSUME TypeOK, NEW s \in Socks, NEW m \in Messages, CountRecipients(s, m)
    PROVE  /\ ~Sent(m)
           /\ Len(sentOn'[s]) = Len(sentOn[s]) + 1 /\ sentOn'[s][Len(sentOn[s]) + 1] = m
           /\ \A k \in 1..Len(sentOn[s]) : sentOn'[s][k] = sentOn[s][k]
           /\ \A r \in Socks \ {s} : sentOn'[r] = sentOn[r] /\ handler'[r] = handler[r]
           /\ \A r \in Socks : Len(sentOn[r]) \in Nat
           /\ handler'[s].pc = "counted" /\ handler'[s].msg = m /\ handler[s].pc = "ready"
  BY DEF CountRecipients, TypeOK, ClientType, HandlerType

LEMMA RoutingStep == TypeOK /\ RoutingInv /\ [Next]_vars => RoutingInv'
<1> SUFFICES ASSUME TypeOK, RoutingInv, [Next]_vars PROVE RoutingInv'
  OBVIOUS
<1>1. ASSUME NEW s \in Socks, NEW m \in Messages, CountRecipients(s, m) PROVE RoutingInv'
  <2> DEFINE L == Len(sentOn[s]) + 1
  <2>1. /\ \A r \in Socks : Len(sentOn[r]) \in Nat
        /\ Len(sentOn'[s]) = L /\ sentOn'[s][L] = m
        /\ \A r \in Socks : \A k \in 1..Len(sentOn'[r]) :
              \/ r = s /\ k = L
              \/ k \in 1..Len(sentOn[r]) /\ sentOn'[r][k] = sentOn[r][k] /\ sentOn[r][k] # m
    <3>1. \A r \in Socks : \A k \in 1..Len(sentOn[r]) : sentOn[r][k] # m
      BY <1>1, Appended DEF Sent
    <3> QED
      BY <1>1, <3>1, Appended
  <2>2. /\ handler'[s].msg = m /\ \A r \in Socks \ {s} : handler'[r] = handler[r]
        /\ \A r \in Socks \ {s} : sentOn'[r] = sentOn[r]
    BY <1>1, Appended
  <2>3. sentOn'[s] # <<>>
    BY <2>1
  <2> HIDE DEF L
  <2>4. \A q, r \in Socks : \A k \in 1..Len(sentOn'[q]), l \in 1..Len(sentOn'[r]) :
          sentOn'[q][k] = sentOn'[r][l] => q = r /\ k = l
    <3> SUFFICES ASSUME NEW q \in Socks, NEW r \in Socks, NEW k \in 1..Len(sentOn'[q]),
                        NEW l \in 1..Len(sentOn'[r]), sentOn'[q][k] = sentOn'[r][l]
                 PROVE  q = r /\ k = l
      OBVIOUS
    <3>1. CASE q = s /\ k = L
      BY <2>1, <3>1
    <3>2. CASE r = s /\ l = L
      BY <2>1, <3>2
    <3>3. CASE ~(q = s /\ k = L) /\ ~(r = s /\ l = L)
      BY <2>1, <3>3 DEF RoutingInv
    <3> QED
      BY <3>1, <3>2, <3>3
  <2>5. \A r \in Socks : handler'[r].pc \in {"counted", "persisted"} =>
          sentOn'[r] # <<>> /\ handler'[r].msg = sentOn'[r][Len(sentOn'[r])]
    BY <2>1, <2>2, <2>3 DEF RoutingInv
  <2> QED
    BY <2>4, <2>5 DEF RoutingInv
<1>2. CASE ~\E s \in Socks, m \in Messages : CountRecipients(s, m)
  BY <1>2, SentMoves DEF RoutingInv
<1> QED
  BY <1>1, <1>2

\* What is published stays published, and nothing is sent before it any more.
LEMMA PublishedStays ==
    ASSUME TypeOK, [Next]_vars, NEW x, x \in Published
    PROVE  x \in Published' /\ \A y : <<x, y>> \in Before => <<x, y>> \in Before'
<1>1. ASSUME NEW s \in Socks, NEW m \in Messages, CountRecipients(s, m)
      PROVE  x \in Published' /\ \A y : <<x, y>> \in Before => <<x, y>> \in Before'
  <2>1. x # m
    BY <1>1, Appended DEF Published
  <2>2. Sent(x)'
    BY <1>1, Appended DEF Published, Sent
  <2>3. \A r \in Socks : ~Routing(r, x)'
    BY <1>1, <2>1, Appended DEF Published, Routing
  <2>4. ASSUME NEW y, <<x, y>> \in Before PROVE <<x, y>> \in Before'
    <3> SUFFICES ASSUME NEW r \in Socks, NEW k \in 1..Len(sentOn'[r]), NEW l \in 1..Len(sentOn'[r]),
                        sentOn'[r][k] = x, sentOn'[r][l] = y
                 PROVE  k < l
      BY <2>4 DEF Before
    <3>1. CASE r # s
      BY <1>1, <2>4, <3>1, Appended DEF Before
    <3>2. CASE r = s
      <4>1. k \in 1..Len(sentOn[s]) /\ sentOn[s][k] = x
        BY <1>1, <2>1, <3>2, Appended
      <4>2. CASE l = Len(sentOn[s]) + 1
        BY <1>1, <4>1, <4>2, Appended
      <4>3. CASE l # Len(sentOn[s]) + 1
        <5>1. l \in 1..Len(sentOn[s]) /\ sentOn[s][l] = y
          BY <1>1, <3>2, <4>3, Appended
        <5> QED
          BY <2>4, <4>1, <5>1 DEF Before
      <4> QED
        BY <4>2, <4>3
    <3> QED
      BY <3>1, <3>2
  <2> QED
    BY <2>2, <2>3, <2>4 DEF Published
<1>2. CASE ~\E s \in Socks, m \in Messages : CountRecipients(s, m)
  BY <1>2, SentMoves DEF Published, Sent, Routing, Before
<1> QED
  BY <1>1, <1>2

\* A message that an endpoint publishes comes after everything published before it.
LEMMA PublishedLast ==
    ASSUME TypeOK, RoutingInv, NEW s \in Socks, Publish(s), NEW m, m = handler[s].msg
    PROVE  m \in Published' /\ \A x : x \in Published => <<x, m>> \in Before
<1> DEFINE L == Len(sentOn[s])
<1>0. m \in Messages
  BY DEF Publish, TypeOK, HandlerType
<1>1. /\ sentOn[s] # <<>> /\ m = sentOn[s][L] /\ Routing(s, m) /\ UNCHANGED sentOn
      /\ handler' = [handler EXCEPT ![s] = Ready]
  BY DEF Publish, RoutingInv, Routing
<1>2. L \in Nat /\ L \in 1..L /\ \A r \in Socks : Len(sentOn[r]) \in Nat
  BY <1>1 DEF TypeOK, ClientType
<1>3. \A r \in Socks : \A l \in 1..Len(sentOn[r]) : sentOn[r][l] = m => r = s /\ l = L
  BY <1>1, <1>2 DEF RoutingInv
<1>4. \A r \in Socks : Routing(r, m) => r = s
  <2> SUFFICES ASSUME NEW r \in Socks, Routing(r, m) PROVE r = s
    OBVIOUS
  <2>1. sentOn[r] # <<>> /\ sentOn[r][Len(sentOn[r])] = m /\ sentOn[r] \in Seq(Messages)
    BY DEF Routing, RoutingInv, TypeOK, ClientType
  <2>2. Len(sentOn[r]) \in 1..Len(sentOn[r])
    BY <2>1
  <2> QED
    BY <1>3, <2>1, <2>2
<1> HIDE DEF L
<1>5. m \in Published'
  <2>1. Sent(m)'
    BY <1>1, <1>2 DEF Sent, L
  <2>2. \A r \in Socks : ~(handler'[r].pc \in {"counted", "persisted"} /\ handler'[r].msg = m)
    BY <1>1, <1>4 DEF Routing, Ready, TypeOK, HandlerType
  <2> QED
    BY <1>0, <2>1, <2>2 DEF Published, Routing
<1>6. ASSUME NEW x, x \in Published PROVE <<x, m>> \in Before
  <2>1. x # m
    BY <1>1, <1>6 DEF Published
  <2> SUFFICES ASSUME NEW r \in Socks, NEW k \in 1..Len(sentOn[r]), NEW l \in 1..Len(sentOn[r]),
                      sentOn[r][k] = x, sentOn[r][l] = m
               PROVE  k < l
    BY <1>0, <1>6 DEF Before, Published
  <2>2. r = s /\ l = L
    BY <1>3
  <2>3. k # L
    BY <1>1, <2>1, <2>2
  <2> QED
    BY <1>2, <2>2, <2>3 DEF L
<1> QED
  BY <1>5, <1>6
-----------------------------------------------------------------------------
(* The receivers' side: what a step may do to one node. *)

GotSame(n) == \A r \in Socks : NodeOf[r] = n => got'[r] = got[r]

\* Nothing new reaches the node; its backlog may be lost.
Quiet(n) ==
    /\ inbox'[n] \in {inbox[n], <<>>} /\ GotSame(n)
    /\ Awaits(n)' \subseteq Awaits(n)
    /\ Awaits(n)' # {} => listener'[n].msg = listener[n].msg

\* The listener takes the next message.
Takes(n) ==
    /\ inbox[n] # <<>> /\ inbox'[n] = Tail(inbox[n]) /\ GotSame(n)
    /\ Awaits(n)' # {} => listener'[n].msg = Head(inbox[n])

\* Redis queues a message.
Queues(n, m) ==
    /\ inbox'[n] \in {inbox[n], Append(inbox[n], m)} /\ GotSame(n)
    /\ Awaits(n)' = Awaits(n) /\ listener'[n] = listener[n]

\* A client gets the message in hand.
Hands(n) ==
    \E s \in Socks :
        /\ NodeOf[s] = n /\ AgentOf[s] \in Awaits(n) /\ inbox'[n] = inbox[n]
        /\ got' = [got EXCEPT ![s] = Append(got[s], listener[n].msg)]
        /\ Awaits(n)' \subseteq Awaits(n) \ {AgentOf[s]}
        /\ Awaits(n)' # {} => listener'[n].msg = listener[n].msg

LEMMA QuietStep ==
    ASSUME FifoInv, [Next]_vars, NEW n \in Nodes, Quiet(n) PROVE PipeInv(n)' /\ OrderInv(n)'
<1>1. TypeOK /\ PipeInv(n) /\ OrderInv(n)
  BY DEF FifoInv
<1>2. \A x : x \in Published => x \in Published' /\ \A y : <<x, y>> \in Before => <<x, y>> \in Before'
  BY <1>1, PublishedStays
<1>3. \A j \in 1..Len(inbox'[n]) : j \in 1..Len(inbox[n]) /\ inbox'[n][j] = inbox[n][j]
  <2>1. Len(<<>>) = 0
    OBVIOUS
  <2> QED
    BY <2>1 DEF Quiet
<1>4. \A r \in Socks : NodeOf[r] = n => got'[r] = got[r]
  BY DEF Quiet, GotSame
<1>5. Awaits(n)' \subseteq Awaits(n) /\ (Awaits(n)' # {} => listener'[n].msg = listener[n].msg)
  BY DEF Quiet
<1>6. PipeInv(n)'
  BY <1>1, <1>2, <1>3, <1>4, <1>5 DEF PipeInv
<1>7. OrderInv(n)'
  <2>1. \A i, j \in 1..Len(inbox'[n]) : i < j => <<inbox'[n][i], inbox'[n][j]>> \in Before'
    BY <1>1, <1>2, <1>3 DEF PipeInv, OrderInv
  <2>2. Awaits(n)' # {} => \A j \in 1..Len(inbox'[n]) : <<listener'[n].msg, inbox'[n][j]>> \in Before'
    BY <1>1, <1>2, <1>3, <1>5 DEF PipeInv, OrderInv
  <2>3. ASSUME NEW r \in Socks, NodeOf[r] = n
        PROVE  /\ \A i \in 1..Len(got'[r]), j \in 1..Len(inbox'[n]) : <<got'[r][i], inbox'[n][j]>> \in Before'
               /\ AgentOf[r] \in Awaits(n)' =>
                    \A i \in 1..Len(got'[r]) : <<got'[r][i], listener'[n].msg>> \in Before'
               /\ \A i, j \in 1..Len(got'[r]) : i < j => <<got'[r][i], got'[r][j]>> \in Before'
    BY <1>1, <1>2, <1>3, <1>4, <1>5, <2>3 DEF PipeInv, OrderInv
  <2> QED
    BY <2>1, <2>2, <2>3 DEF OrderInv
<1> QED
  BY <1>6, <1>7

\* The listener takes the next message, and awaits those it is for.
LEMMA TakesStep ==
    ASSUME FifoInv, [Next]_vars, NEW n \in Nodes, Takes(n) PROVE PipeInv(n)' /\ OrderInv(n)'
<1>1. TypeOK /\ PipeInv(n) /\ OrderInv(n)
  BY DEF FifoInv
<1>2. \A x : x \in Published =>
         x \in Published' /\ \A y : <<x, y>> \in Before => <<x, y>> \in Before'
  BY <1>1, PublishedStays
<1>3. /\ inbox[n] \in Seq(Messages) /\ inbox[n] # <<>> /\ inbox'[n] = Tail(inbox[n])
      /\ Len(inbox[n]) \in Nat /\ 1 \in 1..Len(inbox[n]) /\ Head(inbox[n]) = inbox[n][1]
  BY <1>1 DEF Takes, TypeOK, NodeType
<1>4. \A j \in 1..Len(inbox'[n]) :
         j + 1 \in 1..Len(inbox[n]) /\ inbox'[n][j] = inbox[n][j + 1] /\ 1 < j + 1
  BY <1>3
<1>5. \A r \in Socks : NodeOf[r] = n => got'[r] = got[r]
  BY DEF Takes, GotSame
<1>6. Awaits(n)' # {} => listener'[n].msg = inbox[n][1]
  BY <1>3 DEF Takes
<1>7. PipeInv(n)'
  BY <1>1, <1>2, <1>3, <1>4, <1>5, <1>6 DEF PipeInv
<1>8. OrderInv(n)'
  <2>1. \A i, j \in 1..Len(inbox'[n]) : i < j => <<inbox'[n][i], inbox'[n][j]>> \in Before'
    <3> SUFFICES ASSUME NEW i \in 1..Len(inbox'[n]), NEW j \in 1..Len(inbox'[n]), i < j
                 PROVE  <<inbox'[n][i], inbox'[n][j]>> \in Before'
      OBVIOUS
    <3>1. i + 1 < j + 1
      OBVIOUS
    <3>2. <<inbox[n][i + 1], inbox[n][j + 1]>> \in Before
      BY <1>1, <1>4, <3>1 DEF OrderInv
    <3> QED
      BY <1>1, <1>2, <1>4, <3>2 DEF PipeInv
  <2>2. Awaits(n)' # {} => \A j \in 1..Len(inbox'[n]) : <<listener'[n].msg, inbox'[n][j]>> \in Before'
    BY <1>1, <1>2, <1>3, <1>4, <1>6 DEF PipeInv, OrderInv
  <2>3. ASSUME NEW r \in Socks, NodeOf[r] = n
        PROVE  /\ \A i \in 1..Len(got'[r]), j \in 1..Len(inbox'[n]) : <<got'[r][i], inbox'[n][j]>> \in Before'
               /\ AgentOf[r] \in Awaits(n)' =>
                    \A i \in 1..Len(got'[r]) : <<got'[r][i], listener'[n].msg>> \in Before'
               /\ \A i, j \in 1..Len(got'[r]) : i < j => <<got'[r][i], got'[r][j]>> \in Before'
    <3>1. \A i \in 1..Len(got'[r]), j \in 1..Len(inbox'[n]) : <<got'[r][i], inbox'[n][j]>> \in Before'
      <4> SUFFICES ASSUME NEW i \in 1..Len(got'[r]), NEW j \in 1..Len(inbox'[n])
                   PROVE  <<got'[r][i], inbox'[n][j]>> \in Before'
        OBVIOUS
      <4>1. got'[r] = got[r] /\ got[r][i] \in Published
        BY <1>1, <1>5, <2>3 DEF PipeInv
      <4>2. <<got[r][i], inbox[n][j + 1]>> \in Before
        BY <1>1, <1>4, <2>3, <4>1 DEF OrderInv
      <4> QED
        BY <1>2, <1>4, <4>1, <4>2
    <3>2. AgentOf[r] \in Awaits(n)' =>
             \A i \in 1..Len(got'[r]) : <<got'[r][i], listener'[n].msg>> \in Before'
      BY <1>1, <1>2, <1>3, <1>5, <1>6, <2>3 DEF PipeInv, OrderInv
    <3>3. \A i, j \in 1..Len(got'[r]) : i < j => <<got'[r][i], got'[r][j]>> \in Before'
      BY <1>1, <1>2, <1>5, <2>3 DEF PipeInv, OrderInv
    <3> QED
      BY <3>1, <3>2, <3>3
  <2> QED
    BY <2>1, <2>2, <2>3 DEF OrderInv
<1> QED
  BY <1>7, <1>8

LEMMA QueuesStep ==
    ASSUME FifoInv, [Next]_vars, NEW s \in Socks, NEW m \in Messages, Publish(s),
           m = handler[s].msg, NEW n \in Nodes, Queues(n, m)
    PROVE  PipeInv(n)' /\ OrderInv(n)'
<1>1. TypeOK /\ PipeInv(n) /\ OrderInv(n)
  BY DEF FifoInv
<1>2. \A x : x \in Published =>
         x \in Published' /\ \A y : <<x, y>> \in Before => <<x, y>> \in Before'
  BY <1>1, PublishedStays
<1>3. m \in Published' /\ \A x : x \in Published => <<x, m>> \in Before'
  BY <1>1, <1>2, PublishedLast DEF FifoInv
<1>4. inbox[n] \in Seq(Messages) /\ Len(inbox[n]) \in Nat
  BY <1>1 DEF TypeOK, NodeType
<1>5. \A j \in 1..Len(inbox'[n]) :
         \/ j \in 1..Len(inbox[n]) /\ inbox'[n][j] = inbox[n][j]
         \/ j = Len(inbox[n]) + 1 /\ inbox'[n][j] = m
  <2>1. CASE inbox'[n] = inbox[n]
    BY <2>1
  <2>2. CASE inbox'[n] = Append(inbox[n], m)
    BY <1>4, <2>2
  <2> QED
    BY <2>1, <2>2 DEF Queues
<1>6. \A r \in Socks : NodeOf[r] = n => got'[r] = got[r]
  BY DEF Queues, GotSame
<1>7. Awaits(n)' = Awaits(n) /\ listener'[n] = listener[n]
  BY DEF Queues
<1>8. PipeInv(n)'
  BY <1>1, <1>2, <1>3, <1>5, <1>6, <1>7 DEF PipeInv
<1>9. OrderInv(n)'
  <2>1. \A i, j \in 1..Len(inbox'[n]) : i < j => <<inbox'[n][i], inbox'[n][j]>> \in Before'
    <3> SUFFICES ASSUME NEW i \in 1..Len(inbox'[n]), NEW j \in 1..Len(inbox'[n]), i < j
                 PROVE  <<inbox'[n][i], inbox'[n][j]>> \in Before'
      OBVIOUS
    <3>1. i \in 1..Len(inbox[n]) /\ inbox'[n][i] = inbox[n][i] /\ inbox[n][i] \in Published
      BY <1>1, <1>4, <1>5 DEF PipeInv
    <3> QED
      BY <1>1, <1>2, <1>3, <1>5, <3>1 DEF OrderInv
  <2>2. Awaits(n)' # {} => \A j \in 1..Len(inbox'[n]) : <<listener'[n].msg, inbox'[n][j]>> \in Before'
    BY <1>1, <1>2, <1>3, <1>5, <1>7 DEF PipeInv, OrderInv
  <2>3. ASSUME NEW r \in Socks, NodeOf[r] = n
        PROVE  /\ \A i \in 1..Len(got'[r]), j \in 1..Len(inbox'[n]) : <<got'[r][i], inbox'[n][j]>> \in Before'
               /\ AgentOf[r] \in Awaits(n)' =>
                    \A i \in 1..Len(got'[r]) : <<got'[r][i], listener'[n].msg>> \in Before'
               /\ \A i, j \in 1..Len(got'[r]) : i < j => <<got'[r][i], got'[r][j]>> \in Before'
    BY <1>1, <1>2, <1>3, <1>5, <1>6, <1>7, <2>3 DEF PipeInv, OrderInv
  <2> QED
    BY <2>1, <2>2, <2>3 DEF OrderInv
<1> QED
  BY <1>8, <1>9

LEMMA HandsStep ==
    ASSUME FifoInv, [Next]_vars, NEW n \in Nodes, Hands(n) PROVE PipeInv(n)' /\ OrderInv(n)'
<1>1. TypeOK /\ PipeInv(n) /\ OrderInv(n)
  BY DEF FifoInv
<1>2. \A x : x \in Published =>
         x \in Published' /\ \A y : <<x, y>> \in Before => <<x, y>> \in Before'
  BY <1>1, PublishedStays
<1>3. PICK s \in Socks :
        /\ NodeOf[s] = n /\ AgentOf[s] \in Awaits(n) /\ inbox'[n] = inbox[n]
        /\ got' = [got EXCEPT ![s] = Append(got[s], listener[n].msg)]
        /\ Awaits(n)' \subseteq Awaits(n) \ {AgentOf[s]}
        /\ Awaits(n)' # {} => listener'[n].msg = listener[n].msg
  BY DEF Hands
<1>4. PICK m \in Published : m = listener[n].msg
  BY <1>1, <1>3 DEF PipeInv
<1>5. got \in [Socks -> Seq(Messages)] /\ m \in Messages
  BY <1>1, <1>4 DEF TypeOK, ClientType, Published
<1>6. /\ Len(got[s]) \in Nat
      /\ \A r \in Socks \ {s} : got'[r] = got[r]
      /\ \A i \in 1..Len(got'[s]) :
           \/ i \in 1..Len(got[s]) /\ got'[s][i] = got[s][i]
           \/ i = Len(got[s]) + 1 /\ got'[s][i] = m
  BY <1>3, <1>4, <1>5
<1>7. PipeInv(n)'
  BY <1>1, <1>2, <1>3, <1>4, <1>6 DEF PipeInv
<1>8. OrderInv(n)'
  <2>1. \A i, j \in 1..Len(inbox'[n]) : i < j => <<inbox'[n][i], inbox'[n][j]>> \in Before'
    BY <1>1, <1>2, <1>3 DEF PipeInv, OrderInv
  <2>2. Awaits(n)' # {} => \A j \in 1..Len(inbox'[n]) : <<listener'[n].msg, inbox'[n][j]>> \in Before'
    BY <1>1, <1>2, <1>3, <1>4 DEF PipeInv, OrderInv
  <2>3. ASSUME NEW r \in Socks, NodeOf[r] = n
        PROVE  /\ \A i \in 1..Len(got'[r]), j \in 1..Len(inbox'[n]) : <<got'[r][i], inbox'[n][j]>> \in Before'
               /\ AgentOf[r] \in Awaits(n)' =>
                    \A i \in 1..Len(got'[r]) : <<got'[r][i], listener'[n].msg>> \in Before'
               /\ \A i, j \in 1..Len(got'[r]) : i < j => <<got'[r][i], got'[r][j]>> \in Before'
    <3>1. CASE r # s
      BY <1>1, <1>2, <1>3, <1>6, <2>3, <3>1 DEF PipeInv, OrderInv
    <3>2. CASE r = s
      <4>1. \A i \in 1..Len(got'[s]), j \in 1..Len(inbox'[n]) : <<got'[s][i], inbox'[n][j]>> \in Before'
        BY <1>1, <1>2, <1>3, <1>4, <1>6 DEF PipeInv, OrderInv
      <4>2. AgentOf[s] \notin Awaits(n)'
        BY <1>3
      <4>3. ASSUME NEW i \in 1..Len(got'[s]), NEW j \in 1..Len(got'[s]), i < j
            PROVE  <<got'[s][i], got'[s][j]>> \in Before'
        <5>1. i \in 1..Len(got[s]) /\ got'[s][i] = got[s][i] /\ got[s][i] \in Published
          BY <1>1, <1>3, <1>6, <4>3 DEF PipeInv
        <5>2. <<got[s][i], m>> \in Before
          BY <1>1, <1>3, <1>4, <5>1 DEF OrderInv
        <5> QED
          BY <1>1, <1>2, <1>3, <1>6, <4>3, <5>1, <5>2 DEF OrderInv
      <4> QED
        BY <3>2, <4>1, <4>2, <4>3
    <3> QED
      BY <3>1, <3>2
  <2> QED
    BY <2>1, <2>2, <2>3 DEF OrderInv
<1> QED
  BY <1>7, <1>8
-----------------------------------------------------------------------------
(* The steps. *)

LEMMA ContinueAwaits ==
    ASSUME NEW m, NEW todo
    PROVE  /\ Continue(m, todo).pc \in {"idle", "loop"}
           /\ Continue(m, todo).pc = "loop" =>
                Continue(m, todo).todo = todo /\ Continue(m, todo).msg = m
  BY DEF Continue, IdleListener

\* The listener of n goes on with fewer agents to visit, or stops.
LEMMA LessToDo ==
    ASSUME TypeOK, NEW n \in Nodes, NEW m, NEW todo,
           listener' = [listener EXCEPT ![n] = Continue(m, todo)]
    PROVE  /\ Awaits(n)' \subseteq todo
           /\ Awaits(n)' # {} => listener'[n].msg = m
           /\ \A k \in Nodes \ {n} : listener'[k] = listener[k]
           /\ listener'[n].pc # "send"
<1>1. listener'[n] = Continue(m, todo) /\ \A k \in Nodes \ {n} : listener'[k] = listener[k]
  BY DEF TypeOK, ListenerType
<1> QED
  BY <1>1, ContinueAwaits DEF Awaits

LEMMA TryDeliverMoves ==
    ASSUME FifoInv, NEW n \in Nodes, TryDeliver(n)
    PROVE  /\ Quiet(n) /\ TodoInv' /\ UNCHANGED <<inbox, got>>
           /\ \A k \in Nodes \ {n} : listener'[k] = listener[k]
<1> DEFINE m == listener[n].msg
<1>1. listener[n].pc = "loop" /\ UNCHANGED <<inbox, got>> /\ TypeOK /\ TodoInv
  BY DEF TryDeliver, FifoInv
<1>2. GotSame(n) /\ inbox'[n] = inbox[n] /\ Awaits(n) = listener[n].todo
  BY <1>1 DEF GotSame, Awaits
<1>3. PICK a \in listener[n].todo :
        \/ listener' = [listener EXCEPT ![n] = Continue(m, listener[n].todo \ {a})]
        \/ listener' = [listener EXCEPT ![n] = IdleListener]
        \/ listener' = [listener EXCEPT ![n] = [pc |-> "send", msg |-> m, agent |-> a,
                                                todo |-> listener[n].todo \ {a}]]
  BY DEF TryDeliver
<1>4. CASE listener' = [listener EXCEPT ![n] = Continue(m, listener[n].todo \ {a})]
  <2>1. /\ Awaits(n)' \subseteq listener[n].todo \ {a}
        /\ Awaits(n)' # {} => listener'[n].msg = m
        /\ \A k \in Nodes \ {n} : listener'[k] = listener[k]
        /\ listener'[n].pc # "send"
    BY <1>1, <1>4, LessToDo
  <2> QED
    BY <1>1, <1>2, <2>1 DEF Quiet, TodoInv
<1>5. CASE listener' = [listener EXCEPT ![n] = IdleListener]
  <2>1. listener'[n].pc = "idle" /\ \A k \in Nodes \ {n} : listener'[k] = listener[k]
    BY <1>1, <1>5 DEF TypeOK, ListenerType, IdleListener
  <2>2. Awaits(n)' = {}
    BY <2>1 DEF Awaits
  <2> QED
    BY <1>1, <1>2, <2>1, <2>2 DEF Quiet, TodoInv
<1>6. CASE listener' = [listener EXCEPT ![n] = [pc |-> "send", msg |-> m, agent |-> a,
                                                todo |-> listener[n].todo \ {a}]]
  <2>1. /\ listener'[n].pc = "send" /\ listener'[n].msg = m /\ listener'[n].agent = a
        /\ listener'[n].todo = listener[n].todo \ {a}
        /\ \A k \in Nodes \ {n} : listener'[k] = listener[k]
    BY <1>1, <1>6 DEF TypeOK, ListenerType
  <2>2. Awaits(n)' \subseteq listener[n].todo
    BY <2>1 DEF Awaits
  <2> QED
    BY <1>1, <1>2, <2>1, <2>2 DEF Quiet, TodoInv
<1> QED
  BY <1>3, <1>4, <1>5, <1>6

LEMMA ReceiveMoves ==
    ASSUME FifoInv, NEW n \in Nodes, ReceiveFromPubsub(n)
    PROVE  /\ Takes(n) /\ TodoInv' /\ UNCHANGED got
           /\ \A k \in Nodes \ {n} : listener'[k] = listener[k] /\ inbox'[k] = inbox[k]
<1>1. /\ inbox[n] # <<>> /\ inbox' = [inbox EXCEPT ![n] = Tail(@)] /\ UNCHANGED got
      /\ TypeOK /\ TodoInv
  BY DEF ReceiveFromPubsub, FifoInv
<1>2. PICK todo : listener' = [listener EXCEPT ![n] = Continue(Head(inbox[n]), todo)]
  BY DEF ReceiveFromPubsub
<1>3. /\ Awaits(n)' # {} => listener'[n].msg = Head(inbox[n])
      /\ \A k \in Nodes \ {n} : listener'[k] = listener[k]
      /\ listener'[n].pc # "send"
  BY <1>1, <1>2, LessToDo
<1>4. inbox'[n] = Tail(inbox[n]) /\ \A k \in Nodes \ {n} : inbox'[k] = inbox[k]
  BY <1>1 DEF TypeOK, NodeType
<1> QED
  BY <1>1, <1>3, <1>4 DEF Takes, GotSame, TodoInv

LEMMA SendMoves ==
    ASSUME FifoInv, NEW n \in Nodes, SendFrame(n) \/ SendFindsNothing(n) \/ SendFailed(n)
    PROVE  /\ (Quiet(n) /\ UNCHANGED got) \/ Hands(n)
           /\ TodoInv' /\ UNCHANGED inbox
           /\ \A k \in Nodes \ {n} : listener'[k] = listener[k] /\ (got' = got \/ GotSame(k))
<1> DEFINE m == listener[n].msg
           todo == listener[n].todo
<1>1. /\ listener[n].pc \in {"send", "failed"} /\ UNCHANGED inbox /\ TypeOK /\ TodoInv
      /\ todo \subseteq Awaits(n)
  BY DEF SendFrame, SendFindsNothing, SendFailed, FifoInv, Awaits
\* The listener goes on, or it is about to take the connection out of the table.
<1>2. \/ listener' = [listener EXCEPT ![n] = Continue(m, todo)]
      \/ listener[n].pc = "send" /\ listener' = [listener EXCEPT ![n].pc = "failed"]
  BY DEF SendFrame, SendFindsNothing, SendFailed
<1>3. /\ Awaits(n)' \subseteq todo /\ (Awaits(n)' # {} => listener'[n].msg = m)
      /\ \A k \in Nodes \ {n} : listener'[k] = listener[k]
      /\ listener'[n].pc # "send"
  <2>1. CASE listener' = [listener EXCEPT ![n] = Continue(m, todo)]
    <3> HIDE DEF m, todo
    <3> QED
      BY <1>1, <2>1, LessToDo
  <2>2. CASE listener' = [listener EXCEPT ![n].pc = "failed"]
    <3>1. /\ listener'[n].pc = "failed" /\ listener'[n].msg = m /\ listener'[n].todo = todo
          /\ \A k \in Nodes \ {n} : listener'[k] = listener[k]
      BY <1>1, <2>2 DEF TypeOK, ListenerType
    <3> QED
      BY <3>1 DEF Awaits
  <2> QED
    BY <1>2, <2>1, <2>2
<1> HIDE DEF m, todo
<1>4. TodoInv'
  BY <1>1, <1>3 DEF TodoInv
<1>5. CASE UNCHANGED got
  BY <1>1, <1>3, <1>4, <1>5 DEF Quiet, GotSame, m
<1>6. CASE ~UNCHANGED got
  <2> DEFINE a == listener[n].agent
             s == conns[n][a]
  <2>1. /\ listener[n].pc = "send" /\ s # None /\ got' = [got EXCEPT ![s] = Append(got[s], m)]
    BY <1>6 DEF SendFrame, SendFindsNothing, SendFailed, IsLocal, m
  <2>2. a \in Agents /\ a \in Awaits(n) /\ a \notin todo
    BY <1>1, <2>1 DEF TypeOK, ListenerType, Awaits, TodoInv, todo
  <2>3. s \in Socks /\ NodeOf[s] = n /\ AgentOf[s] = a
    BY <1>1, <2>1, <2>2 DEF FifoInv, EntryInv, TypeOK, NodeType
  <2> HIDE DEF s
  <2>4. \A r \in Socks \ {s} : got'[r] = got[r]
    BY <1>1, <2>1, <2>3 DEF TypeOK, ClientType
  <2>5. Hands(n)
    BY <1>1, <1>3, <2>1, <2>2, <2>3 DEF Hands, m
  <2>6. \A k \in Nodes \ {n} : GotSame(k)
    BY <2>3, <2>4 DEF GotSame
  <2> QED
    BY <1>1, <1>3, <1>4, <2>5, <2>6
<1> QED
  BY <1>5, <1>6

\* A node that stands still.
LEMMA IdleNode ==
    ASSUME NEW n \in Nodes, listener'[n] = listener[n], inbox'[n] = inbox[n], GotSame(n)
    PROVE  Quiet(n)
  BY DEF Quiet, Awaits

LEMMA NodeFaultMoves ==
    ASSUME FifoInv, NEW n \in Nodes, NodeFault(n)
    PROVE  (\A k \in Nodes : Quiet(k)) /\ TodoInv'
<1>1. UNCHANGED got /\ TypeOK /\ TodoInv
  BY DEF NodeFault, ListenerRaises, ListenerDies, NodeCrashes, NodeRestarts, FifoInv
<1>2. /\ listener'[n].pc \in {"idle", "dead", "down"} /\ inbox'[n] \in {inbox[n], <<>>}
      /\ \A k \in Nodes \ {n} : listener'[k] = listener[k] /\ inbox'[k] = inbox[k]
  BY <1>1 DEF NodeFault, ListenerRaises, ListenerDies, NodeCrashes, NodeRestarts, IdleListener,
     TypeOK, ListenerType, NodeType
<1>3. Awaits(n)' = {}
  BY <1>2 DEF Awaits
<1>4. \A k \in Nodes : GotSame(k)
  BY <1>1 DEF GotSame
<1>5. Quiet(n)
  BY <1>2, <1>3, <1>4 DEF Quiet
<1>6. TodoInv'
  BY <1>1, <1>2 DEF TodoInv
<1> QED
  BY <1>2, <1>4, <1>5, <1>6, IdleNode

LEMMA SockMoves ==
    ASSUME FifoInv, NEW s \in Socks, HandlerStep(s) \/ ClientStep(s) \/ SockFault(s)
    PROVE  /\ UNCHANGED <<listener, got>>
           /\ UNCHANGED inbox \/ Publish(s)
<1>1. CASE HandlerStep(s)
  BY <1>1 DEF HandlerStep, Accept, Register, EnterGroups, HandlerExits, PersistMessage, Publish,
     CountAcks, CommitAck
<1>2. CASE ClientStep(s)
  BY <1>2 DEF ClientStep, CheckDuplicate, ClientDrops, CountRecipients, JoinGroup, LeaveGroup
<1>3. CASE SockFault(s)
  BY <1>3 DEF SockFault, HandlerRaises, RegisterRaises
<1> QED
  BY <1>1, <1>2, <1>3

LEMMA FifoStep == FifoInv /\ [Next]_vars => FifoInv'
<1> SUFFICES ASSUME FifoInv, [Next]_vars PROVE FifoInv'
  OBVIOUS
<1>0. TypeOK' /\ EntryInv' /\ RoutingInv'
  BY TypeStep, EntryStep, RoutingStep DEF FifoInv
<1>1. ASSUME NEW s \in Socks, HandlerStep(s) \/ ClientStep(s) \/ SockFault(s) PROVE FifoInv'
  <2>1. UNCHANGED <<listener, got>> /\ (UNCHANGED inbox \/ Publish(s))
    BY <1>1, SockMoves
  <2>2. TodoInv' /\ \A n \in Nodes : GotSame(n)
    BY <2>1 DEF FifoInv, TodoInv, GotSame
  <2>3. CASE UNCHANGED inbox
    BY <1>0, <2>1, <2>2, <2>3, IdleNode, QuietStep DEF FifoInv
  <2>4. CASE Publish(s)
    <3>1. PICK m \in Messages : m = handler[s].msg
      BY <2>4 DEF Publish, FifoInv, TypeOK, HandlerType
    <3>2. \A n \in Nodes : Queues(n, m)
      BY <2>1, <2>2, <2>4, <3>1 DEF Publish, Queues, Enqueue, Awaits
    <3> QED
      BY <1>0, <2>2, <2>4, <3>1, <3>2, QueuesStep DEF FifoInv
  <2> QED
    BY <2>1, <2>3, <2>4
<1>2. ASSUME NEW n \in Nodes, ListenerStep(n) PROVE FifoInv'
  <2>1. /\ Quiet(n) \/ Takes(n) \/ Hands(n)
        /\ TodoInv'
        /\ \A k \in Nodes \ {n} : listener'[k] = listener[k] /\ inbox'[k] = inbox[k] /\ GotSame(k)
    BY <1>2, TryDeliverMoves, ReceiveMoves, SendMoves DEF ListenerStep, GotSame
  <2>2. PipeInv(n)' /\ OrderInv(n)'
    BY <2>1, QuietStep, TakesStep, HandsStep
  <2>3. \A k \in Nodes \ {n} : PipeInv(k)' /\ OrderInv(k)'
    BY <2>1, IdleNode, QuietStep
  <2> QED
    BY <1>0, <2>1, <2>2, <2>3 DEF FifoInv
<1>3. ASSUME NEW n \in Nodes, NodeFault(n) PROVE FifoInv'
  BY <1>0, <1>3, NodeFaultMoves, QuietStep DEF FifoInv
<1>4. CASE UNCHANGED vars
  <2>1. UNCHANGED <<listener, inbox, got>>
    BY <1>4 DEF vars
  <2>2. TodoInv' /\ \A n \in Nodes : GotSame(n)
    BY <2>1 DEF FifoInv, TodoInv, GotSame
  <2> QED
    BY <1>0, <2>1, <2>2, IdleNode, QuietStep DEF FifoInv
<1> QED
  BY <1>1, <1>2, <1>3, <1>4 DEF Next

LEMMA InitFifo == Init => FifoInv
<1> SUFFICES ASSUME Init PROVE FifoInv
  OBVIOUS
<1>1. EntryInv
  BY InitialEntry DEF EntryInv
<1>2. /\ \A s \in Socks : sentOn[s] = <<>> /\ got[s] = <<>> /\ handler[s].pc \in {"ready", "new"}
      /\ \A n \in Nodes : inbox[n] = <<>> /\ listener[n].pc = "idle"
  BY DEF Init, Ready, NewHandler, IdleListener
<1>3. 1..Len(<<>>) = {}
  OBVIOUS
<1>4. \A n \in Nodes : Awaits(n) = {}
  BY <1>2 DEF Awaits
<1> QED
  BY <1>1, <1>2, <1>3, <1>4, InitType DEF FifoInv, RoutingInv, TodoInv, PipeInv, OrderInv

\* Messages of one connection reach each connection in the order they were sent
\* (message_router.py:route, redis_pubsub.py:_listen, deliver_from_pubsub), through any
\* number of nodes, whatever crashes and failures lose on the way.
THEOREM MessagesStayInOrder == Spec => []FifoPerConnection
<1>1. FifoInv => FifoPerConnection
  <2> SUFFICES ASSUME FifoInv, NEW s \in Socks, NEW r \in Socks,
                      NEW i \in 1..Len(got[r]), NEW j \in 1..Len(got[r]),
                      NEW k \in 1..Len(sentOn[s]), NEW l \in 1..Len(sentOn[s]),
                      i < j, sentOn[s][k] = got[r][i], sentOn[s][l] = got[r][j]
               PROVE  k < l
    BY DEF FifoPerConnection
  <2>1. <<got[r][i], got[r][j]>> \in Before
    BY DeliveryAssumption DEF FifoInv, OrderInv
  <2> QED
    BY <2>1 DEF Before
<1> QED
  BY <1>1, InitFifo, FifoStep, PTL DEF Spec
-----------------------------------------------------------------------------
(* At most once, where agents keep to one node. *)

\* Each agent makes its connections to one node.
AgentsStay == \A s, r \in Socks : AgentOf[s] = AgentOf[r] => NodeOf[s] = NodeOf[r]

\* What the agent of a connection has been handed does not reach the connection's
\* node again.
HandedInv ==
    /\ \A m \in Messages, a \in Agents : sends[m][a] <= 1
    /\ \A s \in Socks, m \in Messages : sends[m][AgentOf[s]] > 0 =>
          /\ m \in Published
          /\ \A j \in 1..Len(inbox[NodeOf[s]]) : inbox[NodeOf[s]][j] # m
          /\ AgentOf[s] \in Awaits(NodeOf[s]) => listener[NodeOf[s]].msg # m

\* The order of one node's messages is irreflexive: it queues no message twice.
LEMMA NotBeforeItself == ASSUME NEW m, m \in Published PROVE <<m, m>> \notin Before
<1>1. PICK s \in Socks : \E i \in 1..Len(sentOn[s]) : sentOn[s][i] = m
  BY DEF Published, Sent
<1>2. PICK i \in 1..Len(sentOn[s]) : sentOn[s][i] = m
  BY <1>1
<1> QED
  BY <1>2 DEF Before

\* A step that hands nothing over takes messages from a node or queues a new one.
LEMMA NodeMoves ==
    ASSUME FifoInv, [Next]_vars, NEW n \in Nodes
    PROVE  \/ /\ inbox'[n] \in {inbox[n], <<>>} /\ Awaits(n)' \subseteq Awaits(n)
              /\ Awaits(n)' # {} => listener'[n].msg = listener[n].msg
           \/ Takes(n)
           \/ \E s \in Socks, m \in Messages : Publish(s) /\ m = handler[s].msg /\ Queues(n, m)
<1>1. CASE UNCHANGED vars
  BY <1>1 DEF vars, Awaits
<1>2. ASSUME NEW s \in Socks, HandlerStep(s) \/ ClientStep(s) \/ SockFault(s), ~UNCHANGED inbox
      PROVE  \E m \in Messages : Publish(s) /\ m = handler[s].msg /\ Queues(n, m)
  <2>1. Publish(s) /\ UNCHANGED <<listener, got>>
    BY <1>2, SockMoves
  <2>2. PICK m \in Messages : m = handler[s].msg
    BY <2>1 DEF Publish, FifoInv, TypeOK, HandlerType
  <2>3. Queues(n, m)
    BY <2>1, <2>2 DEF Publish, Queues, Enqueue, Awaits, GotSame
  <2> QED
    BY <2>1, <2>2, <2>3
<1>3. ASSUME NEW s \in Socks, HandlerStep(s) \/ ClientStep(s) \/ SockFault(s), UNCHANGED inbox
      PROVE  inbox'[n] = inbox[n] /\ Awaits(n)' = Awaits(n) /\ listener'[n] = listener[n]
  BY <1>3, SockMoves DEF Awaits
<1>4. ASSUME NEW k \in Nodes, ListenerStep(k)
      PROVE  \/ Quiet(n) \/ Takes(n) \/ Hands(n)
             \/ inbox'[n] = inbox[n] /\ listener'[n] = listener[n]
  BY <1>4, TryDeliverMoves, ReceiveMoves, SendMoves DEF ListenerStep
<1>5. ASSUME NEW k \in Nodes, NodeFault(k) PROVE Quiet(n)
  BY <1>5, NodeFaultMoves
<1>6. Quiet(n) \/ Hands(n) =>
        /\ inbox'[n] \in {inbox[n], <<>>} /\ Awaits(n)' \subseteq Awaits(n)
        /\ Awaits(n)' # {} => listener'[n].msg = listener[n].msg
  BY DEF Quiet, Hands
<1>7. inbox'[n] = inbox[n] /\ listener'[n] = listener[n] => Awaits(n)' = Awaits(n)
  BY DEF Awaits
<1> QED
  BY <1>1, <1>2, <1>3, <1>4, <1>5, <1>6, <1>7 DEF Next

\* Only SendFrame hands a message over; the listener does not come back to the agent.
LEMMA HandOverMoves ==
    ASSUME FifoInv, [Next]_vars, NEW m \in Messages, NEW a \in Agents,
           sends'[m][a] # sends[m][a]
    PROVE  \E n \in Nodes, s \in Socks :
              /\ m = listener[n].msg /\ a \in Awaits(n) /\ a \notin Awaits(n)'
              /\ NodeOf[s] = n /\ AgentOf[s] = a /\ inbox'[n] = inbox[n]
              /\ sends' = [sends EXCEPT ![m][a] = @ + 1]
<1>0. TypeOK /\ EntryInv /\ TodoInv
  BY DEF FifoInv
<1>1. PICK n \in Nodes : SendFrame(n)
  <2>1. sends' # sends
    OBVIOUS
  <2>2. ASSUME NEW n \in Nodes, ListenerStep(n) \/ NodeFault(n), ~SendFrame(n)
        PROVE  UNCHANGED sends
    BY <2>2 DEF ListenerStep, ReceiveFromPubsub, TryDeliver, SendFindsNothing, SendFailed,
       NodeFault, ListenerRaises, ListenerDies, NodeCrashes, NodeRestarts
  <2> QED
    BY <2>1, <2>2, SockStepFrame DEF Next, vars
<1> DEFINE x == listener[n].msg
           b == listener[n].agent
           todo == listener[n].todo
<1>2. /\ listener[n].pc = "send" /\ conns[n][b] # None
       /\ sends' = [sends EXCEPT ![x][b] = @ + 1] /\ inbox' = inbox
       /\ \/ listener' = [listener EXCEPT ![n] = Continue(x, todo)]
          \/ listener' = [listener EXCEPT ![n].pc = "failed"]
  BY <1>1, Zenon DEF SendFrame, IsLocal
<1>3. x \in Messages /\ b \in Agents /\ sends \in [Messages -> [Agents -> Nat]]
  BY <1>0, <1>2 DEF TypeOK, ListenerType, ClientType
<1>4. m = x /\ a = b
  <2> HIDE DEF x, b
  <2> QED
    BY <1>2, <1>3
<1>5. a \in Awaits(n) /\ a \notin todo
  BY <1>0, <1>2, <1>4 DEF Awaits, TodoInv
<1>6. Awaits(n)' \subseteq todo
  <2>1. CASE listener' = [listener EXCEPT ![n] = Continue(x, todo)]
    <3> HIDE DEF x, todo
    <3> QED
      BY <1>0, <2>1, LessToDo
  <2>2. CASE listener' = [listener EXCEPT ![n].pc = "failed"]
    <3>1. listener'[n].pc = "failed" /\ listener'[n].todo = todo
      BY <1>0, <2>2 DEF TypeOK, ListenerType
    <3> QED
      BY <3>1 DEF Awaits
  <2> QED
    BY <1>2, <2>1, <2>2
<1>7. PICK s \in Socks : NodeOf[s] = n /\ AgentOf[s] = b
  <2>1. conns[n][b] # None /\ b \in Agents
    BY <1>2, <1>3
  <2> HIDE DEF b
  <2> QED
    BY <1>0, <2>1 DEF EntryInv, TypeOK, NodeType
<1> QED
  BY <1>2, <1>4, <1>5, <1>6, <1>7

LEMMA HandedStep == AgentsStay /\ FifoInv /\ HandedInv /\ [Next]_vars => HandedInv'
<1> SUFFICES ASSUME AgentsStay, FifoInv, HandedInv, [Next]_vars PROVE HandedInv'
  OBVIOUS
<1>0. TypeOK /\ sends \in [Messages -> [Agents -> Nat]]
  BY DEF FifoInv, TypeOK, ClientType
<1>1. ASSUME NEW m \in Messages, NEW a \in Agents, sends'[m][a] # sends[m][a]
      PROVE  sends[m][a] = 0 /\ sends'[m][a] = 1
  <2>1. PICK n \in Nodes, s \in Socks :
          /\ m = listener[n].msg /\ a \in Awaits(n) /\ a \notin Awaits(n)'
          /\ NodeOf[s] = n /\ AgentOf[s] = a /\ inbox'[n] = inbox[n]
          /\ sends' = [sends EXCEPT ![m][a] = @ + 1]
    BY <1>1, HandOverMoves
  <2>2. ~(sends[m][a] > 0)
    BY <2>1 DEF HandedInv
  <2>3. sends[m][a] \in Nat
    BY <1>0
  <2>4. sends[m][a] = 0
    BY <2>2, <2>3
  <2> QED
    BY <1>0, <2>1, <2>4
<1>2. ASSUME NEW s \in Socks, NEW m \in Messages, sends'[m][AgentOf[s]] > 0
      PROVE  /\ m \in Published'
             /\ \A j \in 1..Len(inbox'[NodeOf[s]]) : inbox'[NodeOf[s]][j] # m
             /\ AgentOf[s] \in Awaits(NodeOf[s])' => listener'[NodeOf[s]].msg # m
  <2> DEFINE a == AgentOf[s]
             n == NodeOf[s]
  <2>0. a \in Agents /\ n \in Nodes
    BY DeliveryAssumption
  <2>1. CASE sends'[m][a] # sends[m][a]
    <3>1. PICK k \in Nodes, r \in Socks :
            /\ m = listener[k].msg /\ a \in Awaits(k) /\ a \notin Awaits(k)'
            /\ NodeOf[r] = k /\ AgentOf[r] = a /\ inbox'[k] = inbox[k]
      BY <2>0, <2>1, HandOverMoves
    <3>2. k = n
      BY <3>1 DEF AgentsStay
    <3>3. PipeInv(n) /\ OrderInv(n)
      BY <2>0 DEF FifoInv
    <3>4. m \in Published /\ \A j \in 1..Len(inbox[n]) : <<m, inbox[n][j]>> \in Before
      BY <3>1, <3>2, <3>3 DEF PipeInv, OrderInv
    <3>5. m \in Published'
      BY <1>0, <3>4, PublishedStays
    <3> QED
      BY <3>1, <3>2, <3>4, <3>5, NotBeforeItself
  <2>2. CASE sends'[m][a] = sends[m][a]
    <3>1. /\ m \in Published /\ \A j \in 1..Len(inbox[n]) : inbox[n][j] # m
          /\ a \in Awaits(n) => listener[n].msg # m
      BY <1>2, <2>2 DEF HandedInv
    <3>2. m \in Published'
      BY <1>0, <3>1, PublishedStays
    <3>3. inbox[n] \in Seq(Messages)
      BY <1>0, <2>0 DEF TypeOK, NodeType
    <3> HIDE DEF a, n
    <3>4. CASE /\ inbox'[n] \in {inbox[n], <<>>} /\ Awaits(n)' \subseteq Awaits(n)
               /\ Awaits(n)' # {} => listener'[n].msg = listener[n].msg
      <4>1. Len(<<>>) = 0
        OBVIOUS
      <4> QED
        BY <3>1, <3>2, <3>4, <4>1 DEF a, n
    <3>5. CASE Takes(n)
      <4>1. /\ \A j \in 1..Len(inbox'[n]) : j + 1 \in 1..Len(inbox[n]) /\ inbox'[n][j] = inbox[n][j + 1]
            /\ 1 \in 1..Len(inbox[n]) /\ Head(inbox[n]) = inbox[n][1]
        BY <3>3, <3>5 DEF Takes
      <4>2. Awaits(n)' # {} => listener'[n].msg = Head(inbox[n])
        BY <3>5 DEF Takes
      <4> QED
        BY <3>1, <3>2, <4>1, <4>2 DEF a, n
    <3>6. ASSUME NEW r \in Socks, NEW x \in Messages, Publish(r), x = handler[r].msg, Queues(n, x)
          PROVE  /\ \A j \in 1..Len(inbox'[n]) : inbox'[n][j] # m
                 /\ a \in Awaits(n)' => listener'[n].msg # m
      <4>1. x # m
        BY <3>1, <3>6 DEF Publish, Published, Routing
      <4>2. CASE inbox'[n] = inbox[n]
        BY <3>1, <3>6, <4>2 DEF Queues
      <4>3. CASE inbox'[n] = Append(inbox[n], x)
        BY <3>1, <3>3, <3>6, <4>1, <4>3 DEF Queues
      <4> QED
        BY <3>6, <4>2, <4>3 DEF Queues
    <3> QED
      BY <2>0, <3>2, <3>4, <3>5, <3>6, NodeMoves DEF a, n
  <2> QED
    BY <2>1, <2>2
<1>3. \A m \in Messages, a \in Agents : sends'[m][a] <= 1
  BY <1>1 DEF HandedInv
<1> QED
  BY <1>2, <1>3 DEF HandedInv

LEMMA InitHanded == Init => HandedInv
  BY DeliveryAssumption DEF Init, HandedInv

\* Where the agents connect to one node each, a message is handed to an agent at most
\* once although rowcount tells no conflict: Redis gives the node's subscription each
\* publication once, and the one listener task visits an agent once per message
\* (redis_pubsub.py:_listen, message_router.py:deliver_from_pubsub).
THEOREM OneNodeNeedsNoLock == ASSUME AgentsStay PROVE Spec => []AtMostOnce
<1>1. Init => FifoInv /\ HandedInv
  BY InitFifo, InitHanded
<1>2. FifoInv /\ HandedInv /\ [Next]_vars => FifoInv' /\ HandedInv'
  BY FifoStep, HandedStep
<1>3. HandedInv => AtMostOnce
  BY DEF HandedInv, AtMostOnce
<1> QED
  BY <1>1, <1>2, <1>3, PTL DEF Spec
=============================================================================
