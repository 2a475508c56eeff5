-------------------------- MODULE DirectoryProofs --------------------------
(* Theorems about Directory, for all values of its constants. *)
EXTENDS Directory, TLAPS

-----------------------------------------------------------------------------
(* Types. *)

SockState == [pc : SockPc, status : AgentStatus \cup {"none"}, copy : Entries \cup {NoEntry}]
CallState == [pc : CallPc, node : Nodes \cup {None}, old : Calls \cup {None},
              knew : SUBSET Calls]

LEMMA EntryTypes ==
    /\ \A st \in AgentStatus, n \in Nodes \cup {None} :
          Entry(st, n, "endpoint") \in Entries /\ Entry(st, n, "lookup") \in Entries
    /\ NoEntry \notin Entries
  BY DEF Entry, Entries, NoEntry, AgentStatus

\* What the statements make of the row.
LEMMA RowTypes ==
    ASSUME row \in Rows \cup {NoRow}
    PROVE  /\ \A st \in AgentStatus : RowWithStatus(st) \in Rows \cup {NoRow}
           /\ \A n \in Nodes : RowUpserted(n) \in Rows
           /\ \A c \in Calls : RowInserted(c) \in Rows
           /\ row # NoRow => \A c \in Calls : RowWithKey(c) \in Rows
  BY DEF Rows, NoRow, RowWithStatus, RowUpserted, RowInserted, RowWithKey, AgentStatus

\* The endpoints keep their type if one of them gets a well-formed value.
LEMMA SockUpdate ==
    ASSUME SocksType, NEW s \in Socks, NEW x \in SockState,
           x.pc = "getting" => x.status \in AgentStatus,
           x.pc = "setting" => x.copy \in Entries,
           sock' = [sock EXCEPT ![s] = x],
           conns' \in [Nodes -> Socks \cup {None}], open' \in SUBSET Socks
    PROVE  SocksType'
  BY DEF SocksType, SockState

\* So they do if one of them moves on to a state that needs nothing.
LEMMA SockMoves ==
    ASSUME SocksType, NEW s \in Socks, NEW pc \in SockPc \ {"getting", "setting"},
           sock' = SockTo(s, pc),
           conns' \in [Nodes -> Socks \cup {None}], open' \in SUBSET Socks
    PROVE  SocksType'
<1> DEFINE x == [pc |-> pc, status |-> sock[s].status, copy |-> sock[s].copy]
<1>1. x \in SockState /\ x.pc \notin {"getting", "setting"}
  BY DEF SocksType, SockState
<1>2. sock' = [sock EXCEPT ![s] = x]
  BY DEF SockTo
<1> HIDE DEF x
<1> QED
  BY <1>1, <1>2, SockUpdate

LEMMA CallMoves ==
    ASSUME CallsType, NEW c \in Calls, NEW pc \in CallPc, call' = CallTo(c, pc)
    PROVE  CallsType'
  BY DEF CallsType, CallTo

LEMMA CallEnds ==
    ASSUME CallsType, NEW c \in Calls, Finish(c)
    PROVE  CallsType'
  BY DEF CallsType, Finish, Over, CallPc

LEMMA CallBegins ==
    ASSUME CallsType, NEW c \in Calls, NEW pc \in CallPc, NEW old \in Calls \cup {None},
           returned \in SUBSET Calls, Begin(c, pc, old)
    PROVE  CallsType'
  BY DEF CallsType, Begin

LEMMA FixedStates ==
    ASSUME NEW x \in {NewSock, Leaving, Gone, Cut}
    PROVE  x \in SockState /\ x.pc \notin {"getting", "setting"}
<1>1. CASE x = NewSock
  BY <1>1 DEF NewSock, SockState, SockPc
<1>2. CASE x = Leaving
  BY <1>2 DEF Leaving, SockState, SockPc, ListedPc
<1>3. CASE x = Gone
  BY <1>3 DEF Gone, SockState, SockPc
<1>4. CASE x = Cut
  BY <1>4 DEF Cut, SockState, SockPc
<1> QED
  BY <1>1, <1>2, <1>3, <1>4

LEMMA InitType == Init => TypeOK
<1> SUFFICES ASSUME Init PROVE TypeOK
  OBVIOUS
<1>1. SocksType
  <2>1. NewSock \in SockState /\ NewSock.pc \notin {"getting", "setting"}
    BY FixedStates
  <2> QED
    BY <2>1 DEF Init, SocksType, SockState
<1>2. CallsType
  BY DEF Init, CallsType, NewCall, CallPc
<1>3. ReadersType
  BY DEF Init, ReadersType, Idle
<1> QED
  BY <1>1, <1>2, <1>3 DEF Init, TypeOK

LEMMA SockStepType ==
    ASSUME TypeOK, NEW s \in Socks, SockStep(s) PROVE TypeOK'
<1> USE DEF TypeOK
<1> USE DirectoryAssumption DEF DirectoryAssumption
<1>1. CASE \/ Authenticate(s) \/ CheckDuplicate(s) \/ CacheAgent(s) \/ UnregisterRow(s)
  <2>1. SocksType'
    <3>1. \E pc \in SockPc \ {"getting", "setting"} : sock' = SockTo(s, pc)
      BY <1>1 DEF Authenticate, CheckDuplicate, CacheAgent, UnregisterRow, SockPc, CachedPc
    <3>2. conns' = conns /\ open' = open
      BY <1>1 DEF Authenticate, CheckDuplicate, CacheAgent, UnregisterRow
    <3> QED
      BY <3>1, <3>2, SockMoves DEF SocksType
  <2>2. row' \in Rows \cup {NoRow}
    <3>1. RowUnregistered \in Rows \cup {NoRow}
      BY RowTypes DEF RowUnregistered, AgentStatus
    <3> QED
      BY <1>1, <3>1 DEF Authenticate, CheckDuplicate, CacheAgent, UnregisterRow
  <2>3. cache' \in Entries \cup {NoEntry}
    BY <1>1, EntryTypes
       DEF Authenticate, CheckDuplicate, CacheAgent, UnregisterRow, AgentStatus
  <2> QED
    BY <1>1, <2>1, <2>2, <2>3
       DEF Authenticate, CheckDuplicate, CacheAgent, UnregisterRow, CallsType, ReadersType,
           history
<1>2. CASE Accept(s)
  <2>1. SocksType'
    BY <1>2, SockMoves DEF Accept, SocksType, SockPc
  <2> QED
    BY <1>2, <2>1 DEF Accept, CallsType, ReadersType, history
<1>3. CASE RegisterRow(s)
  <2> DEFINE x == [pc |-> "caching", status |-> "idle", copy |-> NoEntry]
  <2>1. x \in SockState /\ x.pc \notin {"getting", "setting"}
    BY DEF SockState, SockPc, ListedPc, AgentStatus
  <2>2. sock' = [sock EXCEPT ![s] = x] /\ UNCHANGED <<conns, open>>
    BY <1>3 DEF RegisterRow
  <2> HIDE DEF x
  <2>3. SocksType'
    BY <2>1, <2>2, SockUpdate DEF SocksType
  <2>4. row' \in Rows
    BY <1>3, RowTypes DEF RegisterRow
  <2> QED
    BY <1>3, <2>3, <2>4 DEF RegisterRow, CallsType, ReadersType
<1>4. CASE \E st \in Declared : UpdateRow(s, st)
  <2>1. PICK st \in Declared : UpdateRow(s, st)
    BY <1>4
  <2> DEFINE x == [pc |-> "getting", status |-> st, copy |-> NoEntry]
  <2>2. x \in SockState /\ x.pc = "getting" /\ x.status \in AgentStatus
    BY DEF SockState, SockPc, ListedPc
  <2>3. sock' = [sock EXCEPT ![s] = x] /\ UNCHANGED <<conns, open>>
    BY <2>1 DEF UpdateRow
  <2> HIDE DEF x
  <2>4. SocksType'
    BY <2>2, <2>3, SockUpdate DEF SocksType
  <2>5. row' \in Rows \cup {NoRow}
    BY <2>1, RowTypes DEF UpdateRow
  <2> QED
    BY <2>1, <2>4, <2>5 DEF UpdateRow, CallsType, ReadersType, history
<1>5. CASE GetCached(s)
  <2>1. SocksType'
    <3>1. CASE Hit(cache)
      <4> DEFINE x == [pc |-> "setting", status |-> sock[s].status,
                       copy |-> CopyWithStatus(cache, sock[s].status)]
      <4>1. CopyWithStatus(cache, sock[s].status) \in Entries
        BY <1>5, <3>1 DEF GetCached, SocksType, Hit, CopyWithStatus, Entry, Entries
      <4>2. x \in SockState /\ x.pc = "setting" /\ x.copy \in Entries
        BY <4>1 DEF SocksType, SockState, SockPc, ListedPc
      <4>3. sock' = [sock EXCEPT ![s] = x] /\ UNCHANGED <<conns, open>>
        BY <1>5, <3>1 DEF GetCached
      <4> HIDE DEF x
      <4> QED
        BY <4>2, <4>3, SockUpdate DEF SocksType
    <3>2. CASE ~Hit(cache)
      BY <1>5, <3>2, SockMoves DEF GetCached, SocksType, SockPc, ListedPc
    <3> QED
      BY <3>1, <3>2
  <2> QED
    BY <1>5, <2>1 DEF GetCached, CallsType, ReadersType, history
<1>6. CASE SetCached(s)
  <2> DEFINE x == [pc |-> "ready", status |-> sock[s].status, copy |-> NoEntry]
  <2>1. x \in SockState /\ x.pc \notin {"getting", "setting"}
    BY DEF SocksType, SockState, SockPc, ListedPc
  <2>2. sock' = [sock EXCEPT ![s] = x] /\ UNCHANGED <<conns, open>>
    BY <1>6 DEF SetCached
  <2> HIDE DEF x
  <2>3. SocksType'
    BY <2>1, <2>2, SockUpdate DEF SocksType
  <2>4. cache' \in Entries
    BY <1>6 DEF SetCached, SocksType
  <2> QED
    BY <1>6, <2>3, <2>4 DEF SetCached, CallsType, ReadersType, history
<1>7. CASE ClientDrops(s)
  BY <1>7 DEF ClientDrops, SocksType, CallsType, ReadersType, history
<1>8. CASE Leave(s) \/ Evict(s)
  <2>1. \E x \in {Leaving, Gone} : sock' = [sock EXCEPT ![s] = x]
    BY <1>8 DEF Leave, Evict
  <2>2. conns' \in [Nodes -> Socks \cup {None}] /\ open' = open
    BY <1>8 DEF Leave, Evict, SocksType
  <2>3. SocksType'
    BY <2>1, <2>2, FixedStates, SockUpdate DEF SocksType
  <2> QED
    BY <1>8, <2>3 DEF Leave, Evict, CacheEvicted, CallsType, ReadersType, history
<1> QED
  BY <1>1, <1>2, <1>3, <1>4, <1>5, <1>6, <1>7, <1>8 DEF SockStep

LEMMA CallStepType ==
    ASSUME TypeOK, NEW c \in Calls, CallStep(c) PROVE TypeOK'
<1> USE DEF TypeOK
<1>1. CASE RegisterReads(c) \/ RotateReads(c) \/ DeleteReads(c)
  <2>1. \/ Finish(c)
        \/ \E pc \in CallPc, old \in Calls \cup {None} : Begin(c, pc, old)
    <3>1. row.key \in Calls \cup {None}
      BY DEF Rows, NoRow
    <3> QED
      BY <1>1, <3>1 DEF RegisterReads, RotateReads, DeleteReads, CallPc, WritePc
  <2>2. CallsType'
    BY <2>1, CallEnds, CallBegins
  <2> QED
    BY <1>1, <2>2
       DEF RegisterReads, RotateReads, DeleteReads, sockVars, history, SocksType, ReadersType
<1>2. CASE WriteKey(c)
  <2>1. CallsType'
    BY <1>2, CallMoves, CallEnds DEF WriteKey, CallPc
  <2>2. row' \in Rows \cup {NoRow}
    <3>1. row' = row \/ row' = RowInserted(c) \/ (row # NoRow /\ row' = RowWithKey(c))
      BY <1>2 DEF WriteKey
    <3> QED
      BY <3>1, RowTypes
  <2> QED
    BY <1>2, <2>1, <2>2 DEF WriteKey, sockVars, SocksType, ReadersType
<1>3. CASE ReturnKey(c)
  BY <1>3, CallEnds DEF ReturnKey, sockVars, SocksType, ReadersType
<1>4. CASE DeleteRow(c)
  <2>1. CallsType'
    BY <1>4, CallMoves DEF DeleteRow, CallPc
  <2> QED
    BY <1>4, <2>1 DEF DeleteRow, sockVars, history, SocksType, ReadersType
<1>5. CASE DeletePops(c)
  <2>1. CallsType'
    BY <1>5, CallEnds DEF DeletePops
  <2>2. SocksType'
    BY <1>5 DEF DeletePops, SocksType
  <2> QED
    BY <1>5, <2>1, <2>2 DEF DeletePops, history, ReadersType
<1> QED
  BY <1>1, <1>2, <1>3, <1>4, <1>5 DEF CallStep

LEMMA CacheStepType ==
    ASSUME TypeOK, CacheExpires \/ \E l \in Readers : ReaderStep(l) PROVE TypeOK'
<1> USE DEF TypeOK
<1>1. CASE CacheExpires
  BY <1>1 DEF CacheExpires, sockVars, history, SocksType, CallsType, ReadersType
<1>2. ASSUME NEW l \in Readers, LookupMisses(l) PROVE TypeOK'
  <2>1. Entry(row.status, row.node, "lookup") \in Entries
    BY <1>2, EntryTypes DEF LookupMisses, Rows
  <2>2. Entry(row.status, row.node, "lookup").by = "lookup"
    BY DEF Entry
  <2>3. ReadersType'
    BY <1>2, <2>1, <2>2 DEF LookupMisses, ReadersType
  <2> QED
    BY <1>2, <2>3 DEF LookupMisses, sockVars, history, SocksType, CallsType
<1>3. ASSUME NEW l \in Readers, LookupFills(l) PROVE TypeOK'
  <2>1. cache' \in Entries
    BY <1>3 DEF LookupFills, ReadersType
  <2>2. ReadersType'
    BY <1>3 DEF LookupFills, ReadersType, Idle
  <2> QED
    BY <1>3, <2>1, <2>2 DEF LookupFills, sockVars, history, SocksType, CallsType
<1> QED
  BY <1>1, <1>2, <1>3 DEF ReaderStep

LEMMA FaultType ==
    ASSUME TypeOK,
           \/ \E s \in Socks : EndpointRaises(s) \/ UpdateRaises(s)
           \/ \E c \in Calls : CallRaises(c)
           \/ \E n \in Nodes : NodeCrashes(n)
    PROVE  TypeOK'
<1> USE DEF TypeOK, Fault
<1>1. ASSUME NEW s \in Socks, EndpointRaises(s) PROVE TypeOK'
  <2>1. sock' = [sock EXCEPT ![s] = Cut] /\ conns' = conns /\ open' \in SUBSET Socks
    BY <1>1 DEF EndpointRaises, SocksType
  <2>2. SocksType'
    BY <2>1, FixedStates, SockUpdate DEF SocksType
  <2> QED
    BY <1>1, <2>2 DEF EndpointRaises, CallsType, ReadersType
<1>2. ASSUME NEW s \in Socks, UpdateRaises(s) PROVE TypeOK'
  <2> DEFINE x == [pc |-> "ready", status |-> sock[s].status, copy |-> NoEntry]
  <2>1. x \in SockState /\ x.pc \notin {"getting", "setting"}
    BY DEF SocksType, SockState, SockPc, ListedPc
  <2>2. sock' = [sock EXCEPT ![s] = x] /\ UNCHANGED <<conns, open>>
    BY <1>2 DEF UpdateRaises
  <2> HIDE DEF x
  <2>3. SocksType'
    BY <2>1, <2>2, SockUpdate DEF SocksType
  <2> QED
    BY <1>2, <2>3 DEF UpdateRaises, CallsType, ReadersType
<1>3. ASSUME NEW c \in Calls, CallRaises(c) PROVE TypeOK'
  BY <1>3, CallEnds DEF CallRaises, sockVars, SocksType, ReadersType
<1>4. ASSUME NEW n \in Nodes, NodeCrashes(n) PROVE TypeOK'
  <2>1. SocksType'
    <3>1. Cut \in SockState /\ Cut.pc \notin {"getting", "setting"}
      BY FixedStates
    <3> QED
      BY <1>4, <3>1 DEF NodeCrashes, SocksType, SockState
  <2>2. CallsType'
    BY <1>4 DEF NodeCrashes, CallsType, Over, CallPc
  <2> QED
    BY <1>4, <2>1, <2>2 DEF NodeCrashes, ReadersType
<1> QED
  BY <1>1, <1>2, <1>3, <1>4

LEMMA TypeStep == TypeOK /\ [Next]_vars => TypeOK'
<1> SUFFICES ASSUME TypeOK, [Next]_vars PROVE TypeOK'
  OBVIOUS
<1>1. CASE UNCHANGED vars
  BY <1>1 DEF vars, sockVars, history, TypeOK, SocksType, CallsType, ReadersType
<1>2. CASE Next
  BY <1>2, SockStepType, CallStepType, CacheStepType, FaultType DEF Next
<1> QED
  BY <1>1, <1>2

-----------------------------------------------------------------------------
(* The row and the cache entry lead to an endpoint. Both are inductive with    *)
(* the types: whoever writes them has not left yet, and what a lookup is about *)
(* to cache does not count as an entry of an endpoint.                         *)

\* An endpoint's step leaves the other endpoints alone.
LEMMA SockFrame ==
    ASSUME SocksType, NEW s \in Socks, SockStep(s)
    PROVE  \A q \in Socks \ {s} : sock'[q] = sock[q]
  BY DEF SocksType, SockStep, Authenticate, CheckDuplicate, Accept, RegisterRow, CacheAgent,
     UpdateRow, GetCached, SetCached, ClientDrops, Leave, UnregisterRow, Evict, SockTo

\* A handshake does not get as far as register.
LEMMA HandshakePc ==
    ASSUME SocksType, NEW s \in Socks, Authenticate(s) \/ CheckDuplicate(s) \/ Accept(s)
    PROVE  /\ sock[s].pc \in {"new", "authed", "checked"}
           /\ sock'[s].pc \in {"authed", "checked", "accepted", "gone"}
<1>1. CASE Authenticate(s)
  BY <1>1 DEF Authenticate, SocksType, SockTo
<1>2. CASE CheckDuplicate(s)
  BY <1>2 DEF CheckDuplicate, SocksType, SockTo
<1>3. CASE Accept(s)
  BY <1>3 DEF Accept, SocksType, SockTo
<1> QED
  BY <1>1, <1>2, <1>3

LEMMA ListedStep == TypeOK /\ ListedIsThere /\ [Next]_vars => ListedIsThere'
<1> SUFFICES ASSUME TypeOK, ListedIsThere, [Next]_vars PROVE ListedIsThere'
  OBVIOUS
<1> USE DEF TypeOK, SocksType, ListedIsThere
<1>1. ASSUME NEW s \in Socks, SockStep(s) PROVE ListedIsThere'
  <2>1. CASE \/ Authenticate(s) \/ CheckDuplicate(s) \/ Accept(s) \/ CacheAgent(s)
            \/ GetCached(s) \/ SetCached(s) \/ ClientDrops(s) \/ Leave(s) \/ Evict(s)
    <3>1. row' = row
      BY <2>1 DEF Authenticate, CheckDuplicate, Accept, CacheAgent, GetCached, SetCached,
           ClientDrops, Leave, Evict
    <3>2. sock[s].pc \in ListedPc \cup {"cut"} => sock'[s].pc \in ListedPc \cup {"cut"}
      <4>1. CASE Authenticate(s) \/ CheckDuplicate(s) \/ Accept(s)
        BY <4>1, HandshakePc DEF ListedPc
      <4>2. CASE CacheAgent(s) \/ GetCached(s) \/ SetCached(s) \/ ClientDrops(s)
        BY <4>2 DEF CacheAgent, GetCached, SetCached, ClientDrops, SockTo, ListedPc
      <4>3. CASE Leave(s) \/ Evict(s)
        BY <4>3 DEF Leave, Evict, Leaving, ListedPc
      <4> QED
        BY <2>1, <4>1, <4>2, <4>3
    <3>3. \A q \in Socks \ {s} : sock'[q] = sock[q]
      BY <1>1, SockFrame
    <3> QED
      BY <3>1, <3>2, <3>3
  <2>2. CASE RegisterRow(s) \/ \E st \in Declared : UpdateRow(s, st)
    <3>1. sock'[s].pc \in ListedPc
      BY <2>2 DEF RegisterRow, UpdateRow, ListedPc
    <3> QED
      BY <3>1
  <2>3. CASE UnregisterRow(s)
    BY <2>3 DEF UnregisterRow, RowUnregistered, RowWithStatus, NoRow
  <2> QED
    BY <1>1, <2>1, <2>2, <2>3 DEF SockStep
<1>2. ASSUME NEW c \in Calls, CallStep(c) PROVE ListedIsThere'
  <2>1. sock' = sock
    BY <1>2 DEF CallStep, RegisterReads, RotateReads, WriteKey, ReturnKey, DeleteReads,
         DeleteRow, DeletePops, sockVars
  <2>2. row'.status = row.status \/ row'.status \in {"offline", "none"}
    BY <1>2 DEF CallStep, RegisterReads, RotateReads, WriteKey, ReturnKey, DeleteReads,
         DeleteRow, DeletePops, RowInserted, RowWithKey, NoRow
  <2> QED
    BY <2>1, <2>2
<1>3. ASSUME NEW s \in Socks, EndpointRaises(s) PROVE ListedIsThere'
  <2>1. row' = row /\ sock'[s].pc = "cut"
    BY <1>3 DEF EndpointRaises, Cut
  <2> QED
    BY <2>1
<1>4. ASSUME NEW s \in Socks, UpdateRaises(s) PROVE ListedIsThere'
  <2>1. row' = row /\ sock'[s].pc \in ListedPc
    BY <1>4 DEF UpdateRaises, ListedPc
  <2> QED
    BY <2>1
<1>5. ASSUME NEW n \in Nodes, NodeCrashes(n) PROVE ListedIsThere'
  <2>1. row' = row
    BY <1>5 DEF NodeCrashes
  <2>2. \A s \in Socks : sock'[s].pc = "cut" \/ sock'[s] = sock[s]
    BY <1>5 DEF NodeCrashes, Cut
  <2> QED
    BY <2>1, <2>2
<1>6. CASE \/ UNCHANGED vars \/ CacheExpires
          \/ (\E l \in Readers : ReaderStep(l))
          \/ (\E c \in Calls : CallRaises(c))
  BY <1>6 DEF vars, sockVars, CacheExpires, ReaderStep, LookupMisses, LookupFills, CallRaises
<1> QED
  BY <1>1, <1>2, <1>3, <1>4, <1>5, <1>6 DEF Next

LEMMA CachedStep == TypeOK /\ CachedIsThere /\ [Next]_vars => CachedIsThere'
<1> SUFFICES ASSUME TypeOK, CachedIsThere, [Next]_vars PROVE CachedIsThere'
  OBVIOUS
<1> USE DEF TypeOK, SocksType, CachedIsThere
<1>1. ASSUME NEW s \in Socks, SockStep(s) PROVE CachedIsThere'
  <2>1. CASE \/ Authenticate(s) \/ CheckDuplicate(s) \/ Accept(s) \/ RegisterRow(s)
            \/ (\E st \in Declared : UpdateRow(s, st))
            \/ GetCached(s) \/ ClientDrops(s) \/ Leave(s) \/ UnregisterRow(s)
    <3>1. cache' = cache
      BY <2>1 DEF Authenticate, CheckDuplicate, Accept, RegisterRow, UpdateRow, GetCached,
           ClientDrops, Leave, UnregisterRow
    <3>2. sock[s].pc \in CachedPc \cup {"cut"} => sock'[s].pc \in CachedPc \cup {"cut"}
      <4>1. CASE Authenticate(s) \/ CheckDuplicate(s) \/ Accept(s)
        BY <4>1, HandshakePc DEF CachedPc
      <4>2. CASE RegisterRow(s) \/ (\E st \in Declared : UpdateRow(s, st)) \/ GetCached(s)
        BY <4>2 DEF RegisterRow, UpdateRow, GetCached, SockTo, CachedPc
      <4>3. CASE ClientDrops(s) \/ Leave(s) \/ UnregisterRow(s)
        BY <4>3 DEF ClientDrops, Leave, UnregisterRow, Leaving, SockTo, CachedPc
      <4> QED
        BY <2>1, <4>1, <4>2, <4>3
    <3>3. \A q \in Socks \ {s} : sock'[q] = sock[q]
      BY <1>1, SockFrame
    <3> QED
      BY <3>1, <3>2, <3>3
  <2>2. CASE CacheAgent(s) \/ SetCached(s)
    <3>1. sock'[s].pc \in CachedPc
      BY <2>2 DEF CacheAgent, SetCached, SockTo, CachedPc
    <3> QED
      BY <3>1
  <2>3. CASE Evict(s)
    BY <2>3 DEF Evict, CacheEvicted, NoEntry
  <2> QED
    BY <1>1, <2>1, <2>2, <2>3 DEF SockStep
<1>2. ASSUME NEW s \in Socks, EndpointRaises(s) PROVE CachedIsThere'
  <2>1. cache' = cache /\ sock'[s].pc = "cut"
    BY <1>2 DEF EndpointRaises, Cut
  <2> QED
    BY <2>1
<1>3. ASSUME NEW s \in Socks, UpdateRaises(s) PROVE CachedIsThere'
  <2>1. cache' = cache /\ sock'[s].pc \in CachedPc
    BY <1>3 DEF UpdateRaises, CachedPc
  <2> QED
    BY <2>1
<1>4. ASSUME NEW n \in Nodes, NodeCrashes(n) PROVE CachedIsThere'
  <2>1. cache' = cache
    BY <1>4 DEF NodeCrashes
  <2>2. \A s \in Socks : sock'[s].pc = "cut" \/ sock'[s] = sock[s]
    BY <1>4 DEF NodeCrashes, Cut
  <2> QED
    BY <2>1, <2>2
<1>5. CASE CacheExpires
  BY <1>5 DEF CacheExpires, NoEntry
<1>6. ASSUME NEW l \in Readers, LookupFills(l) PROVE CachedIsThere'
  <2>1. cache'.by = "lookup"
    BY <1>6 DEF LookupFills, ReadersType
  <2> QED
    BY <2>1
<1>7. CASE \/ UNCHANGED vars
          \/ (\E l \in Readers : LookupMisses(l))
          \/ \E c \in Calls : CallStep(c) \/ CallRaises(c)
  <2>1. sock' = sock /\ cache' = cache
    BY <1>7 DEF vars, sockVars, LookupMisses, CallRaises, CallStep, RegisterReads, RotateReads,
         WriteKey, ReturnKey, DeleteReads, DeleteRow, DeletePops
  <2> QED
    BY <2>1
<1> QED
  BY <1>1, <1>2, <1>3, <1>4, <1>5, <1>6, <1>7 DEF Next, ReaderStep

-----------------------------------------------------------------------------
(* As long as nothing has disturbed the directory, one endpoint at a time is   *)
(* between register and unregister, and what it has declared is what the row,  *)
(* the entry and the copy it is about to write back say.                       *)

Present(s) == sock[s].pc \in ListedPc \cup CachedPc

RowAgrees(s) == row # NoRow => row.status = sock[s].status /\ row.node = NodeOf[s]

EntryAgrees(e, s) == e.by = "endpoint" => e.status = sock[s].status /\ e.node = NodeOf[s]

Settled(s) ==
    /\ \A r \in Socks : Present(r) => r = s
    /\ sock[s].pc \in {"caching", "ready", "getting", "setting"} => RowAgrees(s)
    /\ sock[s].pc = "caching" => sock[s].status = "idle"
    /\ sock[s].pc = "ready" => EntryAgrees(cache, s)
    /\ sock[s].pc = "getting" /\ cache.by = "endpoint" => cache.node = NodeOf[s]
    /\ sock[s].pc = "setting" => EntryAgrees(sock[s].copy, s)

SettledInv == ~disturbed => \A s \in Socks : Present(s) => Settled(s)

\* The endpoint of s takes a step; nobody else is between register and unregister.
LEMMA SettledAlone ==
    ASSUME TypeOK, SettledInv, ~disturbed', NEW s \in Socks, SockStep(s),
           NEW r \in Socks, Present(r)'
    PROVE  Settled(r)'
<1> USE DEF TypeOK, SocksType
<1>1. \A q \in Socks \ {s} : sock'[q] = sock[q]
  BY SockFrame
<1>2. ~disturbed
  BY DEF SockStep, Authenticate, CheckDuplicate, Accept, RegisterRow, CacheAgent, UpdateRow,
     GetCached, SetCached, ClientDrops, Leave, UnregisterRow, Evict, history
<1>3. \A q \in Socks : Present(q) => Settled(q)
  BY <1>2 DEF SettledInv
<1>4. CASE Authenticate(s) \/ CheckDuplicate(s) \/ Accept(s) \/ ClientDrops(s)
  <2>1. row' = row /\ cache' = cache
    BY <1>4 DEF Authenticate, CheckDuplicate, Accept, ClientDrops
  <2>2. \/ sock' = sock
        \/ sock'[s].pc \notin ListedPc \cup CachedPc /\ sock[s].pc \notin ListedPc \cup CachedPc
    BY <1>4, HandshakePc DEF ClientDrops, ListedPc, CachedPc
  <2>3. \A q \in Socks : Present(q)' => Present(q) /\ sock'[q] = sock[q]
    BY <1>1, <2>2 DEF Present
  <2> QED
    BY <1>3, <2>1, <2>3 DEF Settled, RowAgrees, EntryAgrees
<1>5. CASE RegisterRow(s)
  <2>1. \A q \in Socks \ {s} : ~Present(q)
    BY <1>5 DEF RegisterRow, Running, Present
  <2>2. \A q \in Socks : Present(q)' => q = s
    BY <1>1, <2>1 DEF Present
  <2>3. sock'[s].pc = "caching" /\ sock'[s].status = "idle" /\ row' = RowUpserted(NodeOf[s])
    BY <1>5 DEF RegisterRow
  <2> QED
    BY <2>2, <2>3 DEF Settled, RowAgrees, RowUpserted
<1>6. CASE ~(Authenticate(s) \/ CheckDuplicate(s) \/ Accept(s) \/ ClientDrops(s) \/ RegisterRow(s))
  <2>1. Present(s)
    BY <1>6 DEF SockStep, CacheAgent, UpdateRow, GetCached, SetCached, Leave, UnregisterRow,
         Evict, Present, ListedPc, CachedPc
  <2>2. Settled(s) /\ \A q \in Socks : Present(q)' => q = s
    BY <1>1, <1>3, <2>1 DEF Settled, Present
  <2>3. r = s
    BY <2>2
  <2> USE DEF Settled, RowAgrees, EntryAgrees
  <2>4. CASE CacheAgent(s)
    <3>1. sock[s].pc = "caching" /\ sock'[s].pc = "ready" /\ sock'[s].status = sock[s].status
      BY <2>4 DEF CacheAgent, SockTo
    <3>2. row' = row /\ cache'.node = NodeOf[s] /\ cache'.status = "idle"
      BY <2>4 DEF CacheAgent, Entry
    <3> QED
      BY <2>2, <2>3, <3>1, <3>2
  <2>5. ASSUME NEW st \in Declared, UpdateRow(s, st) PROVE Settled(r)'
    BY <2>2, <2>3, <2>5 DEF UpdateRow, RowWithStatus, NoRow
  <2>6. CASE GetCached(s)
    BY <2>2, <2>3, <2>6 DEF GetCached, Hit, SockTo, CopyWithStatus, Entry, NoEntry
  <2>7. CASE SetCached(s)
    BY <2>2, <2>3, <2>7 DEF SetCached
  <2>8. CASE Leave(s)
    BY <2>2, <2>3, <2>8 DEF Leave, Leaving
  <2>9. CASE UnregisterRow(s)
    BY <2>2, <2>3, <2>9 DEF UnregisterRow, SockTo
  <2>10. CASE Evict(s)
    BY <2>2, <2>3, <2>10 DEF Evict, Gone
  <2> QED
    BY <1>6, <2>4, <2>5, <2>6, <2>7, <2>8, <2>9, <2>10 DEF SockStep
<1> QED
  BY <1>4, <1>5, <1>6

LEMMA SettledStep == TypeOK /\ SettledInv /\ [Next]_vars => SettledInv'
<1> SUFFICES ASSUME TypeOK, SettledInv, [Next]_vars, ~disturbed',
                    NEW r \in Socks, Present(r)'
             PROVE  Settled(r)'
  BY DEF SettledInv
<1> USE DEF TypeOK, SocksType
<1>1. ASSUME NEW s \in Socks, SockStep(s) PROVE Settled(r)'
  BY <1>1, SettledAlone
<1>2. ASSUME NEW c \in Calls, CallStep(c) PROVE Settled(r)'
  <2>1. sock' = sock /\ cache' = cache /\ ~disturbed
    BY <1>2 DEF CallStep, RegisterReads, RotateReads, WriteKey, ReturnKey, DeleteReads,
         DeleteRow, DeletePops, sockVars, history
  <2>2. Present(r) /\ Settled(r)
    BY <2>1 DEF Present, SettledInv
  <2>3. Running(r)
    BY <2>2 DEF Running, Present
  <2>4. row' = NoRow \/ (row # NoRow /\ row'.status = row.status /\ row'.node = row.node) \/ row' = row
    <3>1. CASE WriteKey(c)
      <4>1. call[c].pc # "insert"
        BY <2>1, <2>3, <3>1, <1>2 DEF WriteKey
      <4> QED
        BY <3>1, <4>1 DEF WriteKey, RowWithKey
    <3>2. CASE ~WriteKey(c)
      BY <1>2, <3>2 DEF CallStep, RegisterReads, RotateReads, ReturnKey, DeleteReads,
           DeleteRow, DeletePops
    <3> QED
      BY <3>1, <3>2
  <2> QED
    BY <2>1, <2>2, <2>4 DEF Settled, Present, RowAgrees, EntryAgrees
<1>3. CASE \/ (\E s \in Socks : EndpointRaises(s) \/ UpdateRaises(s))
          \/ (\E c \in Calls : CallRaises(c))
          \/ (\E n \in Nodes : NodeCrashes(n))
  BY <1>3 DEF EndpointRaises, UpdateRaises, CallRaises, NodeCrashes
<1>4. CASE \/ UNCHANGED vars \/ CacheExpires \/ (\E l \in Readers : ReaderStep(l))
  <2>1. sock' = sock /\ row' = row /\ ~disturbed
    BY <1>4 DEF vars, sockVars, history, CacheExpires, ReaderStep, LookupMisses, LookupFills
  <2>2. cache' = cache \/ cache'.by # "endpoint"
    BY <1>4 DEF vars, CacheExpires, NoEntry, ReaderStep, LookupMisses, LookupFills, ReadersType
  <2>3. Present(r) /\ Settled(r)
    BY <2>1 DEF Present, SettledInv
  <2> QED
    BY <2>1, <2>2, <2>3 DEF Settled, Present, RowAgrees, EntryAgrees
<1> QED
  BY <1>1, <1>2, <1>3, <1>4 DEF Next

-----------------------------------------------------------------------------
(* Keys. A call that has read the row and is still to write it knows the keys  *)
(* returned before it began. Their calls are over, so no other call can bring  *)
(* one of them back into the row in between.                                   *)

KeyInv ==
    /\ \A c \in returned : call[c].pc = "done"
    /\ \A c \in Calls : call[c].knew \subseteq returned
    /\ \A c \in Calls : call[c].pc \in WritePc /\ row.key \in call[c].knew
                           => row.key = call[c].old

LEMMA KeyStep == TypeOK /\ KeyInv /\ [Next]_vars => KeyInv'
<1> SUFFICES ASSUME TypeOK, KeyInv, [Next]_vars PROVE KeyInv'
  OBVIOUS
<1> USE DEF TypeOK, CallsType
<1>1. ASSUME NEW c \in Calls, CallStep(c) PROVE KeyInv'
  <2>1. CASE WriteKey(c)
    <3>1. \A d \in Calls : call'[d].knew \subseteq call[d].knew /\ call'[d].old \in {call[d].old, None}
      BY <2>1 DEF WriteKey, CallTo, Finish, Over
    <3>2. call'[c].pc \notin WritePc /\ \A d \in Calls \ {c} : call'[d] = call[d]
      BY <2>1 DEF WriteKey, CallTo, Finish, Over, WritePc
    <3>3. row'.key \in {row.key, c} /\ returned' = returned /\ c \notin returned
      BY <2>1 DEF WriteKey, RowInserted, RowWithKey, WritePc, KeyInv
    <3>4. \A d \in returned : call'[d].pc = "done"
      BY <3>2, <3>3 DEF KeyInv
    <3> QED
      BY <3>1, <3>2, <3>3, <3>4 DEF KeyInv
  <2>2. CASE ReturnKey(c)
    <3>1. call'[c].pc = "done" /\ call'[c].knew = {}
      BY <2>2 DEF ReturnKey, Finish, Over
    <3>2. \A d \in Calls \ {c} : call'[d] = call[d]
      BY <2>2 DEF ReturnKey, Finish
    <3>3. row' = row /\ returned' = returned \cup {c}
      BY <2>2 DEF ReturnKey
    <3> QED
      BY <3>1, <3>2, <3>3 DEF KeyInv, WritePc
  <2>3. CASE RegisterReads(c) \/ RotateReads(c) \/ DeleteReads(c)
    <3>1. UNCHANGED <<row, returned>> /\ call[c].pc = "new"
      BY <2>3 DEF RegisterReads, RotateReads, DeleteReads, history
    <3>2. \A d \in Calls \ {c} : call'[d] = call[d]
      BY <2>3 DEF RegisterReads, RotateReads, DeleteReads, Begin, Finish
    <3>3. call'[c].knew \subseteq returned
      BY <2>3 DEF RegisterReads, RotateReads, DeleteReads, Begin, Finish, Over
    <3>4. call'[c].pc \in WritePc => row.key \notin Calls \/ row.key = call'[c].old
      BY <2>3, DirectoryAssumption
         DEF RegisterReads, RotateReads, DeleteReads, Begin, Finish, Over, AlreadyRegistered,
             NoRow, WritePc, DirectoryAssumption
    <3> QED
      BY <3>1, <3>2, <3>3, <3>4 DEF KeyInv
  <2>4. CASE DeleteRow(c) \/ DeletePops(c)
    <3>1. returned' = returned /\ call[c].pc \in {"delete", "pop"}
      BY <2>4 DEF DeleteRow, DeletePops, history
    <3>2. call'[c].pc \notin WritePc /\ call'[c].knew \subseteq call[c].knew
      BY <2>4 DEF DeleteRow, DeletePops, CallTo, Finish, Over, WritePc
    <3>3. \A d \in Calls \ {c} : call'[d] = call[d]
      BY <2>4 DEF DeleteRow, DeletePops, CallTo, Finish
    <3>4. row' = row \/ row'.key \notin Calls
      BY <2>4, DirectoryAssumption DEF DeleteRow, DeletePops, NoRow, DirectoryAssumption
    <3> QED
      BY <3>1, <3>2, <3>3, <3>4 DEF KeyInv
  <2> QED
    BY <1>1, <2>1, <2>2, <2>3, <2>4 DEF CallStep
<1>2. ASSUME NEW s \in Socks, SockStep(s) PROVE KeyInv'
  <2>1. UNCHANGED <<call, returned>>
    BY <1>2 DEF SockStep, Authenticate, CheckDuplicate, Accept, RegisterRow, CacheAgent,
         UpdateRow, GetCached, SetCached, ClientDrops, Leave, UnregisterRow, Evict, history
  <2>2. \/ row' = row \/ row' = RowUpserted(NodeOf[s]) \/ \E st \in AgentStatus : row' = RowWithStatus(st)
    BY <1>2, DirectoryAssumption
       DEF SockStep, Authenticate, CheckDuplicate, Accept, RegisterRow, CacheAgent,
         UpdateRow, GetCached, SetCached, ClientDrops, Leave, UnregisterRow, Evict,
         RowUnregistered, DirectoryAssumption, AgentStatus
  <2>3. row'.key = row.key
    BY <2>2 DEF RowUpserted, RowWithStatus, NoRow
  <2> QED
    BY <2>1, <2>3 DEF KeyInv
<1>3. CASE (\E c \in Calls : CallRaises(c)) \/ (\E n \in Nodes : NodeCrashes(n))
  <2>1. \A d \in Calls : call'[d] = call[d] \/ call'[d] = Over
    BY <1>3 DEF CallRaises, Finish, NodeCrashes
  <2>2. UNCHANGED <<row, returned>>
    BY <1>3 DEF CallRaises, NodeCrashes
  <2>3. Over.pc = "done" /\ Over.pc \notin WritePc /\ Over.knew = {}
    BY DEF Over, WritePc
  <2>4. \A d \in returned : d \in Calls
    OBVIOUS
  <2>5. \A d \in returned' : call'[d].pc = "done"
    BY <2>1, <2>2, <2>3, <2>4 DEF KeyInv
  <2>6. \A d \in Calls : call'[d].knew \subseteq returned'
    BY <2>1, <2>2, <2>3 DEF KeyInv
  <2>7. \A d \in Calls : call'[d].pc \in WritePc /\ row'.key \in call'[d].knew
                            => row'.key = call'[d].old
    BY <2>1, <2>2, <2>3 DEF KeyInv
  <2> QED
    BY <2>5, <2>6, <2>7 DEF KeyInv
<1>4. CASE \/ UNCHANGED vars \/ CacheExpires \/ (\E l \in Readers : ReaderStep(l))
          \/ \E s \in Socks : EndpointRaises(s) \/ UpdateRaises(s)
  <2>1. UNCHANGED <<row, call, returned>>
    BY <1>4 DEF vars, history, CacheExpires, ReaderStep, LookupMisses, LookupFills,
         EndpointRaises, UpdateRaises
  <2> QED
    BY <2>1 DEF KeyInv
<1> QED
  BY <1>1, <1>2, <1>3, <1>4 DEF Next

-----------------------------------------------------------------------------
(* The theorems. *)

IInv == TypeOK /\ ListedIsThere /\ CachedIsThere /\ SettledInv /\ KeyInv

LEMMA InitInv == Init => IInv
<1> SUFFICES ASSUME Init PROVE IInv
  OBVIOUS
<1>1. TypeOK
  BY InitType
<1>2. ListedIsThere /\ CachedIsThere
  BY DEF Init, ListedIsThere, CachedIsThere, NoRow, NoEntry
<1>3. SettledInv
  BY DEF Init, SettledInv, Present, NewSock, ListedPc, CachedPc
<1>4. KeyInv
  BY DEF Init, KeyInv, NewCall, WritePc
<1> QED
  BY <1>1, <1>2, <1>3, <1>4 DEF IInv

LEMMA InvStep == IInv /\ [Next]_vars => IInv'
  BY TypeStep, ListedStep, CachedStep, SettledStep, KeyStep DEF IInv

LEMMA Invariance == Spec => []IInv
  BY InitInv, InvStep, PTL DEF Spec

\* Everything the bus keeps about an agent stays in its type, with any number of
\* nodes, connections, administrative calls and lookups, and under every fault.
THEOREM TypeCorrect == Spec => []TypeOK
<1>1. IInv => TypeOK
  BY DEF IInv
<1> QED
  BY <1>1, Invariance, PTL

\* An agent listed as idle or busy has an endpoint that is still to unregister it.
THEOREM ListedAgentIsThere == Spec => []ListedIsThere
<1>1. IInv => ListedIsThere
  BY DEF IInv
<1> QED
  BY <1>1, Invariance, PTL

\* The entry an endpoint has cached is evicted by the last endpoint to leave.
THEOREM CachedAgentIsThere == Spec => []CachedIsThere
<1>1. IInv => CachedIsThere
  BY DEF IInv
<1> QED
  BY <1>1, Invariance, PTL

\* Row and cache entry say what a connected agent last declared, as long as
\* nothing has disturbed the directory.
THEOREM DirectoryAgrees == Spec => []ListedAsDeclared
<1>1. IInv => ListedAsDeclared
  BY DEF IInv, SettledInv, Settled, Present, RowAgrees, EntryAgrees, ListedAsDeclared, ListedPc
<1> QED
  BY <1>1, Invariance, PTL

\* A key that was in use when an administrative call began is only replaced by a
\* call that presented it, in every interleaving of the calls' statements.
THEOREM KeysAreSafe == Spec => EstablishedKeyIsSafe
<1>1. IInv /\ [Next]_vars =>
        [\A c \in Calls :
            call[c].pc \in WritePc /\ row'.key = c /\ row.key \in call[c].knew
                => row.key = call[c].old]_vars
  BY DEF IInv, KeyInv
<1> QED
  BY <1>1, Invariance, PTL DEF Spec, EstablishedKeyIsSafe

=============================================================================
