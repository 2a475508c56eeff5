------------------------ MODULE TaskClaimsRefinement ------------------------
(* TaskClaims implements TaskBoard, for all values of its constants, and an      *)
(* outcome a worker has recorded is kept.                                        *)
EXTENDS TaskClaimsProofs

\* Workers only ever see tasks that have been posted, so only those have claims.
PostedEnvelopes == {e \in Envelopes : msgStatus[e.task] # "none"}

PostedInv ==
    /\ \A w \in Workers : queue[w] \in Seq(PostedEnvelopes)
    /\ \A t \in Tasks : msgStatus[t] = "none" => claims[t] = NoClaim

MappedInv == IInv /\ PostedInv

\* It holds after a step that takes no message back, adds no claim and puts no
\* frame into a queue.
LEMMA PostedStays ==
    ASSUME MappedInv,
           \A t \in Tasks : msgStatus'[t] = "none" => msgStatus[t] = "none",
           \A t \in Tasks : claims[t] = NoClaim => claims'[t] = NoClaim,
           \A w \in Workers : \/ queue'[w] = queue[w] \/ queue'[w] = <<>>
                              \/ queue[w] # <<>> /\ queue'[w] = Tail(queue[w])
    PROVE  PostedInv'
<1>1. PostedEnvelopes \subseteq PostedEnvelopes'
  BY DEF PostedEnvelopes, Envelopes
<1>2. Seq(PostedEnvelopes) \subseteq Seq(PostedEnvelopes')
  BY <1>1, SeqSubset
<1>3. \A w \in Workers : queue'[w] \in Seq(PostedEnvelopes)
  <2> SUFFICES ASSUME NEW w \in Workers PROVE queue'[w] \in Seq(PostedEnvelopes)
    OBVIOUS
  <2>1. queue[w] \in Seq(PostedEnvelopes)
    BY DEF MappedInv, PostedInv
  <2>2. CASE queue'[w] = queue[w]
    BY <2>1, <2>2
  <2>3. CASE queue'[w] = <<>>
    BY <2>3
  <2>4. CASE queue[w] # <<>> /\ queue'[w] = Tail(queue[w])
    <3>1. Tail(queue[w]) \in Seq(PostedEnvelopes)
      BY <2>1, <2>4
    <3> QED
      BY <2>4, <3>1
  <2> QED
    BY <2>2, <2>3, <2>4
<1>4. \A t \in Tasks : msgStatus'[t] = "none" => claims'[t] = NoClaim
  BY DEF MappedInv, PostedInv
<1> QED
  BY <1>2, <1>3, <1>4 DEF PostedInv

LEMMA DeliverPosts ==
    ASSUME MappedInv, NEW n \in Nodes, Deliver(n) PROVE PostedInv'
<1> DEFINE env == listener[n].env
<1>1. UNCHANGED <<claims, msgStatus>>
  BY DEF Deliver
<1>2. \A w \in Workers : \/ queue'[w] = queue[w]
                         \/ References(env) /\ queue'[w] = Append(queue[w], env)
  BY DEF Deliver
<1>3. env \in Envelopes
  BY DEF Deliver, MappedInv, IInv, TypeOK, NodeType
<1>4. References(env) => env \in PostedEnvelopes
  BY <1>3 DEF References, PostedEnvelopes
<1> HIDE DEF env
<1>5. \A w \in Workers : queue'[w] \in Seq(PostedEnvelopes)
  BY <1>2, <1>4 DEF MappedInv, PostedInv
<1>6. PostedEnvelopes' = PostedEnvelopes
  BY <1>1 DEF PostedEnvelopes
<1> QED
  BY <1>1, <1>5, <1>6 DEF MappedInv, PostedInv

LEMMA TakePosts ==
    ASSUME MappedInv, NEW w \in Workers, Take(w)
    PROVE  PostedInv' /\ Head(queue[w]) \in PostedEnvelopes
<1> DEFINE env == Head(queue[w])
<1>1. queue[w] \in Seq(PostedEnvelopes) /\ queue[w] # <<>> /\ queue \in [Workers -> Seq(Envelopes)]
  BY DEF Take, MappedInv, PostedInv, IInv, TypeOK, WorkerType
<1>2. env \in PostedEnvelopes /\ Tail(queue[w]) \in Seq(PostedEnvelopes)
  BY <1>1
<1>3. env.task \in Tasks /\ msgStatus[env.task] # "none"
  BY <1>2 DEF PostedEnvelopes, Envelopes
<1>4. queue' = [queue EXCEPT ![w] = Tail(queue[w])] /\ UNCHANGED msgStatus
  BY DEF Take
<1>5. \A v \in Workers : queue'[v] \in Seq(PostedEnvelopes)
  BY <1>1, <1>2, <1>4 DEF MappedInv, PostedInv
<1>6. \A t \in Tasks \ {env.task} : claims'[t] = claims[t]
  BY DEF Take, MappedInv, IInv, TypeOK, ClaimsType
<1>7. PostedEnvelopes' = PostedEnvelopes
  BY <1>4 DEF PostedEnvelopes
<1> HIDE DEF env
<1>8. \A t \in Tasks : msgStatus'[t] = "none" => claims'[t] = NoClaim
  BY <1>3, <1>4, <1>6 DEF MappedInv, PostedInv
<1> QED
  BY <1>2, <1>5, <1>7, <1>8 DEF PostedInv, env

\* What a sweeper takes back is not a dead letter, and what it gives up has had
\* its attempts: its snapshot of a row is right as long as the row is there.
LEMMA SnapshotFacts ==
    ASSUME MappedInv, NEW n \in Nodes, NEW c \in sweeper[n].todo, RowThere(c.task, c.id)
    PROVE  /\ c.task \in Tasks /\ claims[c.task] # NoClaim
           /\ OutOfAttempts(c.attempt) => made[c.task] >= MaxAttempts
           /\ ~OutOfAttempts(c.attempt) => msgStatus[c.task] # "dead_letter"
<1>1. TypeOK /\ ClaimsType /\ ClaimInv /\ DeadLetterInv
  BY DEF MappedInv, IInv, TypeOK
<1>2. /\ c.task \in Tasks /\ c.id \in Nat \ {0} /\ c.attempt \in Nat
      /\ c.id = claims[c.task].id => c.attempt = claims[c.task].attempt
  BY <1>1 DEF MappedInv, IInv, SnapshotInv, TypeOK, NodeType, Snapshots, SoundSnapshots
<1>3. c.attempt = claims[c.task].attempt
  BY <1>2 DEF RowThere
<1>4. claims[c.task] # NoClaim
  BY <1>1, <1>2, RowIsClaim
<1>5. /\ claims[c.task].attempt \in Nat /\ made[c.task] \in Nat /\ MaxAttempts \in Nat
      /\ claims[c.task].attempt <= made[c.task]
  BY <1>1, <1>2, ClaimFields, ClaimsAssumption DEF ClaimInv
<1>6. msgStatus[c.task] = "dead_letter" => claims[c.task].attempt >= MaxAttempts
  BY <1>1, <1>2 DEF DeadLetterInv
<1> QED
  BY <1>2, <1>3, <1>4, <1>5, <1>6 DEF OutOfAttempts

LEMMA PostedStep == MappedInv /\ [Next]_vars => PostedInv'
<1> SUFFICES ASSUME MappedInv, [Next]_vars PROVE PostedInv'
  OBVIOUS
<1>0. TypeOK /\ ClaimsType /\ queue \in [Workers -> Seq(Envelopes)]
  BY DEF MappedInv, IInv, TypeOK, WorkerType
<1>1. CASE UNCHANGED vars
  BY <1>1, PostedStays DEF vars, dbVars, workerVars
<1>2. ASSUME NEW t \in Tasks, Post(t) PROVE PostedInv'
  BY <1>0, <1>2, PostedStays DEF Post, workerVars, ClaimsType
<1>3. ASSUME NEW t \in Tasks, Expire(t) PROVE PostedInv'
  <2>1. UNCHANGED <<msgStatus, queue>> /\ claims[t].status = "claimed"
        /\ claims' = [claims EXCEPT ![t].expired = TRUE]
    BY <1>3 DEF Expire, workerVars
  <2>2. \A u \in Tasks : u # t => claims'[u] = claims[u]
    BY <1>0, <2>1 DEF ClaimsType
  <2>3. claims[t] # NoClaim
    BY <2>1 DEF NoClaim
  <2> QED
    BY <2>1, <2>2, <2>3, PostedStays
<1>4. ASSUME NEW w \in Workers, WorkerStep(w), ~Take(w), ~CompleteWrite(w) PROVE PostedInv'
  BY <1>0, <1>4, PostedStays DEF WorkerStep, SetBusy, Finish, CompleteRead, Reply, SeesClosed,
     Connect, dbVars
<1>5. ASSUME NEW w \in Workers, CompleteWrite(w) PROVE PostedInv'
  <2> DEFINE t == worker[w].env.task
  <2>1. t \in Tasks /\ worker[w].id \in Nat \ {0}
    BY <1>0, <1>5 DEF CompleteWrite, TypeOK, WorkerType, BusyPc, Envelopes
  <2>2. UNCHANGED <<msgStatus, queue>>
    BY <1>5 DEF CompleteWrite
  <2>3. CASE ~RowThere(t, worker[w].id)
    BY <1>5, <2>2, <2>3, PostedStays DEF CompleteWrite
  <2>4. CASE RowThere(t, worker[w].id)
    <3>1. claims[t] # NoClaim
      BY <1>0, <2>1, <2>4, RowIsClaim
    <3>2. \A u \in Tasks : u # t => claims'[u] = claims[u]
      BY <1>0, <1>5, <2>4 DEF CompleteWrite, WithStatus, ClaimsType
    <3> HIDE DEF t
    <3> QED
      BY <2>2, <3>1, <3>2, PostedStays
  <2> QED
    BY <2>3, <2>4
<1>6. ASSUME NEW w \in Workers, EndpointStep(w) PROVE PostedInv'
  BY <1>6, PostedStays DEF EndpointStep, Register, CleanUp, Cleared, dbVars, workerVars
<1>7. ASSUME NEW w \in Workers, WorkerFault(w) PROVE PostedInv'
  BY <1>0, <1>7, PostedStays DEF WorkerFault, Drop, Kill, ConnectFails, WorkerRaises, dbVars
<1>8. ASSUME NEW n \in Nodes, Receive(n) PROVE PostedInv'
  BY <1>8, PostedStays DEF Receive, dbVars, workerVars
<1>9. ASSUME NEW n \in Nodes, NEW c \in sweeper[n].todo, UNCHANGED queue,
             SweepDeadLetter(n, c) \/ SweepReclaim(n, c)
      PROVE  PostedInv'
  <2>1. CASE ~RowThere(c.task, c.id)
    BY <1>9, <2>1, PostedStays DEF SweepDeadLetter, SweepReclaim
  <2>2. CASE RowThere(c.task, c.id)
    <3>1. c.task \in Tasks /\ claims[c.task] # NoClaim
      BY <2>2, SnapshotFacts
    <3>2. \A u \in Tasks : u # c.task => claims'[u] = claims[u]
      BY <1>0, <1>9, <2>2 DEF SweepDeadLetter, SweepReclaim, GivenUp, Deleted, WithStatus, ClaimsType
    <3>3. \A u \in Tasks : msgStatus'[u] = "none" => msgStatus[u] = "none"
      BY <1>0, <1>9, <2>2, <3>1 DEF SweepDeadLetter, SweepReclaim, ClaimsType
    <3> QED
      BY <1>9, <3>1, <3>2, <3>3, PostedStays
  <2> QED
    BY <2>1, <2>2
<1>10. ASSUME NEW n \in Nodes, SweeperStep(n) \/ NodeFault(n) PROVE PostedInv'
  <2>1. CASE SweepOne(n)
    BY <1>9, <2>1 DEF SweepOne, workerVars
  <2>2. CASE SweepScan(n) \/ SweepPublish(n) \/ NodeFault(n)
    BY <2>2, PostedStays DEF SweepScan, SweepPublish,
       SweepRaises, ListenerRaises, NodeFault, dbVars, workerVars
  <2> QED
    BY <1>10, <2>1, <2>2 DEF SweeperStep
<1> QED
  BY <1>1, <1>2, <1>3, <1>4, <1>5, <1>6, <1>7, <1>8, <1>10, TakePosts, DeliverPosts
     DEF Next, ListenerStep

-----------------------------------------------------------------------------
(* Step simulation. *)

LEMMA RowFacts ==
    ASSUME MappedInv, NEW t \in Tasks
    PROVE  /\ claims[t].status = "none" <=> claims[t] = NoClaim
           /\ claims[t] # NoClaim => /\ msgStatus[t] # "none" /\ claims[t].agent \in Workers
                                     /\ claims[t].status \in ClaimStatus
           /\ msgStatus[t] = "dead_letter" =>
                 /\ claims[t].status \in {"timed_out", "completed", "failed"}
                 /\ claims[t].attempt >= MaxAttempts
           /\ NoClaim.agent = None /\ NoClaim.status = "none"
<1>1. claims[t] \in {NoClaim} \cup Claims
  BY DEF MappedInv, IInv, TypeOK, ClaimsType
<1>2. claims[t] # NoClaim => claims[t].agent \in Workers /\ claims[t].status \in ClaimStatus
  BY <1>1 DEF Claims
<1>3. NoClaim.agent = None /\ NoClaim.status = "none"
  BY DEF NoClaim
<1> QED
  BY <1>2, <1>3 DEF ClaimStatus, MappedInv, PostedInv, IInv, DeadLetterInv

\* One task moves on the board.
LEMMA Moves ==
    ASSUME NEW t \in Tasks, NEW x, \A u \in Tasks : Standing(u)' = IF u = t THEN x ELSE Standing(u)
    PROVE  [u \in Tasks |-> Standing(u)]' = [[u \in Tasks |-> Standing(u)] EXCEPT ![t] = x]
  OBVIOUS

LEMMA Owns ==
    ASSUME NEW t \in Tasks, NEW w,
           \A u \in Tasks : claims'[u].agent = IF u = t THEN w ELSE claims[u].agent
    PROVE  [u \in Tasks |-> claims[u].agent]' = [[u \in Tasks |-> claims[u].agent] EXCEPT ![t] = w]
  OBVIOUS

\* The steps that the board does not see.
LEMMA Unseen ==
    ASSUME UNCHANGED made, \A t \in Tasks : Standing(t)' = Standing(t),
           \A t \in Tasks : claims'[t].agent = claims[t].agent
    PROVE  UNCHANGED Board!vars
  BY DEF Board!vars

LEMMA UnchangedUnseen ==
    ASSUME UNCHANGED <<claims, made, msgStatus>> PROVE UNCHANGED Board!vars
  BY Unseen DEF Standing

\* The steps on the claims table that the board sees, or that it does not.
LEMMA PostMaps == ASSUME MappedInv, NEW t \in Tasks, Post(t) PROVE Board!Post(t)
<1>1. msgStatus' = [msgStatus EXCEPT ![t] = "pending"] /\ UNCHANGED <<claims, made>>
  BY DEF Post
<1>2. msgStatus[t] = "none" /\ claims[t] = NoClaim /\ claims[t].status = "none"
  BY RowFacts DEF Post, MappedInv, PostedInv
<1>3. \A u \in Tasks : Standing(u)' = IF u = t THEN "open" ELSE Standing(u)
  BY <1>1, <1>2 DEF Standing, MappedInv, IInv, TypeOK, ClaimsType
<1> QED
  BY <1>1, <1>2, <1>3, Moves DEF Board!Post, Standing

LEMMA ExpireMaps == ASSUME MappedInv, NEW t \in Tasks, Expire(t) PROVE UNCHANGED Board!vars
<1> DEFINE c == [claims[t] EXCEPT !.expired = TRUE]
<1>1. claims \in [Tasks -> {NoClaim} \cup Claims] /\ claims[t] # NoClaim
  BY DEF Expire, MappedInv, IInv, TypeOK, ClaimsType, NoClaim
<1>2. c.status = claims[t].status /\ c.agent = claims[t].agent
  BY <1>1 DEF Claims
<1>3. claims' = [claims EXCEPT ![t] = c] /\ UNCHANGED <<made, msgStatus>>
  BY DEF Expire
<1> HIDE DEF c
<1>4. \A u \in Tasks : claims'[u].status = claims[u].status /\ claims'[u].agent = claims[u].agent
  BY <1>1, <1>2, <1>3
<1> QED
  BY <1>3, <1>4, Unseen DEF Standing

LEMMA TakeMaps ==
    ASSUME MappedInv, NEW w \in Workers, Take(w) PROVE [Board!Next]_(Board!vars)
<1> DEFINE t == Head(queue[w]).task
<1>1. t \in Tasks /\ msgStatus[t] # "none"
  BY TakePosts DEF PostedEnvelopes, Envelopes
<1>2. CASE ~Claimable(t)
  BY <1>2, UnchangedUnseen DEF Take
<1>3. CASE Claimable(t)
  <2>1. PICK k : /\ made' = [made EXCEPT ![t] = @ + 1] /\ UNCHANGED msgStatus
                 /\ claims' = [claims EXCEPT ![t] =
                       [id |-> made[t] + 1, agent |-> w, status |-> "claimed",
                        attempt |-> k, expired |-> FALSE]]
    BY <1>3 DEF Take
  <2>2. claims[t].status = "none" /\ msgStatus[t] # "dead_letter"
    BY <1>1, <1>3, RowFacts DEF Claimable
  <2> HIDE DEF t
  <2>3. \A u \in Tasks : /\ claims'[u].status = IF u = t THEN "claimed" ELSE claims[u].status
                         /\ claims'[u].agent = IF u = t THEN w ELSE claims[u].agent
    BY <1>1, <2>1 DEF MappedInv, IInv, TypeOK, ClaimsType
  <2>4. \A u \in Tasks : Standing(u)' = IF u = t THEN "held" ELSE Standing(u)
    BY <1>1, <2>1, <2>2, <2>3 DEF Standing
  <2>5. Standing(t) = "open"
    BY <1>1, <2>2 DEF Standing
  <2>6. Board!Take(t, w)
    BY <1>1, <2>1, <2>3, <2>4, <2>5, Moves, Owns DEF Board!Take
  <2> QED
    BY <1>1, <2>6 DEF Board!Next
<1> QED
  BY <1>2, <1>3

\* A new status for a claim.
LEMMA StatusMoves ==
    ASSUME MappedInv, NEW t \in Tasks, claims[t] # NoClaim, NEW s, claims' = WithStatus(t, s)
    PROVE  \A u \in Tasks : /\ claims'[u].status = IF u = t THEN s ELSE claims[u].status
                            /\ claims'[u].agent = claims[u].agent /\ claims'[u].id = claims[u].id
                            /\ u # t => claims'[u] = claims[u]
<1> DEFINE c == [claims[t] EXCEPT !.status = s]
<1>1. claims \in [Tasks -> {NoClaim} \cup Claims]
  BY DEF MappedInv, IInv, TypeOK, ClaimsType
<1>2. c.agent = claims[t].agent /\ c.id = claims[t].id /\ c.status = s
  BY <1>1 DEF Claims
<1>3. claims' = [claims EXCEPT ![t] = c]
  BY DEF WithStatus
<1> HIDE DEF c
<1> QED
  BY <1>1, <1>2, <1>3

LEMMA CompleteWriteMaps ==
    ASSUME MappedInv, NEW w \in Workers, CompleteWrite(w) PROVE [Board!Next]_(Board!vars)
<1> DEFINE t == worker[w].env.task
<1>1. t \in Tasks /\ worker[w].id \in Nat \ {0} /\ UNCHANGED <<made, msgStatus>>
  BY DEF CompleteWrite, MappedInv, IInv, TypeOK, WorkerType, BusyPc, Envelopes
<1>2. CASE ~RowThere(t, worker[w].id)
  BY <1>1, <1>2, UnchangedUnseen DEF CompleteWrite
<1>3. CASE RowThere(t, worker[w].id)
  <2>1. PICK o \in {"completed", "failed"} : claims' = WithStatus(t, o)
    <3>1. Outcome(worker[w].failed) \in {"completed", "failed"}
      BY DEF Outcome
    <3> QED
      BY <1>3, <3>1 DEF CompleteWrite
  <2>2. claims[t] # NoClaim
    BY <1>1, <1>3, RowIsClaim DEF MappedInv, IInv, TypeOK
  <2> HIDE DEF t
  <2>3. /\ claims[t].status \in ClaimStatus /\ msgStatus[t] # "none"
    BY <1>1, <2>2, RowFacts
  <2>4. \A u \in Tasks : /\ claims'[u].status = IF u = t THEN o ELSE claims[u].status
                         /\ claims'[u].agent = claims[u].agent
    BY <1>1, <2>1, <2>2, StatusMoves
  <2>5. CASE Standing(t) = "held"
    <3>1. \A u \in Tasks : Standing(u)' = IF u = t THEN "settled" ELSE Standing(u)
      BY <1>1, <2>1, <2>3, <2>4, <2>5 DEF Standing
    <3>2. Board!Settle(t)
      BY <1>1, <2>4, <2>5, <3>1, Moves DEF Board!Settle
    <3> QED
      BY <1>1, <3>2 DEF Board!Next
  <2>6. CASE Standing(t) # "held"
    <3>1. \A u \in Tasks : Standing(u)' = Standing(u)
      BY <1>1, <2>1, <2>3, <2>4, <2>6 DEF Standing, ClaimStatus
    <3> QED
      BY <1>1, <2>4, <3>1, Unseen
  <2> QED
    BY <2>5, <2>6
<1> QED
  BY <1>2, <1>3

LEMMA RegisterMaps == ASSUME MappedInv, NEW w \in Workers, Register(w) PROVE Board!Release(w)
<1> DEFINE mine == {t \in Tasks : Standing(t) = "held" /\ claims[t].agent = w}
<1>1. UNCHANGED <<made, msgStatus>>
  BY DEF Register
<1>2. \A t \in Tasks : claims'[t] = IF claims[t].agent = w /\ claims[t].status = "claimed"
                                    THEN NoClaim ELSE claims[t]
  BY DEF Register, Cleared
<1>3. \A t \in Tasks : t \in mine <=> claims[t].agent = w /\ claims[t].status = "claimed"
  <2> SUFFICES ASSUME NEW t \in Tasks, claims[t].agent = w, claims[t].status = "claimed"
               PROVE  Standing(t) = "held"
    BY DEF Standing
  <2> QED
    BY RowFacts DEF Standing
<1>4. \A t \in Tasks : t \in mine => Standing(t) = "held"
  OBVIOUS
<1> HIDE DEF mine
<1>5. \A t \in Tasks : /\ claims'[t].agent = IF t \in mine THEN None ELSE claims[t].agent
                       /\ Standing(t)' = IF t \in mine THEN "open" ELSE Standing(t)
  BY <1>1, <1>2, <1>3, <1>4 DEF Standing, NoClaim
<1> QED
  BY <1>1, <1>5 DEF Board!Release, mine

LEMMA SweepOneMaps ==
    ASSUME MappedInv, NEW n \in Nodes, SweepOne(n) PROVE [Board!Next]_(Board!vars)
<1>1. PICK c \in sweeper[n].todo : SweepDeadLetter(n, c) \/ SweepReclaim(n, c)
  BY DEF SweepOne
<1>2. UNCHANGED made /\ ClaimsType
  BY DEF SweepOne, MappedInv, IInv, TypeOK
<1>3. CASE ~RowThere(c.task, c.id)
  BY <1>1, <1>2, <1>3, UnchangedUnseen DEF SweepDeadLetter, SweepReclaim
<1>4. CASE RowThere(c.task, c.id)
  <2> DEFINE t == c.task
  <2>1. /\ t \in Tasks /\ claims[t] # NoClaim
        /\ OutOfAttempts(c.attempt) => made[t] >= MaxAttempts
        /\ ~OutOfAttempts(c.attempt) => msgStatus[t] # "dead_letter"
    BY <1>4, SnapshotFacts
  <2>2. /\ claims[t].status \in ClaimStatus /\ msgStatus[t] # "none"
    BY <2>1, RowFacts
  <2>3. Standing(t) \in {"held", "settled", "dead"}
    BY <2>1, <2>2 DEF Standing, ClaimStatus
  <2>4. CASE SweepDeadLetter(n, c)
    <3>1. /\ claims' = WithStatus(t, "timed_out")
          /\ msgStatus' = [msgStatus EXCEPT ![t] = "dead_letter"]
          /\ made[t] >= MaxAttempts
      BY <1>4, <2>1, <2>4 DEF SweepDeadLetter, GivenUp
    <3> HIDE DEF t
    <3>2. \A u \in Tasks : /\ claims'[u].status = IF u = t THEN "timed_out" ELSE claims[u].status
                           /\ claims'[u].agent = claims[u].agent
      BY <2>1, <3>1, StatusMoves
    <3>3. \A u \in Tasks : Standing(u)' = IF u = t THEN "dead" ELSE Standing(u)
      BY <1>2, <2>1, <3>1, <3>2 DEF Standing, ClaimsType
    <3>4. CASE Standing(t) = "dead"
      BY <1>2, <3>2, <3>3, <3>4, Unseen
    <3>5. CASE Standing(t) \in {"held", "settled"}
      <4>1. Board!GiveUp(t)
        BY <1>2, <2>1, <3>1, <3>2, <3>3, <3>5, Moves DEF Board!GiveUp
      <4> QED
        BY <2>1, <4>1 DEF Board!Next
    <3> QED
      BY <2>3, <3>4, <3>5
  <2>5. CASE SweepReclaim(n, c)
    <3>1. claims' = [claims EXCEPT ![t] = NoClaim] /\ UNCHANGED msgStatus
          /\ msgStatus[t] # "dead_letter"
      BY <1>4, <2>1, <2>5 DEF SweepReclaim, Deleted
    <3> HIDE DEF t
    <3>2. \A u \in Tasks : claims'[u] = IF u = t THEN NoClaim ELSE claims[u]
      BY <1>2, <3>1 DEF ClaimsType
    <3>3. \A u \in Tasks : /\ Standing(u)' = IF u = t THEN "open" ELSE Standing(u)
                           /\ claims'[u].agent = IF u = t THEN None ELSE claims[u].agent
      BY <2>2, <3>1, <3>2 DEF Standing, NoClaim
    <3>4. Standing(t) \in {"held", "settled"}
      BY <2>3, <3>1 DEF Standing
    <3>5. Board!Reopen(t)
      BY <1>2, <2>1, <3>3, <3>4, Moves, Owns DEF Board!Reopen
    <3> QED
      BY <2>1, <3>5 DEF Board!Next
  <2> QED
    BY <1>1, <2>4, <2>5
<1> QED
  BY <1>3, <1>4

LEMMA StepMaps == MappedInv /\ [Next]_vars => [Board!Next]_(Board!vars)
<1> SUFFICES ASSUME MappedInv, [Next]_vars PROVE [Board!Next]_(Board!vars)
  OBVIOUS
<1>1. CASE UNCHANGED vars
  BY <1>1, UnchangedUnseen DEF vars, dbVars
<1>2. ASSUME NEW t \in Tasks, Post(t) \/ Expire(t) PROVE [Board!Next]_(Board!vars)
  BY <1>2, PostMaps, ExpireMaps DEF Board!Next
<1>3. ASSUME NEW w \in Workers, WorkerStep(w) \/ WorkerFault(w) PROVE [Board!Next]_(Board!vars)
  <2>1. CASE Take(w) \/ CompleteWrite(w)
    BY <2>1, TakeMaps, CompleteWriteMaps
  <2>2. CASE ~Take(w) /\ ~CompleteWrite(w)
    <3>1. UNCHANGED <<claims, made, msgStatus>>
      BY <1>3, <2>2 DEF WorkerStep, SetBusy, Finish, CompleteRead, Reply, SeesClosed, Connect,
         WorkerFault, Drop, Kill, ConnectFails, WorkerRaises, dbVars
    <3> QED
      BY <3>1, UnchangedUnseen
  <2> QED
    BY <2>1, <2>2
<1>4. ASSUME NEW w \in Workers, EndpointStep(w) PROVE [Board!Next]_(Board!vars)
  <2>1. CASE Register(w)
    BY <2>1, RegisterMaps DEF Board!Next
  <2>2. CASE CleanUp(w)
    BY <2>2, UnchangedUnseen DEF CleanUp, dbVars
  <2> QED
    BY <1>4, <2>1, <2>2 DEF EndpointStep
<1>5. ASSUME NEW n \in Nodes, ListenerStep(n) \/ SweepScan(n) \/ SweepPublish(n) \/ NodeFault(n)
      PROVE  [Board!Next]_(Board!vars)
  BY <1>5, UnchangedUnseen
     DEF ListenerStep, Receive, Deliver, SweepScan, SweepPublish,
        SweepRaises, ListenerRaises, NodeFault, dbVars
<1> QED
  BY <1>1, <1>2, <1>3, <1>4, <1>5, SweepOneMaps DEF Next, SweeperStep

\* Whatever workers, connections and sweepers do, and whatever faults there are,
\* the claims table does to a task what the abstract board does
\* (worker_agent.py: _try_claim, _complete_claim; claim_sweeper.py: _sweep;
\* agent_registry.py: register).
THEOREM BoardIsImplemented == Spec => ImplementsBoard
<1>1. Init => MappedInv
  <2>1. Init => PostedInv
    BY DEF Init, PostedInv
  <2> QED
    BY <2>1, InitInv DEF MappedInv
<1>2. MappedInv /\ [Next]_vars => MappedInv'
  BY PostedStep, InvStep DEF MappedInv
<1>3. Init => Board!Init
  BY DEF Init, Board!Init, Standing, NoClaim
<1>4. Board!Init /\ [][Board!Next]_(Board!vars) => ImplementsBoard
  BY DEF ImplementsBoard, Board!Spec
<1> QED
  BY <1>1, <1>2, <1>3, <1>4, StepMaps, PTL DEF Spec

-----------------------------------------------------------------------------
(* The row of one task, and the outcome recorded in it. *)

Outcomes == {"completed", "failed"}

\* The claim is the one it was, and changes only while it is in flight.
SameClaim(t) ==
    /\ claims'[t].id = claims[t].id /\ claims'[t].agent = claims[t].agent
    /\ claims'[t].status = claims[t].status
    /\ claims[t].status \in Outcomes => claims'[t] = claims[t]

\* The worker of the task records the outcome of its claim.
Answered(t) ==
    \E w \in Workers : /\ CompleteWrite(w) /\ worker[w].env.task = t
                       /\ worker[w].id = claims[t].id
                       /\ worker'[w].pc = "reply" /\ worker'[w].env = worker[w].env

\* A sweeper is about to publish the task anew.
TakenBack(t) == \E n \in Nodes : sweeper'[n].out.kind = "task" /\ sweeper'[n].out.task = t

RowMove(t) ==
    \/ SameClaim(t)
    \/ claims'[t] = NoClaim /\ claims[t].status = "claimed" /\ \E w \in Workers : Register(w)
    \/ claims'[t] = NoClaim /\ Selected(t) /\ TakenBack(t)
    \/ /\ claims'[t].id = claims[t].id /\ claims'[t].agent = claims[t].agent
       /\ \/ claims'[t].status = "timed_out" /\ Selected(t)
          \/ claims'[t].status \in Outcomes /\ Answered(t)

\* What becomes of a task's row, unless a worker takes the task.
LEMMA RowMoves ==
    ASSUME MappedInv, [Next]_vars, \A w \in Workers : ~Take(w), NEW t \in Tasks
    PROVE  RowMove(t)
<1>0. TypeOK /\ ClaimsType /\ WorkerType
  BY DEF MappedInv, IInv, TypeOK
<1>1. CASE claims'[t] = claims[t]
  BY <1>1 DEF RowMove, SameClaim
<1>2. ASSUME NEW u \in Tasks, Expire(u) PROVE RowMove(t)
  <2> DEFINE c == [claims[u] EXCEPT !.expired = TRUE]
  <2>1. claims[u] \in Claims /\ claims' = [claims EXCEPT ![u] = c] /\ claims[u].status = "claimed"
    BY <1>0, <1>2 DEF Expire, ClaimsType, NoClaim
  <2>2. c.status = claims[u].status /\ c.agent = claims[u].agent /\ c.id = claims[u].id
    BY <2>1 DEF Claims
  <2> HIDE DEF c
  <2>3. CASE u # t
    BY <1>0, <1>1, <2>1, <2>3 DEF ClaimsType
  <2>4. CASE u = t
    BY <1>0, <2>1, <2>2, <2>4 DEF ClaimsType, RowMove, SameClaim, Outcomes
  <2> QED
    BY <2>3, <2>4
<1>3. ASSUME NEW w \in Workers, Register(w) PROVE RowMove(t)
  <2>1. \/ claims'[t] = claims[t]
        \/ claims'[t] = NoClaim /\ claims[t].status = "claimed"
    BY <1>3 DEF Register, Cleared
  <2> QED
    BY <1>1, <1>3, <2>1 DEF RowMove
<1>4. ASSUME NEW w \in Workers, CompleteWrite(w) PROVE RowMove(t)
  <2> DEFINE u == worker[w].env.task
             o == Outcome(worker[w].failed)
  <2>1. u \in Tasks /\ worker[w].id \in Nat \ {0}
    BY <1>0, <1>4 DEF CompleteWrite, WorkerType, BusyPc, Envelopes
  <2>2. CASE RowThere(u, worker[w].id)
    <3>1. claims' = WithStatus(u, o) /\ worker' = [worker EXCEPT ![w].pc = "reply"]
      BY <1>4, <2>2 DEF CompleteWrite
    <3>2. worker'[w].pc = "reply" /\ worker'[w].env = worker[w].env
      BY <1>0, <3>1 DEF WorkerType
    <3>3. claims[u] # NoClaim /\ worker[w].id = claims[u].id
      BY <1>0, <2>1, <2>2, RowIsClaim DEF RowThere
    <3>4. o \in Outcomes
      BY DEF Outcome, Outcomes
    <3> HIDE DEF o
    <3>5. u = t => Answered(t)
      BY <1>4, <3>2, <3>3 DEF Answered
    <3> HIDE DEF u
    <3>6. /\ claims'[t].status = IF t = u THEN o ELSE claims[t].status
          /\ claims'[t].agent = claims[t].agent /\ claims'[t].id = claims[t].id
          /\ t # u => claims'[t] = claims[t]
      BY <2>1, <3>1, <3>3, StatusMoves
    <3> QED
      BY <1>1, <3>4, <3>5, <3>6 DEF RowMove
  <2>3. CASE ~RowThere(u, worker[w].id)
    BY <1>1, <1>4, <2>3 DEF CompleteWrite
  <2> QED
    BY <2>2, <2>3
<1>5. ASSUME NEW n \in Nodes, SweepOne(n) PROVE RowMove(t)
  <2>1. PICK c \in sweeper[n].todo : SweepDeadLetter(n, c) \/ SweepReclaim(n, c)
    BY <1>5 DEF SweepOne
  <2>2. CASE ~RowThere(c.task, c.id)
    BY <1>1, <2>1, <2>2 DEF SweepDeadLetter, SweepReclaim
  <2>3. CASE RowThere(c.task, c.id)
    <3>1. c.task \in Tasks /\ claims[c.task] # NoClaim
      BY <2>3, SnapshotFacts
    <3>2. c.task = t => Selected(t)
      BY <2>3 DEF RowThere, Selected
    <3>3. CASE SweepDeadLetter(n, c)
      <4>1. claims' = WithStatus(c.task, "timed_out")
        BY <2>3, <3>3 DEF SweepDeadLetter, GivenUp
      <4>2. /\ claims'[t].status = IF t = c.task THEN "timed_out" ELSE claims[t].status
            /\ claims'[t].agent = claims[t].agent /\ claims'[t].id = claims[t].id
            /\ t # c.task => claims'[t] = claims[t]
        BY <3>1, <4>1, StatusMoves
      <4> QED
        BY <1>1, <3>2, <4>2 DEF RowMove
    <3>4. CASE SweepReclaim(n, c)
      <4>1. claims' = [claims EXCEPT ![c.task] = NoClaim]
        BY <2>3, <3>4 DEF SweepReclaim, Deleted
      <4>2. claims'[t] = IF t = c.task THEN NoClaim ELSE claims[t]
        BY <1>0, <4>1 DEF ClaimsType
      <4>3. sweeper'[n].out = Task(c.task, c.attempt + 1)
        BY <1>0, <3>4 DEF SweepReclaim, TypeOK, NodeType
      <4>4. t = c.task => TakenBack(t)
        BY <4>3 DEF TakenBack, Task
      <4> QED
        BY <1>1, <3>2, <4>2, <4>4 DEF RowMove
    <3> QED
      BY <2>1, <3>3, <3>4
  <2> QED
    BY <2>2, <2>3
<1>6. CASE UNCHANGED vars
  BY <1>1, <1>6 DEF vars, dbVars
<1>7. ASSUME NEW w \in Workers, WorkerStep(w) \/ WorkerFault(w), ~Take(w), ~CompleteWrite(w)
      PROVE  UNCHANGED claims
  BY <1>7 DEF WorkerStep, SetBusy, Finish, CompleteRead, Reply, SeesClosed, Connect,
     WorkerFault, Drop, Kill, ConnectFails, WorkerRaises, dbVars
<1>8. ASSUME NEW n \in Nodes, ListenerStep(n) \/ SweepScan(n) \/ SweepPublish(n) \/ NodeFault(n)
      PROVE  UNCHANGED claims
  BY <1>8 DEF ListenerStep, Receive, Deliver, SweepScan, SweepPublish,
     SweepRaises, ListenerRaises, NodeFault, dbVars
<1>9. ASSUME NEW u \in Tasks, Post(u) PROVE UNCHANGED claims
  BY <1>9 DEF Post
<1>10. ASSUME NEW w \in Workers, CleanUp(w) PROVE UNCHANGED claims
  BY <1>10 DEF CleanUp, dbVars
<1>11. CASE \E u \in Tasks : Post(u) \/ Expire(u)
  BY <1>1, <1>2, <1>9, <1>11
<1>12. CASE \E w \in Workers : WorkerStep(w) \/ EndpointStep(w) \/ WorkerFault(w)
  BY <1>1, <1>3, <1>4, <1>7, <1>10, <1>12 DEF EndpointStep
<1>13. CASE \E n \in Nodes : ListenerStep(n) \/ SweeperStep(n) \/ NodeFault(n)
  BY <1>1, <1>5, <1>8, <1>13 DEF SweeperStep
<1> QED
  BY <1>6, <1>11, <1>12, <1>13 DEF Next

\* A worker that takes a task.
LEMMA Taken ==
    ASSUME MappedInv, NEW w \in Workers, Take(w)
    PROVE  LET t == Head(queue[w]).task IN
           /\ t \in Tasks /\ worker[w].pc = "listen" /\ link[w] /\ UNCHANGED <<link, results>>
           /\ \/ UNCHANGED <<claims, made, worker>>
              \/ /\ claims[t] = NoClaim
                 /\ worker'[w].pc = "claimed" /\ worker'[w].env.task = t
                 /\ \A v \in Workers \ {w} : worker'[v] = worker[v]
                 /\ claims'[t].agent = w /\ claims'[t].status = "claimed" /\ ~claims'[t].expired
                 /\ claims'[t].id = made[t] + 1 /\ made' = [made EXCEPT ![t] = @ + 1]
                 /\ \A u \in Tasks \ {t} : claims'[u] = claims[u]
<1> DEFINE env == Head(queue[w])
           t == env.task
<1>1. t \in Tasks
  BY TakePosts DEF PostedEnvelopes, Envelopes
<1>2. worker[w].pc = "listen" /\ link[w] /\ UNCHANGED <<link, results>>
  BY DEF Take, history
<1>3. CASE ~Claimable(t)
  BY <1>1, <1>2, <1>3 DEF Take
<1>4. CASE Claimable(t)
  <2>1. /\ claims' = [claims EXCEPT ![t] =
              [id |-> made[t] + 1, agent |-> w, status |-> "claimed",
               attempt |-> env.attempt, expired |-> FALSE]]
        /\ made' = [made EXCEPT ![t] = @ + 1]
        /\ worker' = [worker EXCEPT ![w] = [pc |-> "claimed", env |-> env, id |-> 0,
                                            failed |-> FALSE]]
    BY <1>4 DEF Take, Listening
  <2>2. claims[t] = NoClaim
    BY <1>1, <1>4, RowFacts DEF Claimable
  <2>3. worker'[w].pc = "claimed" /\ worker'[w].env = env
        /\ \A v \in Workers \ {w} : worker'[v] = worker[v]
    BY <2>1 DEF MappedInv, IInv, TypeOK, WorkerType
  <2> HIDE DEF env
  <2>4. /\ claims'[t].agent = w /\ claims'[t].status = "claimed" /\ ~claims'[t].expired
        /\ claims'[t].id = made[t] + 1
        /\ \A u \in Tasks \ {t} : claims'[u] = claims[u]
    BY <1>1, <2>1 DEF MappedInv, IInv, TypeOK, ClaimsType
  <2> QED
    BY <1>1, <1>2, <2>1, <2>2, <2>3, <2>4 DEF env
<1> QED
  BY <1>3, <1>4

\* Where a worker may hold the claim of the task in hand.
HoldPc == {"claimed", "work", "done", "write"}

\* What becomes of a worker that does not take a task, as long as it holds one.
Proceeds(w) ==
    LET t == worker[w].env.task IN
    \/ worker'[w] = worker[w]
    \/ worker'[w].pc \notin HoldPc
    \/ /\ UNCHANGED <<claims, made>> /\ worker'[w].env = worker[w].env
       /\ \/ worker[w].pc \in {"claimed", "work"} /\ worker'[w].pc \in {"work", "done"}
          \/ /\ worker[w].pc = "done" /\ worker'[w].pc = "write"
             /\ claims[t].agent = w /\ worker'[w].id = claims[t].id

LEMMA WorkerProceeds ==
    ASSUME MappedInv, [Next]_vars, NEW w \in Workers, ~Take(w) PROVE Proceeds(w)
<1>0. worker \in [Workers -> WorkerState]
  BY DEF MappedInv, IInv, TypeOK, WorkerType, WorkerState
<1>1. CASE UNCHANGED worker
  BY <1>1 DEF Proceeds
<1>2. ASSUME NEW v \in Workers, WorkerStep(v) PROVE Proceeds(w)
  <2>1. CASE v # w
    BY <1>0, <1>2, <2>1
       DEF WorkerStep, Proceeds, Take, SetBusy, Finish, CompleteRead, CompleteWrite, Reply,
           SeesClosed, Connect
  <2>2. CASE v = w /\ (SetBusy(w) \/ Finish(w))
    BY <1>0, <2>2 DEF SetBusy, Finish, Proceeds, WorkerState, dbVars
  <2>3. CASE v = w /\ CompleteRead(w)
    BY <1>0, <2>3 DEF CompleteRead, Proceeds, HoldPc, WorkerState, dbVars
  <2>4. CASE v = w /\ (CompleteWrite(w) \/ Reply(w) \/ SeesClosed(w) \/ Connect(w))
    BY <1>0, <2>4 DEF CompleteWrite, Reply, SeesClosed, Connect, Proceeds, HoldPc, WorkerState,
       Stopped, Listening, Down
  <2> QED
    BY <1>2, <2>1, <2>2, <2>3, <2>4 DEF WorkerStep
<1>3. ASSUME NEW v \in Workers, WorkerFault(v) PROVE Proceeds(w)
  BY <1>0, <1>3 DEF WorkerFault, Drop, Kill, ConnectFails, WorkerRaises, Proceeds, HoldPc,
     Stopped, Down
<1>4. ASSUME NEW v \in Workers, EndpointStep(v) PROVE UNCHANGED worker
  BY <1>4 DEF EndpointStep, Register, CleanUp, workerVars
<1>5. ASSUME NEW n \in Nodes, ListenerStep(n) \/ SweeperStep(n) \/ NodeFault(n)
      PROVE  UNCHANGED worker
  BY <1>5 DEF ListenerStep, Receive, Deliver, SweeperStep, SweepScan, SweepOne, SweepPublish,
     SweepRaises, ListenerRaises, NodeFault, workerVars
<1>6. ASSUME NEW t \in Tasks, Post(t) \/ Expire(t) PROVE UNCHANGED worker
  BY <1>6 DEF Post, Expire, workerVars
<1>7. CASE UNCHANGED vars
  BY <1>1, <1>7 DEF vars, workerVars
<1> QED
  BY <1>1, <1>2, <1>3, <1>4, <1>5, <1>6, <1>7 DEF Next

\* The claims table grows by the claims workers make.
LEMMA MadeStays ==
    ASSUME [Next]_vars, \A w \in Workers : ~Take(w) PROVE UNCHANGED made
<1>1. ASSUME NEW w \in Workers, WorkerStep(w) \/ EndpointStep(w) PROVE UNCHANGED made
  BY <1>1 DEF WorkerStep, EndpointStep, SetBusy, Finish, CompleteRead, CompleteWrite, Reply,
     SeesClosed, Connect, Register, CleanUp, dbVars
<1>2. ASSUME NEW w \in Workers, WorkerFault(w) PROVE UNCHANGED made
  BY <1>2 DEF WorkerFault, Drop, Kill, ConnectFails, WorkerRaises, dbVars
<1>3. ASSUME NEW n \in Nodes, ListenerStep(n) \/ SweeperStep(n) \/ NodeFault(n)
      PROVE  UNCHANGED made
  BY <1>3 DEF ListenerStep, Receive, Deliver, SweeperStep, SweepScan, SweepOne, SweepPublish,
     SweepRaises, ListenerRaises, NodeFault, dbVars
<1>4. ASSUME NEW t \in Tasks, Post(t) \/ Expire(t) PROVE UNCHANGED made
  BY <1>4 DEF Post, Expire
<1>5. CASE UNCHANGED vars
  BY <1>5 DEF vars, dbVars
<1> QED
  BY <1>1, <1>2, <1>3, <1>4, <1>5 DEF Next

\* Until a worker has recorded the outcome of its claim nobody has, and the row it
\* is about to write to is its own if it is still there.
OwnInv ==
    \A w \in Workers, t \in Tasks : worker[w].env.task = t =>
        /\ worker[w].pc \in {"claimed", "work", "done"} /\ claims[t].agent = w =>
              claims[t].status \notin Outcomes
        /\ worker[w].pc = "write" =>
              /\ worker[w].id <= made[t]
              /\ claims[t].id = worker[w].id => claims[t].agent = w /\ claims[t].status \notin Outcomes

LEMMA OwnStep == MappedInv /\ OwnInv /\ [Next]_vars => OwnInv'
<1> SUFFICES ASSUME MappedInv, OwnInv, [Next]_vars, NEW w \in Workers, NEW t \in Tasks,
                    worker'[w].env.task = t, worker'[w].pc \in HoldPc
             PROVE  /\ worker'[w].pc # "write" /\ claims'[t].agent = w =>
                          claims'[t].status \notin Outcomes
                    /\ worker'[w].pc = "write" =>
                          /\ worker'[w].id <= made'[t]
                          /\ claims'[t].id = worker'[w].id =>
                                claims'[t].agent = w /\ claims'[t].status \notin Outcomes
  BY DEF OwnInv, HoldPc
<1>0. /\ made \in [Tasks -> Nat] /\ ClaimsType /\ claims[t].id <= made[t]
      /\ worker[w].id \in Nat /\ (worker[w].pc = "write" => worker[w].id # 0)
  BY DEF MappedInv, IInv, TypeOK, ClaimsType, WorkerType, ClaimInv
<1>1. ASSUME NEW v \in Workers, Take(v), NEW u \in Tasks,
             worker'[v].pc = "claimed", worker'[v].env.task = u,
             \A x \in Workers \ {v} : worker'[x] = worker[x],
             claims'[u].agent = v, claims'[u].status = "claimed", claims'[u].id = made[u] + 1,
             made' = [made EXCEPT ![u] = @ + 1], \A x \in Tasks \ {u} : claims'[x] = claims[x]
      PROVE  /\ worker'[w].pc # "write" /\ claims'[t].agent = w =>
                   claims'[t].status \notin Outcomes
             /\ worker'[w].pc = "write" =>
                   /\ worker'[w].id <= made'[t]
                   /\ claims'[t].id = worker'[w].id =>
                         claims'[t].agent = w /\ claims'[t].status \notin Outcomes
  <2>1. CASE v = w
    BY <1>1, <2>1 DEF Outcomes
  <2>2. CASE v # w
    <3>1. worker'[w] = worker[w]
      BY <1>1, <2>2
    <3>2. CASE t = u
      <4>1. claims'[t].agent # w /\ claims'[t].id = made[t] + 1 /\ made'[t] = made[t] + 1
        BY <1>0, <1>1, <2>2, <3>2
      <4>2. worker[w].pc = "write" => worker[w].id <= made[t]
        BY <3>1 DEF OwnInv
      <4> QED
        BY <1>0, <3>1, <4>1, <4>2
    <3>3. CASE t # u
      <4>1. claims'[t] = claims[t] /\ made'[t] = made[t]
        BY <1>0, <1>1, <3>3
      <4> QED
        BY <3>1, <4>1 DEF OwnInv, HoldPc
    <3> QED
      BY <3>2, <3>3
  <2> QED
    BY <2>1, <2>2
<1>2. ASSUME NEW v \in Workers, Take(v), UNCHANGED <<claims, made, worker>>
      PROVE  /\ worker'[w].pc # "write" /\ claims'[t].agent = w =>
                   claims'[t].status \notin Outcomes
             /\ worker'[w].pc = "write" =>
                   /\ worker'[w].id <= made'[t]
                   /\ claims'[t].id = worker'[w].id =>
                         claims'[t].agent = w /\ claims'[t].status \notin Outcomes
  BY <1>2 DEF OwnInv, HoldPc
<1>3. CASE \A v \in Workers : ~Take(v)
  <2>1. made' = made /\ RowMove(t) /\ Proceeds(w)
    BY <1>3, MadeStays, RowMoves, WorkerProceeds
  <2>2. CASE worker'[w] = worker[w]
    <3>1. CASE SameClaim(t)
      BY <2>1, <2>2, <3>1 DEF SameClaim, OwnInv, HoldPc
    <3>2. CASE claims'[t] = NoClaim
      BY <1>0, <2>1, <2>2, <3>2 DEF NoClaim, Outcomes, OwnInv
    <3>3. CASE /\ claims'[t].id = claims[t].id /\ claims'[t].agent = claims[t].agent
               /\ claims'[t].status = "timed_out"
      BY <2>1, <2>2, <3>3 DEF Outcomes, OwnInv
    <3>4. CASE /\ claims'[t].id = claims[t].id /\ claims'[t].agent = claims[t].agent
               /\ Answered(t)
      <4>1. PICK v \in Workers : /\ worker[v].pc = "write" /\ worker[v].env.task = t
                                 /\ worker[v].id = claims[t].id /\ worker'[v].pc = "reply"
        BY <3>4 DEF Answered, CompleteWrite
      <4>2. v # w /\ claims[t].agent = v
        BY <4>1 DEF OwnInv, HoldPc
      <4> QED
        BY <2>1, <2>2, <3>4, <4>2 DEF OwnInv
    <3> QED
      BY <2>1, <3>1, <3>2, <3>3, <3>4 DEF RowMove
  <2>3. CASE /\ UNCHANGED <<claims, made>> /\ worker'[w].env = worker[w].env
             /\ worker[w].pc \in {"claimed", "work"} /\ worker'[w].pc \in {"work", "done"}
    BY <2>3 DEF OwnInv
  <2>4. CASE /\ UNCHANGED <<claims, made>> /\ worker'[w].env = worker[w].env
             /\ worker[w].pc = "done" /\ worker'[w].pc = "write"
             /\ claims[worker[w].env.task].agent = w
             /\ worker'[w].id = claims[worker[w].env.task].id
    BY <1>0, <2>4 DEF OwnInv
  <2> QED
    BY <2>1, <2>2, <2>3, <2>4 DEF Proceeds
<1>4. ASSUME NEW v \in Workers, Take(v)
      PROVE  \/ UNCHANGED <<claims, made, worker>>
             \/ \E u \in Tasks :
                  /\ worker'[v].pc = "claimed" /\ worker'[v].env.task = u
                  /\ \A x \in Workers \ {v} : worker'[x] = worker[x]
                  /\ claims'[u].agent = v /\ claims'[u].status = "claimed"
                  /\ claims'[u].id = made[u] + 1 /\ made' = [made EXCEPT ![u] = @ + 1]
                  /\ \A x \in Tasks \ {u} : claims'[x] = claims[x]
  BY <1>4, Taken
<1> QED
  BY <1>1, <1>2, <1>3, <1>4

\* A sweep selects only claims that are in flight.
LEMMA SelectedLater ==
    ASSUME MappedInv, [Next]_vars, NEW t \in Tasks, claims[t].status # "claimed", ~Selected(t),
           claims'[t] = claims[t]
    PROVE  ~Selected(t)'
<1> SUFFICES ASSUME NEW n \in Nodes, NEW c \in sweeper'[n].todo, c.task = t, c.id = claims[t].id,
                    c \notin sweeper[n].todo
             PROVE  FALSE
  BY DEF Selected
<1>0. sweeper \in [Nodes -> [todo : SUBSET Snapshots, out : Envelopes \cup {NoEnv}]]
  BY DEF MappedInv, IInv, TypeOK, NodeType
<1>1. ASSUME NEW m \in Nodes, SweepScan(m) PROVE FALSE
  <2>1. m = n /\ sweeper'[n].todo = {Snapshot(u) : u \in Expired}
    BY <1>0, <1>1 DEF SweepScan
  <2>2. PICK u \in Expired : c = Snapshot(u)
    BY <2>1
  <2> QED
    BY <2>2 DEF Snapshot, Expired
<1>2. ASSUME NEW m \in Nodes, SweepOne(m) \/ SweepPublish(m) \/ NodeFault(m) PROVE FALSE
  BY <1>0, <1>2 DEF SweepOne, SweepDeadLetter, SweepReclaim, SweepPublish, SweepRaises,
     ListenerRaises, NodeFault, IdleSweeper
<1>3. ASSUME NEW m \in Nodes, ListenerStep(m) PROVE sweeper' = sweeper
  BY <1>3 DEF ListenerStep, Receive, Deliver
<1>4. ASSUME NEW w \in Workers, WorkerStep(w) \/ EndpointStep(w) \/ WorkerFault(w)
      PROVE  sweeper' = sweeper
  BY <1>4 DEF WorkerStep, Take, SetBusy, Finish, CompleteRead, CompleteWrite, Reply, SeesClosed,
     Connect, EndpointStep, Register, CleanUp, WorkerFault, Drop, Kill, ConnectFails,
     WorkerRaises, nodeVars
<1>5. ASSUME NEW u \in Tasks, Post(u) \/ Expire(u) PROVE sweeper' = sweeper
  BY <1>5 DEF Post, Expire, nodeVars
<1>6. CASE UNCHANGED vars
  BY <1>6 DEF vars, nodeVars
<1> QED
  BY <1>1, <1>2, <1>3, <1>4, <1>5, <1>6 DEF Next, SweeperStep

\* An outcome that no sweep has in hand when it is recorded is never undone, whatever
\* faults there are and however many workers, nodes and attempts (worker_agent.py:
\* _complete_claim, claim_sweeper.py:_sweep, agent_registry.py:register).
THEOREM OutcomesAreKept == Spec => OutcomeIsKept
<1>1. Init => MappedInv /\ OwnInv
  <2>1. Init => PostedInv
    BY DEF Init, PostedInv
  <2>2. Init => OwnInv
    BY DEF Init, OwnInv, Listening, Down
  <2> QED
    BY <2>1, <2>2, InitInv DEF MappedInv
<1>2. MappedInv /\ OwnInv /\ [Next]_vars => (MappedInv /\ OwnInv)'
  BY OwnStep, PostedStep, InvStep DEF MappedInv
<1>3. MappedInv /\ OwnInv /\ [Next]_vars =>
         [\A t \in Tasks : claims[t].status \in {"completed", "failed"} /\ ~Selected(t) =>
             claims'[t] = claims[t] /\ ~Selected(t)']_vars
  <2> SUFFICES ASSUME MappedInv, OwnInv, [Next]_vars, NEW t \in Tasks,
                      claims[t].status \in Outcomes, ~Selected(t)
               PROVE  claims'[t] = claims[t] /\ ~Selected(t)'
    BY DEF Outcomes
  <2>1. claims'[t] = claims[t]
    <3>1. ASSUME NEW w \in Workers, Take(w) PROVE claims'[t] = claims[t]
      <4>1. \/ claims' = claims
            \/ \E u \in Tasks : claims[u] = NoClaim /\ \A x \in Tasks \ {u} : claims'[x] = claims[x]
        BY <3>1, Taken
      <4> QED
        BY <4>1 DEF NoClaim, Outcomes
    <3>2. CASE \A w \in Workers : ~Take(w)
      <4>1. RowMove(t)
        BY <3>2, RowMoves
      <4>2. ~Answered(t)
        BY DEF Answered, OwnInv, CompleteWrite
      <4> QED
        BY <4>1, <4>2 DEF RowMove, SameClaim, Outcomes
    <3> QED
      BY <3>1, <3>2
  <2>2. ~Selected(t)'
    BY <2>1, SelectedLater DEF Outcomes
  <2> QED
    BY <2>1, <2>2
<1> QED
  BY <1>1, <1>2, <1>3, PTL DEF Spec, OutcomeIsKept
=============================================================================
