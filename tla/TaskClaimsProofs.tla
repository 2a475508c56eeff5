-------------------------- MODULE TaskClaimsProofs --------------------------
(* Theorems about TaskClaims, for all values of its constants. *)
EXTENDS TaskClaims, TLAPS

-----------------------------------------------------------------------------
(* The invariant behind the bound on attempts. An envelope asks for an attempt *)
(* that is allowed, and for which all earlier ones have been claimed; a        *)
(* snapshot a sweeper holds agrees with the claim it was taken of, if that row *)
(* is still there: ids are not used twice.                                     *)

SoundEnvelopes ==
    {e \in Envelopes : e.attempt <= MaxAttempts /\ e.attempt <= made[e.task] + 1}

SoundSnapshots ==
    {c \in Snapshots : /\ c.id <= made[c.task] /\ c.attempt <= made[c.task]
                       /\ c.id = claims[c.task].id => c.attempt = claims[c.task].attempt}

InboxInv == inbox \in [Nodes -> Seq(SoundEnvelopes)]
QueueInv == queue \in [Workers -> Seq(SoundEnvelopes)]
ListenerInv == \A n \in Nodes : listener[n].todo # {} => listener[n].env \in SoundEnvelopes
OutInv == \A n \in Nodes : sweeper[n].out # NoEnv => sweeper[n].out \in SoundEnvelopes
EnvelopeInv == InboxInv /\ QueueInv /\ ListenerInv /\ OutInv

ClaimInv ==
    \A t \in Tasks :
        /\ claims[t].id <= made[t]
        /\ claims[t].attempt <= made[t] /\ claims[t].attempt <= MaxAttempts

SnapshotInv == \A n \in Nodes : sweeper[n].todo \subseteq SoundSnapshots

DeadLetterInv ==
    \A t \in Tasks : msgStatus[t] = "dead_letter" =>
        /\ claims[t].status \in {"timed_out", "completed", "failed"}
        /\ claims[t].attempt >= MaxAttempts

IInv == TypeOK /\ EnvelopeInv /\ ClaimInv /\ SnapshotInv /\ DeadLetterInv

-----------------------------------------------------------------------------
(* Types. *)

WorkerState == [pc : WorkerPc, env : Envelopes \cup {NoEnv}, id : Nat, failed : BOOLEAN]

LEMMA NoEnvIsNone == NoEnv \notin Envelopes
  BY DEF NoEnv, Envelopes

LEMMA TasksAreEnvelopes ==
    ASSUME NEW t \in Tasks
    PROVE  Notice(t) \in Envelopes /\ \A k \in Nat : Task(t, k) \in Envelopes
  BY DEF Notice, Task, Envelopes

\* The state of the workers keeps its type if one of them gets a well-formed value.
LEMMA WorkerUpdate ==
    ASSUME WorkerType, NEW w \in Workers, NEW x \in WorkerState,
           x.pc \in BusyPc => x.env \in Envelopes,
           x.pc = "write" => x.id # 0,
           worker' = [worker EXCEPT ![w] = x],
           link' \in [Workers -> BOOLEAN],
           queue' \in [Workers -> Seq(Envelopes)]
    PROVE  WorkerType'
  BY DEF WorkerType, WorkerState

LEMMA IdleWorkers ==
    ASSUME NEW x \in {Listening, Down, Stopped}
    PROVE  x \in WorkerState /\ x.pc \notin BusyPc /\ x.pc # "write"
<1>1. CASE x = Listening
  BY <1>1 DEF Listening, WorkerState, WorkerPc, BusyPc
<1>2. CASE x = Down
  BY <1>2 DEF Down, WorkerState, WorkerPc, BusyPc
<1>3. CASE x = Stopped
  BY <1>3 DEF Stopped, WorkerState, WorkerPc, BusyPc
<1> QED
  BY <1>1, <1>2, <1>3

LEMMA WorkerSettles ==
    ASSUME WorkerType, NEW w \in Workers, NEW x \in {Listening, Down, Stopped},
           worker' = [worker EXCEPT ![w] = x],
           link' \in [Workers -> BOOLEAN],
           queue' \in [Workers -> Seq(Envelopes)]
    PROVE  WorkerType'
  BY IdleWorkers, WorkerUpdate

\* What a step leaves alone keeps its type.
LEMMA UnchangedTypes ==
    ASSUME TypeOK
    PROVE  /\ UNCHANGED <<claims, made, msgStatus, attempts>> => ClaimsType'
           /\ UNCHANGED <<inbox, listener, sweeper, conn>> => NodeType'
           /\ UNCHANGED <<link, queue, worker>> => WorkerType'
           /\ UNCHANGED <<results, noticed>> /\ (faults' = faults \/ faults' = faults + 1)
                 => HistoryType'
  BY DEF TypeOK, ClaimsType, NodeType, WorkerType, HistoryType

\* The table after each of the statements that change it.
LEMMA ClaimsUpdate ==
    ASSUME ClaimsType, NEW t \in Tasks, claims[t] # NoClaim
    PROVE  /\ claims[t] \in Claims
           /\ \A s \in ClaimStatus : WithStatus(t, s) \in [Tasks -> {NoClaim} \cup Claims]
           /\ [claims EXCEPT ![t].expired = TRUE] \in [Tasks -> {NoClaim} \cup Claims]
  BY DEF ClaimsType, Claims, WithStatus

\* A row found by a primary key that is not 0 is a claim.
LEMMA RowIsClaim ==
    ASSUME ClaimsType, NEW t \in Tasks, NEW id \in Nat \ {0}, RowThere(t, id)
    PROVE  claims[t] # NoClaim
  BY DEF RowThere, NoClaim

LEMMA InitType == Init => TypeOK
<1> SUFFICES ASSUME Init PROVE TypeOK
  OBVIOUS
<1>1. ClaimsType
  BY DEF Init, ClaimsType
<1>2. NodeType
  BY DEF Init, NodeType, IdleListener, IdleSweeper
<1>3. WorkerType
  <2>1. Listening \in WorkerState /\ Down \in WorkerState
    BY IdleWorkers
  <2>2. Listening.pc = "listen" /\ Down.pc = "down"
    BY DEF Listening, Down
  <2> QED
    BY <2>1, <2>2 DEF Init, WorkerType, WorkerState, BusyPc
<1>4. HistoryType
  BY DEF Init, HistoryType
<1> QED
  BY <1>1, <1>2, <1>3, <1>4 DEF TypeOK

LEMMA PublishType ==
    ASSUME NodeType, NEW env \in Envelopes, PublishTo(env)
    PROVE  inbox' \in [Nodes -> Seq(Envelopes)]
  BY DEF NodeType, PublishTo

LEMMA TaskStepType ==
    ASSUME TypeOK, NEW t \in Tasks, Post(t) \/ Expire(t) PROVE TypeOK'
<1> USE DEF TypeOK
<1>1. CASE Post(t)
  <2>1. ClaimsType'
    BY <1>1 DEF Post, ClaimsType
  <2>2. NodeType'
    <3>1. inbox' \in [Nodes -> Seq(Envelopes)]
      BY <1>1, PublishType, TasksAreEnvelopes DEF Post
    <3> QED
      BY <1>1, <3>1 DEF Post, NodeType
  <2> QED
    BY <1>1, <2>1, <2>2, UnchangedTypes DEF Post, workerVars, history
<1>2. CASE Expire(t)
  <2>1. claims[t] # NoClaim
    BY <1>2 DEF Expire, NoClaim
  <2>2. ClaimsType'
    BY <1>2, <2>1, ClaimsUpdate DEF Expire, ClaimsType
  <2> QED
    BY <1>2, <2>2, UnchangedTypes DEF Expire, nodeVars, workerVars, history
<1> QED
  BY <1>1, <1>2

LEMMA ListenerStepType ==
    ASSUME TypeOK, NEW n \in Nodes, ListenerStep(n) \/ ListenerRaises(n) PROVE TypeOK'
<1> USE DEF TypeOK
<1>1. CASE Receive(n)
  <2> DEFINE env == Head(inbox[n])
             group == IF env.kind = "task" THEN Workers ELSE Watchers
             todo == {a \in group : Home[a] = n /\ Available(a)}
  <2>1. env \in Envelopes /\ Tail(inbox[n]) \in Seq(Envelopes)
    BY <1>1 DEF Receive, NodeType
  <2>2. todo \in SUBSET Agents
    BY DEF Agents
  <2>3. /\ inbox' = [inbox EXCEPT ![n] = Tail(@)]
        /\ listener' = [listener EXCEPT ![n] =
              IF todo = {} THEN IdleListener ELSE [env |-> env, todo |-> todo]]
        /\ UNCHANGED <<sweeper, conn>>
    BY <1>1 DEF Receive
  <2> HIDE DEF env, todo
  <2>4. NodeType'
    BY <2>1, <2>2, <2>3 DEF NodeType, IdleListener
  <2> QED
    BY <1>1, <2>4, UnchangedTypes DEF Receive, dbVars, workerVars, history
<1>2. CASE Deliver(n)
  <2>1. PICK a \in listener[n].todo :
          /\ \/ listener' = [listener EXCEPT ![n] = IdleListener]
             \/ listener' = [listener EXCEPT ![n] = [env |-> listener[n].env,
                                                     todo |-> listener[n].todo \ {a}]]
          /\ attempts' = attempts \/ attempts' = attempts \cup {<<listener[n].env.task, a>>}
          /\ noticed' = noticed \/ noticed' = noticed \cup {listener[n].env.task}
          /\ queue' = [w \in Workers |-> queue'[w]]
          /\ \A w \in Workers : queue'[w] \in {queue[w], Append(queue[w], listener[n].env)}
    <3>1. PICK a \in listener[n].todo :
            LET env == listener[n].env
                rest == listener[n].todo \ {a}
                sent == Connected(a) /\ References(env) /\ ~SeenAsDuplicate(env.task, a)
            IN
            /\ listener' = [listener EXCEPT ![n] =
                  IF rest = {} \/ (Connected(a) /\ ~References(env)) THEN IdleListener
                                                     ELSE [env |-> env, todo |-> rest]]
            /\ attempts' = IF sent THEN attempts \cup {<<env.task, a>>} ELSE attempts
            /\ noticed' = IF sent /\ a \in Watchers THEN noticed \cup {env.task} ELSE noticed
            /\ queue' = [w \in Workers |-> IF sent /\ w = a /\ link[w] THEN Append(queue[w], env)
                                                                       ELSE queue[w]]
      BY <1>2 DEF Deliver
    <3>2. /\ queue' = [w \in Workers |-> queue'[w]]
          /\ \A w \in Workers : queue'[w] \in {queue[w], Append(queue[w], listener[n].env)}
      BY <3>1
    <3> QED
      BY <3>1, <3>2
  <2>2. /\ listener[n] \in [env : Envelopes \cup {NoEnv}, todo : SUBSET Agents]
        /\ listener[n].env \in Envelopes /\ listener[n].env.task \in Tasks /\ a \in Agents
    BY <2>1 DEF NodeType, Envelopes
  <2>3. UNCHANGED <<claims, made, msgStatus, inbox, sweeper, conn, link, worker, results, faults>>
    BY <1>2 DEF Deliver
  <2> HIDE DEF TypeOK
  <2>4. ClaimsType'
    <3>1. <<listener[n].env.task, a>> \in Tasks \X Agents
      BY <2>2
    <3>2. attempts' \in SUBSET (Tasks \X Agents)
      BY <2>1, <3>1 DEF TypeOK, ClaimsType
    <3> QED
      BY <2>3, <3>2 DEF TypeOK, ClaimsType
  <2>5. NodeType'
    <3> DEFINE l == [env |-> listener[n].env, todo |-> listener[n].todo \ {a}]
    <3>1. /\ l \in [env : Envelopes \cup {NoEnv}, todo : SUBSET Agents]
          /\ l.env \in Envelopes
      BY <2>2
    <3>2. \/ listener' = [listener EXCEPT ![n] = IdleListener]
          \/ listener' = [listener EXCEPT ![n] = l]
      BY <2>1
    <3> HIDE DEF l
    <3>3. IdleListener \in [env : Envelopes \cup {NoEnv}, todo : SUBSET Agents]
          /\ IdleListener.todo = {}
      BY DEF IdleListener
    <3>4. listener \in [Nodes -> [env : Envelopes \cup {NoEnv}, todo : SUBSET Agents]]
          /\ \A k \in Nodes : listener[k].todo # {} => listener[k].env \in Envelopes
      BY DEF TypeOK, NodeType
    <3>5. listener' \in [Nodes -> [env : Envelopes \cup {NoEnv}, todo : SUBSET Agents]]
          /\ \A k \in Nodes : listener'[k].todo # {} => listener'[k].env \in Envelopes
      BY <3>1, <3>2, <3>3, <3>4
    <3> QED
      BY <2>3, <3>5 DEF TypeOK, NodeType
  <2>6. WorkerType'
    <3>1. \A w \in Workers : queue[w] \in Seq(Envelopes)
                             /\ Append(queue[w], listener[n].env) \in Seq(Envelopes)
      BY <2>2 DEF TypeOK, WorkerType
    <3>2. queue' \in [Workers -> Seq(Envelopes)]
      BY <2>1, <3>1
    <3> QED
      BY <2>3, <3>2 DEF TypeOK, WorkerType
  <2>7. HistoryType'
    BY <2>1, <2>2, <2>3 DEF TypeOK, HistoryType
  <2> QED
    BY <2>4, <2>5, <2>6, <2>7 DEF TypeOK
<1>3. CASE ListenerRaises(n)
  <2>1. /\ listener' = [listener EXCEPT ![n] = IdleListener]
        /\ \/ inbox' = inbox
           \/ inbox[n] # <<>> /\ inbox' = [inbox EXCEPT ![n] = Tail(@)]
        /\ UNCHANGED <<sweeper, conn>>
    BY <1>3 DEF ListenerRaises
  <2>2. inbox[n] # <<>> => Tail(inbox[n]) \in Seq(Envelopes)
    BY DEF NodeType
  <2>3. NodeType'
    BY <2>1, <2>2 DEF NodeType, IdleListener
  <2> QED
    BY <1>3, <2>3, UnchangedTypes DEF ListenerRaises, Fault, dbVars, workerVars
<1> QED
  BY <1>1, <1>2, <1>3 DEF ListenerStep

\* A worker's step that changes its pc to one that needs nothing new.
LEMMA WorkerPcUpdate ==
    ASSUME WorkerType, NEW w \in Workers, NEW p \in BusyPc \ {"write"}, NEW f \in BOOLEAN,
           NEW id \in Nat, worker[w].pc \in BusyPc,
           worker' = [worker EXCEPT ![w] = [pc |-> p, env |-> worker[w].env,
                                            id |-> id, failed |-> f]],
           UNCHANGED <<link, queue>>
    PROVE  WorkerType'
<1> DEFINE x == [pc |-> p, env |-> worker[w].env, id |-> id, failed |-> f]
<1>1. x \in WorkerState /\ x.env \in Envelopes /\ x.pc # "write"
  BY DEF WorkerType, WorkerState, WorkerPc
<1>2. worker' = [worker EXCEPT ![w] = x]
  OBVIOUS
<1>3. link' \in [Workers -> BOOLEAN] /\ queue' \in [Workers -> Seq(Envelopes)]
  BY DEF WorkerType
<1> HIDE DEF x
<1> QED
  BY <1>1, <1>2, <1>3, WorkerUpdate

LEMMA WorkerStepType ==
    ASSUME TypeOK, NEW w \in Workers, WorkerStep(w) PROVE TypeOK'
<1>0. ClaimsType /\ NodeType /\ WorkerType /\ HistoryType
  BY DEF TypeOK
<1>1. worker[w] \in WorkerState /\ link \in [Workers -> BOOLEAN]
      /\ queue \in [Workers -> Seq(Envelopes)]
  BY <1>0 DEF WorkerType, WorkerState
<1>2. \A p, f : [worker[w] EXCEPT !.pc = p] =
         [pc |-> p, env |-> worker[w].env, id |-> worker[w].id, failed |-> worker[w].failed]
  BY <1>1 DEF WorkerState
<1>3. CASE Take(w)
  <2> DEFINE env == Head(queue[w])
             x == [pc |-> "claimed", env |-> env, id |-> 0, failed |-> FALSE]
  <2>1. env \in Envelopes /\ env.task \in Tasks /\ env.attempt \in Nat
        /\ queue' \in [Workers -> Seq(Envelopes)]
    <3>1. queue[w] \in Seq(Envelopes) /\ queue[w] # <<>> /\ queue' = [queue EXCEPT ![w] = Tail(@)]
      BY <1>1, <1>3 DEF Take
    <3>2. Head(queue[w]) \in Envelopes /\ Tail(queue[w]) \in Seq(Envelopes)
      BY <3>1
    <3>3. queue' \in [Workers -> Seq(Envelopes)]
      BY <1>1, <3>1, <3>2
    <3> QED
      BY <3>2, <3>3 DEF Envelopes
  <2>2. link' \in [Workers -> BOOLEAN] /\ UNCHANGED <<msgStatus, attempts, nodeVars, history>>
    BY <1>1, <1>3 DEF Take
  <2>3. CASE Claimable(env.task)
    <3> DEFINE c == [id |-> made[env.task] + 1, agent |-> w, status |-> "claimed",
                     attempt |-> env.attempt, expired |-> FALSE]
    <3>1. /\ made' = [made EXCEPT ![env.task] = @ + 1]
          /\ claims' = [claims EXCEPT ![env.task] = c]
          /\ worker' = [worker EXCEPT ![w] = x]
      BY <1>3, <2>3 DEF Take, Listening
    <3>2. c \in Claims
      BY <1>0, <2>1, SMTT(30) DEF ClaimsType, Claims, ClaimStatus
    <3>3. x \in WorkerState
      BY <2>1 DEF WorkerState, WorkerPc, BusyPc
    <3> HIDE DEF c, env
    <3>4. ClaimsType'
      BY <1>0, <2>1, <2>2, <3>1, <3>2 DEF ClaimsType
    <3>5. x.env \in Envelopes /\ x.pc # "write"
      BY <2>1
    <3> HIDE DEF x
    <3>6. WorkerType'
      BY <1>0, <2>1, <2>2, <3>1, <3>3, <3>5, WorkerUpdate
    <3> QED
      BY <2>2, <3>4, <3>6, UnchangedTypes DEF TypeOK, nodeVars, history
  <2>4. CASE ~Claimable(env.task)
    <3>1. UNCHANGED <<made, claims, worker>>
      BY <1>3, <2>4 DEF Take
    <3>2. WorkerType'
      BY <1>0, <2>1, <2>2, <3>1 DEF WorkerType
    <3> QED
      BY <2>2, <3>1, <3>2, UnchangedTypes DEF TypeOK, nodeVars, history
  <2> QED
    BY <2>3, <2>4
<1>4. CASE SetBusy(w)
  <2>1. worker' = [worker EXCEPT ![w] = [pc |-> "work", env |-> worker[w].env,
                                id |-> worker[w].id, failed |-> worker[w].failed]]
    BY <1>2, <1>4 DEF SetBusy
  <2>2. WorkerType'
    <3>1. worker[w].pc \in BusyPc /\ "work" \in BusyPc \ {"write"} /\ UNCHANGED <<link, queue>>
      BY <1>4 DEF SetBusy, BusyPc
    <3>2. worker[w].id \in Nat /\ worker[w].failed \in BOOLEAN
      BY <1>1 DEF WorkerState
    <3> QED
      BY <1>0, <2>1, <3>1, <3>2, WorkerPcUpdate
  <2> QED
    BY <1>4, <2>2, UnchangedTypes DEF SetBusy, TypeOK, dbVars, nodeVars, history
<1>5. CASE Finish(w)
  <2>1. PICK f \in BOOLEAN : worker' = [worker EXCEPT ![w] = [pc |-> "done", env |-> worker[w].env,
                                                            id |-> 0, failed |-> f]]
    BY <1>5 DEF Finish
  <2>2. worker[w].pc \in BusyPc /\ "done" \in BusyPc \ {"write"} /\ UNCHANGED <<link, queue>>
    BY <1>5 DEF Finish, BusyPc
  <2>3. WorkerType'
    BY <1>0, <2>1, <2>2, WorkerPcUpdate
  <2> QED
    BY <1>5, <2>3, UnchangedTypes DEF Finish, TypeOK, dbVars, nodeVars, history
<1>6. CASE CompleteRead(w)
  <2> DEFINE t == worker[w].env.task
             x == [pc |-> "write", env |-> worker[w].env, id |-> claims[t].id,
                   failed |-> worker[w].failed]
  <2>1. worker[w].env \in Envelopes /\ t \in Tasks /\ UNCHANGED <<link, queue>>
    BY <1>0, <1>6 DEF CompleteRead, WorkerType, BusyPc, Envelopes
  <2>2. ASSUME claims[t].agent = w PROVE WorkerType'
    <3>1. worker' = [worker EXCEPT ![w] = x]
      BY <1>6, <2>2 DEF CompleteRead
    <3>2. claims[t] \in Claims
      BY <1>0, <2>1, <2>2, ClaimsAssumption DEF ClaimsType, NoClaim
    <3>3. x \in WorkerState /\ x.env \in Envelopes /\ x.id # 0
      BY <1>1, <2>1, <3>2 DEF WorkerState, WorkerPc, BusyPc, Claims
    <3> HIDE DEF x
    <3>4. link' \in [Workers -> BOOLEAN] /\ queue' \in [Workers -> Seq(Envelopes)]
      BY <1>1, <2>1
    <3> QED
      BY <1>0, <3>1, <3>3, <3>4, WorkerUpdate
  <2>3. ASSUME claims[t].agent # w PROVE WorkerType'
    <3>1. worker' = [worker EXCEPT ![w] = [pc |-> "reply", env |-> worker[w].env,
                                  id |-> worker[w].id, failed |-> worker[w].failed]]
      BY <1>2, <1>6, <2>3 DEF CompleteRead
    <3>2. worker[w].pc \in BusyPc /\ "reply" \in BusyPc \ {"write"}
      BY <1>6 DEF CompleteRead, BusyPc
    <3>3. worker[w].id \in Nat /\ worker[w].failed \in BOOLEAN
      BY <1>1 DEF WorkerState
    <3> QED
      BY <1>0, <2>1, <3>1, <3>2, <3>3, WorkerPcUpdate
  <2> QED
    BY <1>6, <2>2, <2>3, UnchangedTypes DEF CompleteRead, TypeOK, dbVars, nodeVars, history
<1>7. CASE CompleteWrite(w)
  <2> DEFINE t == worker[w].env.task
  <2>1. t \in Tasks /\ worker[w].id \in Nat \ {0} /\ worker[w].failed \in BOOLEAN
    BY <1>0, <1>1, <1>7 DEF CompleteWrite, WorkerType, WorkerState, BusyPc, Envelopes
  <2>2. UNCHANGED <<made, msgStatus, attempts, nodeVars, link, queue, history>>
    BY <1>7 DEF CompleteWrite
  <2>3. CASE RowThere(t, worker[w].id)
    <3>1. claims' = WithStatus(t, Outcome(worker[w].failed))
          /\ Outcome(worker[w].failed) \in ClaimStatus
      BY <1>7, <2>3 DEF CompleteWrite, Outcome, ClaimStatus
    <3> HIDE DEF t
    <3>2. ClaimsType'
      <4>1. claims[t] # NoClaim
        BY <1>0, <2>1, <2>3, RowIsClaim
      <4> QED
        BY <1>0, <2>1, <2>2, <3>1, <4>1, ClaimsUpdate DEF ClaimsType
    <3> USE DEF t
    <3>3. worker' = [worker EXCEPT ![w] = [pc |-> "reply", env |-> worker[w].env,
                                  id |-> worker[w].id, failed |-> worker[w].failed]]
      BY <1>2, <1>7, <2>3 DEF CompleteWrite
    <3>4. WorkerType'
      BY <1>0, <1>1, <1>7, <2>2, <3>3, WorkerPcUpdate DEF CompleteWrite, BusyPc, WorkerState
    <3> QED
      BY <2>2, <3>2, <3>4, UnchangedTypes DEF TypeOK, nodeVars, history
  <2>4. CASE ~RowThere(t, worker[w].id)
    <3>1. worker' = [worker EXCEPT ![w] = Stopped] /\ UNCHANGED claims
      BY <1>7, <2>4 DEF CompleteWrite
    <3>2. WorkerType'
      BY <1>0, <1>1, <2>2, <3>1, WorkerSettles
    <3> QED
      BY <2>2, <3>1, <3>2, UnchangedTypes DEF TypeOK, nodeVars, history
  <2> QED
    BY <2>3, <2>4
<1>8. CASE Reply(w)
  <2>1. worker[w].env.task \in Tasks
    BY <1>0, <1>8 DEF Reply, WorkerType, BusyPc, Envelopes
  <2>2. HistoryType'
    BY <1>0, <1>8, <2>1 DEF Reply, HistoryType
  <2>3. WorkerType'
    BY <1>0, <1>1, <1>8, WorkerSettles DEF Reply
  <2> QED
    BY <1>8, <2>2, <2>3, UnchangedTypes DEF Reply, TypeOK, dbVars, nodeVars
<1>9. CASE SeesClosed(w)
  <2>1. queue' \in [Workers -> Seq(Envelopes)]
    BY <1>1, <1>9 DEF SeesClosed
  <2>2. WorkerType'
    BY <1>0, <1>1, <1>9, <2>1, WorkerSettles DEF SeesClosed
  <2> QED
    BY <1>9, <2>2, UnchangedTypes DEF SeesClosed, TypeOK, dbVars, nodeVars, history
<1>10. CASE Connect(w)
  <2>1. link' \in [Workers -> BOOLEAN]
    BY <1>1, <1>10 DEF Connect
  <2>2. WorkerType'
    BY <1>0, <1>1, <1>10, <2>1, WorkerSettles DEF Connect
  <2>3. NodeType'
    BY <1>0, <1>10 DEF Connect, NodeType
  <2> QED
    BY <1>10, <2>2, <2>3, UnchangedTypes DEF Connect, TypeOK, dbVars, history
<1> QED
  BY <1>3, <1>4, <1>5, <1>6, <1>7, <1>8, <1>9, <1>10 DEF WorkerStep

LEMMA EndpointStepType ==
    ASSUME TypeOK, NEW w \in Workers, EndpointStep(w) PROVE TypeOK'
<1> USE DEF TypeOK
<1>1. CASE Register(w)
  <2>1. ClaimsType'
    BY <1>1 DEF Register, Cleared, ClaimsType
  <2>2. NodeType'
    BY <1>1 DEF Register, NodeType
  <2> QED
    BY <1>1, <2>1, <2>2, UnchangedTypes DEF Register, workerVars, history
<1>2. CASE CleanUp(w)
  <2>1. NodeType'
    BY <1>2 DEF CleanUp, NodeType
  <2> QED
    BY <1>2, <2>1, UnchangedTypes DEF CleanUp, dbVars, workerVars, history
<1> QED
  BY <1>1, <1>2 DEF EndpointStep

LEMMA WorkerFaultType ==
    ASSUME TypeOK, NEW w \in Workers, WorkerFault(w) PROVE TypeOK'
<1>0. ClaimsType /\ NodeType /\ WorkerType /\ HistoryType
  BY DEF TypeOK
<1>1. link \in [Workers -> BOOLEAN] /\ queue \in [Workers -> Seq(Envelopes)]
  BY <1>0 DEF WorkerType
<1>2. /\ UNCHANGED <<dbVars, nodeVars, results, noticed>> /\ faults' = faults + 1
      /\ link' \in [Workers -> BOOLEAN] /\ queue' \in [Workers -> Seq(Envelopes)]
      /\ worker' = worker \/ \E x \in {Down, Stopped} : worker' = [worker EXCEPT ![w] = x]
  <2>1. CASE Drop(w)
    BY <1>1, <2>1 DEF Drop, Fault
  <2>2. CASE Kill(w)
    BY <1>1, <2>2 DEF Kill, Fault
  <2>3. CASE ConnectFails(w)
    BY <1>1, <2>3 DEF ConnectFails, Fault
  <2>4. CASE WorkerRaises(w)
    BY <1>1, <2>4 DEF WorkerRaises, Fault
  <2> QED
    BY <2>1, <2>2, <2>3, <2>4 DEF WorkerFault
<1>3. WorkerType'
  <2>1. CASE worker' = worker
    BY <1>0, <1>2, <2>1 DEF WorkerType
  <2>2. ASSUME NEW x \in {Down, Stopped}, worker' = [worker EXCEPT ![w] = x] PROVE WorkerType'
    BY <1>0, <1>2, <2>2, WorkerSettles
  <2> QED
    BY <1>2, <2>1, <2>2
<1> QED
  BY <1>2, <1>3, UnchangedTypes DEF TypeOK, dbVars, nodeVars

\* A sweeper keeps its type if its new value is well formed.
LEMMA SweeperUpdate ==
    ASSUME NodeType, NEW n \in Nodes, NEW todo \in SUBSET Snapshots,
           NEW out \in Envelopes \cup {NoEnv},
           sweeper' = [sweeper EXCEPT ![n] = [todo |-> todo, out |-> out]],
           inbox' \in [Nodes -> Seq(Envelopes)],
           UNCHANGED <<listener, conn>>
    PROVE  NodeType'
  BY DEF NodeType

LEMMA SweeperStepType ==
    ASSUME TypeOK, NEW n \in Nodes, SweeperStep(n) \/ SweepRaises(n) PROVE TypeOK'
<1>0. ClaimsType /\ NodeType /\ WorkerType /\ HistoryType
  BY DEF TypeOK
<1>1. /\ sweeper[n].todo \in SUBSET Snapshots /\ sweeper[n].out \in Envelopes \cup {NoEnv}
      /\ sweeper[n] = [todo |-> sweeper[n].todo, out |-> sweeper[n].out]
      /\ inbox \in [Nodes -> Seq(Envelopes)]
  BY <1>0 DEF NodeType
<1>2. IdleSweeper = [todo |-> {}, out |-> NoEnv]
  BY DEF IdleSweeper
<1>3. CASE SweepScan(n)
  <2> DEFINE todo == {Snapshot(t) : t \in Expired}
  <2>1. todo \in SUBSET Snapshots
    <3> SUFFICES ASSUME NEW t \in Expired PROVE Snapshot(t) \in Snapshots
      OBVIOUS
    <3>1. t \in Tasks /\ claims[t] # NoClaim
      BY DEF Expired, NoClaim
    <3> QED
      BY <1>0, <3>1, ClaimsUpdate DEF Claims, Snapshot, Snapshots
  <2>2. sweeper' = [sweeper EXCEPT ![n] = [todo |-> todo, out |-> NoEnv]]
    BY <1>1, <1>2, <1>3 DEF SweepScan
  <2>3. UNCHANGED <<dbVars, inbox, listener, conn, workerVars, history>>
    BY <1>3 DEF SweepScan
  <2> HIDE DEF todo
  <2>4. NodeType'
    BY <1>0, <1>1, <2>1, <2>2, <2>3, SweeperUpdate
  <2> QED
    BY <2>3, <2>4, UnchangedTypes DEF TypeOK, dbVars, workerVars, history
<1>4. ASSUME NEW c \in sweeper[n].todo, SweepDeadLetter(n, c),
             UNCHANGED <<made, attempts, inbox, listener, conn, workerVars, history>>
      PROVE  TypeOK'
  <2>1. c \in Snapshots /\ c.task \in Tasks /\ c.id \in Nat \ {0}
    BY <1>1, <1>4 DEF Snapshots
  <2>2. CASE RowThere(c.task, c.id)
    <3>1. /\ claims' = GivenUp(c.task)
          /\ msgStatus' = [msgStatus EXCEPT ![c.task] = "dead_letter"]
          /\ sweeper' = [sweeper EXCEPT ![n] = [todo |-> sweeper[n].todo \ {c}, out |-> Notice(c.task)]]
      BY <1>4, <2>2 DEF SweepDeadLetter
    <3>2. claims[c.task] # NoClaim
      BY <1>0, <2>1, <2>2, RowIsClaim
    <3>3. ClaimsType'
      <4>1. "timed_out" \in ClaimStatus
        BY DEF ClaimStatus
      <4>2. claims' \in [Tasks -> {NoClaim} \cup Claims]
        BY <1>0, <2>1, <3>1, <3>2, <4>1, ClaimsUpdate DEF GivenUp
      <4> QED
        BY <1>0, <1>4, <2>1, <3>1, <4>2 DEF ClaimsType
    <3>4. NodeType'
      BY <1>0, <1>1, <1>4, <2>1, <3>1, TasksAreEnvelopes, SweeperUpdate
    <3> QED
      BY <1>4, <3>3, <3>4, UnchangedTypes DEF TypeOK, workerVars, history
  <2>3. CASE ~RowThere(c.task, c.id)
    <3>1. sweeper' = [sweeper EXCEPT ![n] = IdleSweeper] /\ UNCHANGED <<claims, msgStatus>>
      BY <1>4, <2>3 DEF SweepDeadLetter
    <3>2. NodeType'
      BY <1>0, <1>1, <1>2, <1>4, <3>1, SweeperUpdate
    <3> QED
      BY <1>4, <3>1, <3>2, UnchangedTypes DEF TypeOK, workerVars, history
  <2> QED
    BY <2>2, <2>3
<1>5. ASSUME NEW c \in sweeper[n].todo, SweepReclaim(n, c),
             UNCHANGED <<made, attempts, inbox, listener, conn, workerVars, history>>
      PROVE  TypeOK'
  <2>1. c \in Snapshots /\ c.task \in Tasks /\ c.attempt + 1 \in Nat
    BY <1>1, <1>5 DEF Snapshots
  <2>2. /\ claims' = IF RowThere(c.task, c.id) THEN Deleted(c.task) ELSE claims
        /\ sweeper' = [sweeper EXCEPT ![n] =
              [todo |-> sweeper[n].todo \ {c}, out |-> Task(c.task, c.attempt + 1)]]
        /\ UNCHANGED msgStatus
    BY <1>5 DEF SweepReclaim
  <2>3. ClaimsType'
    BY <1>0, <1>5, <2>2 DEF ClaimsType, Deleted
  <2>4. NodeType'
    BY <1>0, <1>1, <1>5, <2>1, <2>2, TasksAreEnvelopes, SweeperUpdate
  <2> QED
    BY <1>5, <2>3, <2>4, UnchangedTypes DEF TypeOK, workerVars, history
<1>6. CASE SweepPublish(n)
  <2>1. sweeper[n].out \in Envelopes
    BY <1>1, <1>6 DEF SweepPublish
  <2>2. sweeper' = [sweeper EXCEPT ![n] = [todo |-> sweeper[n].todo, out |-> NoEnv]]
    BY <1>1, <1>6 DEF SweepPublish
  <2>3. inbox' \in [Nodes -> Seq(Envelopes)]
    BY <1>0, <1>6, <2>1, PublishType DEF SweepPublish
  <2>4. NodeType'
    BY <1>0, <1>1, <1>6, <2>2, <2>3, SweeperUpdate DEF SweepPublish
  <2> QED
    BY <1>6, <2>4, UnchangedTypes DEF SweepPublish, TypeOK, dbVars, workerVars, history
<1>7. CASE SweepRaises(n)
  <2>1. sweeper' = [sweeper EXCEPT ![n] = [todo |-> {}, out |-> NoEnv]]
    BY <1>2, <1>7 DEF SweepRaises
  <2>2. NodeType'
    <3> DEFINE todo == {}
    <3>1. /\ todo \in SUBSET Snapshots
          /\ sweeper' = [sweeper EXCEPT ![n] = [todo |-> todo, out |-> NoEnv]]
      BY <2>1
    <3>2. UNCHANGED <<inbox, listener, conn>>
      BY <1>7 DEF SweepRaises
    <3> HIDE DEF todo
    <3> QED
      BY <1>0, <1>1, <3>1, <3>2, SweeperUpdate
  <2> QED
    BY <1>7, <2>2, UnchangedTypes DEF SweepRaises, Fault, TypeOK, dbVars, workerVars
<1> QED
  BY <1>3, <1>4, <1>5, <1>6, <1>7 DEF SweeperStep, SweepOne

LEMMA TypeStep == TypeOK /\ [Next]_vars => TypeOK'
<1> SUFFICES ASSUME TypeOK, [Next]_vars PROVE TypeOK'
  OBVIOUS
<1>1. CASE UNCHANGED vars
  BY <1>1, UnchangedTypes DEF TypeOK, vars, dbVars, nodeVars, workerVars, history
<1>2. CASE Next
  BY <1>2, TaskStepType, WorkerStepType, EndpointStepType, WorkerFaultType, ListenerStepType,
     SweeperStepType DEF Next, NodeFault
<1> QED
  BY <1>1, <1>2

\* Every variable has its type in every reachable state; in particular a worker
\* about to update a claim has read the primary key of one (_complete_claim).
THEOREM TypeCorrect == Spec => []TypeOK
  BY InitType, TypeStep, PTL DEF Spec

-----------------------------------------------------------------------------
(* Attempts. *)

\* What a step may do to a task's row: nothing to its key and attempt, or delete
\* it, or insert the next one.
RowStep(t) ==
    \/ /\ made'[t] = made[t]
       /\ claims'[t].id = claims[t].id /\ claims'[t].attempt = claims[t].attempt
    \/ made'[t] = made[t] /\ claims'[t] = NoClaim
    \/ /\ made'[t] = made[t] + 1 /\ claims'[t].id = made'[t]
       /\ claims'[t].attempt <= made'[t] /\ claims'[t].attempt <= MaxAttempts

LEMMA ClaimFields ==
    ASSUME ClaimsType, NEW t \in Tasks
    PROVE  claims[t].id \in Nat /\ claims[t].attempt \in Nat /\ made[t] \in Nat
  BY DEF ClaimsType, Claims, NoClaim

\* What is sound stays sound, and the claims stay within bounds.
LEMMA RowsMove ==
    ASSUME IInv, TypeOK', \A t \in Tasks : RowStep(t)
    PROVE  /\ ClaimInv'
           /\ SoundEnvelopes \subseteq SoundEnvelopes'
           /\ SoundSnapshots \subseteq SoundSnapshots'
<1>1. ClaimsType /\ ClaimsType' /\ ClaimInv
  BY DEF IInv, TypeOK
<1>2. \A t \in Tasks : /\ claims[t].id \in Nat /\ claims[t].attempt \in Nat /\ made[t] \in Nat
                       /\ claims'[t].id \in Nat /\ claims'[t].attempt \in Nat /\ made'[t] \in Nat
                       /\ made[t] <= made'[t]
  <2> SUFFICES ASSUME NEW t \in Tasks
               PROVE /\ claims[t].id \in Nat /\ claims[t].attempt \in Nat /\ made[t] \in Nat
                     /\ claims'[t].id \in Nat /\ claims'[t].attempt \in Nat /\ made'[t] \in Nat
                     /\ made[t] <= made'[t]
    OBVIOUS
  <2>1. claims[t].id \in Nat /\ claims[t].attempt \in Nat /\ made[t] \in Nat
    BY <1>1, ClaimFields
  <2>2. claims'[t].id \in Nat /\ claims'[t].attempt \in Nat /\ made'[t] \in Nat
    BY <1>1 DEF ClaimsType, Claims, NoClaim
  <2>3. made[t] <= made'[t]
    BY <2>1, <2>2 DEF RowStep
  <2> QED
    BY <2>1, <2>2, <2>3
<1>3. ClaimInv'
  <2> SUFFICES ASSUME NEW t \in Tasks
               PROVE /\ claims'[t].id <= made'[t] /\ claims'[t].attempt <= made'[t]
                     /\ claims'[t].attempt <= MaxAttempts
    BY DEF ClaimInv
  <2>1. /\ claims[t].id <= made[t] /\ claims[t].attempt <= made[t]
        /\ claims[t].attempt <= MaxAttempts
    BY <1>1 DEF ClaimInv
  <2>2. MaxAttempts \in Nat
    BY ClaimsAssumption
  <2> QED
    BY <1>2, <2>1, <2>2 DEF RowStep, NoClaim
<1>4. SoundEnvelopes \subseteq SoundEnvelopes'
  <2> SUFFICES ASSUME NEW e \in SoundEnvelopes PROVE e \in SoundEnvelopes'
    OBVIOUS
  <2>1. e \in Envelopes /\ e.task \in Tasks /\ e.attempt \in Nat
    BY DEF SoundEnvelopes, Envelopes
  <2>2. e.attempt <= MaxAttempts /\ e.attempt <= made[e.task] + 1
    BY DEF SoundEnvelopes
  <2>3. e.attempt <= made'[e.task] + 1
    BY <1>2, <2>1, <2>2
  <2> QED
    BY <2>1, <2>2, <2>3 DEF SoundEnvelopes
<1>5. SoundSnapshots \subseteq SoundSnapshots'
  <2> SUFFICES ASSUME NEW c \in SoundSnapshots PROVE c \in SoundSnapshots'
    OBVIOUS
  <2>1. c \in Snapshots /\ c.task \in Tasks /\ c.attempt \in Nat /\ c.id \in Nat \ {0}
    BY DEF SoundSnapshots, Snapshots
  <2>2. /\ c.id <= made[c.task] /\ c.attempt <= made[c.task]
        /\ c.id = claims[c.task].id => c.attempt = claims[c.task].attempt
    BY DEF SoundSnapshots
  <2>3. c.id <= made'[c.task] /\ c.attempt <= made'[c.task]
    BY <1>2, <2>1, <2>2
  <2>4. c.id = claims'[c.task].id => c.attempt = claims'[c.task].attempt
    BY <1>2, <2>1, <2>2 DEF RowStep, NoClaim
  <2> QED
    BY <2>1, <2>3, <2>4 DEF SoundSnapshots
<1> QED
  BY <1>3, <1>4, <1>5

\* A new status, or the clock, changes nothing else of a claim.
LEMMA StatusUpdate ==
    ASSUME ClaimsType, NEW t \in Tasks, claims[t] # NoClaim, NEW s,
           claims' = WithStatus(t, s)
    PROVE  \A u \in Tasks : /\ claims'[u].id = claims[u].id
                            /\ claims'[u].attempt = claims[u].attempt
                            /\ claims'[u].status = IF u = t THEN s ELSE claims[u].status
<1> DEFINE c == [claims[t] EXCEPT !.status = s]
<1>1. claims[t] \in Claims
  BY DEF ClaimsType
<1>2. c.id = claims[t].id /\ c.attempt = claims[t].attempt /\ c.status = s
  BY <1>1 DEF Claims
<1>3. claims' = [claims EXCEPT ![t] = c]
  BY DEF WithStatus
<1> HIDE DEF c
<1> QED
  BY <1>2, <1>3 DEF ClaimsType

LEMMA ExpiredUpdate ==
    ASSUME ClaimsType, NEW t \in Tasks, claims[t] # NoClaim,
           claims' = [claims EXCEPT ![t].expired = TRUE]
    PROVE  \A u \in Tasks : /\ claims'[u].id = claims[u].id
                            /\ claims'[u].attempt = claims[u].attempt
                            /\ claims'[u].status = claims[u].status
<1> DEFINE c == [claims[t] EXCEPT !.expired = TRUE]
<1>1. claims[t] \in Claims
  BY DEF ClaimsType
<1>2. c.id = claims[t].id /\ c.attempt = claims[t].attempt /\ c.status = claims[t].status
  BY <1>1 DEF Claims
<1>3. claims' = [claims EXCEPT ![t] = c]
  OBVIOUS
<1> HIDE DEF c
<1> QED
  BY <1>2, <1>3 DEF ClaimsType

LEMMA SeqSubset ==
    ASSUME NEW S, NEW T, S \subseteq T PROVE Seq(S) \subseteq Seq(T)
  OBVIOUS

\* The parts of the invariant a step leaves alone.
LEMMA UnchangedInv ==
    ASSUME IInv, TypeOK', \A t \in Tasks : RowStep(t)
    PROVE  /\ UNCHANGED inbox => InboxInv'
           /\ UNCHANGED queue => QueueInv'
           /\ UNCHANGED listener => ListenerInv'
           /\ UNCHANGED sweeper => OutInv' /\ SnapshotInv'
           /\ UNCHANGED <<claims, msgStatus>> => DeadLetterInv'
<1>1. SoundEnvelopes \subseteq SoundEnvelopes' /\ SoundSnapshots \subseteq SoundSnapshots'
  BY RowsMove
<1>2. Seq(SoundEnvelopes) \subseteq Seq(SoundEnvelopes')
  BY <1>1, SeqSubset
<1>3. UNCHANGED inbox => InboxInv'
  BY <1>2 DEF IInv, EnvelopeInv, InboxInv
<1>4. UNCHANGED queue => QueueInv'
  BY <1>2 DEF IInv, EnvelopeInv, QueueInv
<1>5. UNCHANGED listener => ListenerInv'
  BY <1>1 DEF IInv, EnvelopeInv, ListenerInv
<1>6. UNCHANGED sweeper => OutInv' /\ SnapshotInv'
  BY <1>1 DEF IInv, EnvelopeInv, OutInv, SnapshotInv
<1>7. UNCHANGED <<claims, msgStatus>> => DeadLetterInv'
  BY DEF IInv, DeadLetterInv
<1> QED
  BY <1>3, <1>4, <1>5, <1>6, <1>7

\* The claims table and its history are left alone.
LEMMA SameRows ==
    ASSUME UNCHANGED <<claims, made>> PROVE \A t \in Tasks : RowStep(t)
  BY DEF RowStep

LEMMA InitInv == Init => IInv
<1> SUFFICES ASSUME Init PROVE IInv
  OBVIOUS
<1>1. TypeOK
  BY InitType
<1>2. EnvelopeInv
  BY DEF Init, EnvelopeInv, InboxInv, QueueInv, ListenerInv, OutInv, IdleListener, IdleSweeper
<1>3. ClaimInv
  BY ClaimsAssumption DEF Init, ClaimInv, NoClaim
<1>4. SnapshotInv
  BY DEF Init, SnapshotInv, IdleSweeper
<1>5. DeadLetterInv
  BY DEF Init, DeadLetterInv
<1> QED
  BY <1>1, <1>2, <1>3, <1>4, <1>5 DEF IInv

LEMMA PublishInv ==
    ASSUME IInv, TypeOK', \A t \in Tasks : RowStep(t),
           NEW env \in SoundEnvelopes, PublishTo(env)
    PROVE  InboxInv'
<1>1. SoundEnvelopes \subseteq SoundEnvelopes'
  BY RowsMove
<1>2. Seq(SoundEnvelopes) \subseteq Seq(SoundEnvelopes')
  BY <1>1, SeqSubset
<1>3. inbox' \in [Nodes -> Seq(SoundEnvelopes)]
  BY DEF IInv, EnvelopeInv, InboxInv, PublishTo
<1> QED
  BY <1>2, <1>3 DEF InboxInv

LEMMA TaskStepInv ==
    ASSUME IInv, TypeOK', NEW t \in Tasks, Post(t) \/ Expire(t) PROVE IInv'
<1>0. ClaimsType
  BY DEF IInv, TypeOK
<1>1. CASE Post(t)
  <2>1. \A s \in Tasks : RowStep(s)
    BY <1>1, SameRows DEF Post
  <2>2. Task(t, 1) \in SoundEnvelopes
    <3>1. Task(t, 1) \in Envelopes /\ Task(t, 1).attempt = 1 /\ Task(t, 1).task = t
      BY TasksAreEnvelopes DEF Task
    <3>2. 1 <= MaxAttempts /\ 1 <= made[t] + 1
      BY <1>0, ClaimFields, ClaimsAssumption
    <3> QED
      BY <3>1, <3>2 DEF SoundEnvelopes
  <2>3. InboxInv'
    BY <1>1, <2>1, <2>2, PublishInv DEF Post
  <2>4. DeadLetterInv'
    BY <1>0, <1>1 DEF Post, IInv, DeadLetterInv, ClaimsType
  <2> QED
    BY <1>1, <2>1, <2>3, <2>4, RowsMove, UnchangedInv DEF Post, IInv, EnvelopeInv, workerVars
<1>2. CASE Expire(t)
  <2>0. claims[t] # NoClaim
    BY <1>2 DEF Expire, NoClaim
  <2>1. UNCHANGED <<made, msgStatus, nodeVars, workerVars>>
    BY <1>2 DEF Expire
  <2>2. \A s \in Tasks : claims'[s].id = claims[s].id /\ claims'[s].attempt = claims[s].attempt
                         /\ claims'[s].status = claims[s].status
    BY <1>0, <1>2, <2>0, ExpiredUpdate DEF Expire
  <2>3. \A s \in Tasks : RowStep(s)
    BY <2>1, <2>2 DEF RowStep
  <2>4. DeadLetterInv'
    BY <2>1, <2>2 DEF IInv, DeadLetterInv
  <2> QED
    BY <2>1, <2>3, <2>4, RowsMove, UnchangedInv DEF IInv, EnvelopeInv, nodeVars, workerVars
<1> QED
  BY <1>1, <1>2

LEMMA ListenerStepInv ==
    ASSUME IInv, TypeOK', NEW n \in Nodes, ListenerStep(n) \/ ListenerRaises(n) PROVE IInv'
<1>0. InboxInv /\ ListenerInv /\ QueueInv /\ TypeOK
  BY DEF IInv, EnvelopeInv
<1>1. UNCHANGED <<claims, made, msgStatus, sweeper>>
  BY DEF ListenerStep, Receive, Deliver, ListenerRaises, dbVars
<1>2. \A t \in Tasks : RowStep(t)
  BY <1>1, SameRows
<1>3. UNCHANGED SoundEnvelopes
  BY <1>1 DEF SoundEnvelopes
<1>4. CASE Receive(n)
  <2> DEFINE env == Head(inbox[n])
             group == IF env.kind = "task" THEN Workers ELSE Watchers
             todo == {a \in group : Home[a] = n /\ Available(a)}
  <2>1. env \in SoundEnvelopes /\ Tail(inbox[n]) \in Seq(SoundEnvelopes)
    BY <1>0, <1>4 DEF Receive, InboxInv
  <2>2. /\ inbox' = [inbox EXCEPT ![n] = Tail(@)]
        /\ listener' = [listener EXCEPT ![n] =
              IF todo = {} THEN IdleListener ELSE [env |-> env, todo |-> todo]]
        /\ UNCHANGED queue
    BY <1>4 DEF Receive, workerVars
  <2>3. InboxInv'
    BY <1>0, <1>3, <2>1, <2>2 DEF InboxInv
  <2> HIDE DEF env, todo
  <2>4. ListenerInv'
    BY <1>0, <1>3, <2>1, <2>2 DEF ListenerInv, IdleListener, TypeOK, NodeType
  <2> QED
    BY <1>1, <1>2, <2>2, <2>3, <2>4, RowsMove, UnchangedInv DEF IInv, EnvelopeInv
<1>5. CASE Deliver(n)
  <2> DEFINE env == listener[n].env
  <2>1. listener[n].todo # {} /\ UNCHANGED inbox
    BY <1>5 DEF Deliver
  <2>2. env \in SoundEnvelopes
    BY <1>0, <2>1 DEF ListenerInv
  <2>3. \/ listener' = [listener EXCEPT ![n] = IdleListener]
        \/ \E a : listener' = [listener EXCEPT ![n] = [env |-> env, todo |-> listener[n].todo \ {a}]]
    BY <1>5 DEF Deliver
  <2>4. ListenerInv'
    <3>1. ASSUME NEW a, listener' = [listener EXCEPT ![n] = [env |-> env, todo |-> listener[n].todo \ {a}]]
          PROVE  ListenerInv'
      <4> DEFINE l == [env |-> env, todo |-> listener[n].todo \ {a}]
      <4>1. l.env \in SoundEnvelopes /\ listener' = [listener EXCEPT ![n] = l]
        BY <2>2, <3>1
      <4> HIDE DEF l
      <4> QED
        BY <1>0, <1>3, <4>1 DEF ListenerInv, TypeOK, NodeType
    <3>2. ASSUME listener' = [listener EXCEPT ![n] = IdleListener] PROVE ListenerInv'
      BY <1>0, <1>3, <3>2 DEF ListenerInv, IdleListener, TypeOK, NodeType
    <3> QED
      BY <2>3, <3>1, <3>2
  <2>5. QueueInv'
    <3>1. /\ queue' = [w \in Workers |-> queue'[w]]
          /\ \A w \in Workers : queue'[w] \in {queue[w], Append(queue[w], env)}
      <4>1. \E b \in [Workers -> BOOLEAN] :
               queue' = [w \in Workers |-> IF b[w] THEN Append(queue[w], env) ELSE queue[w]]
        <5>1. PICK a \in listener[n].todo :
                LET sent == Connected(a) /\ References(env) /\ ~SeenAsDuplicate(env.task, a)
                IN queue' = [w \in Workers |-> IF sent /\ w = a /\ link[w]
                                               THEN Append(queue[w], env) ELSE queue[w]]
          BY <1>5 DEF Deliver
        <5> DEFINE sent == Connected(a) /\ References(env) /\ ~SeenAsDuplicate(env.task, a)
                   b == [w \in Workers |-> (sent /\ w = a /\ link[w]) = TRUE]
        <5> HIDE DEF sent, env
        <5>2. queue' = [w \in Workers |-> IF b[w] THEN Append(queue[w], env) ELSE queue[w]]
          BY <5>1 DEF sent, env
        <5>3. b \in [Workers -> BOOLEAN]
          OBVIOUS
        <5> QED
          BY <5>2, <5>3
      <4> QED
        BY <4>1
    <3> HIDE DEF env
    <3>2. \A w \in Workers : queue[w] \in Seq(SoundEnvelopes)
                             /\ Append(queue[w], env) \in Seq(SoundEnvelopes)
      BY <1>0, <2>2 DEF QueueInv
    <3> QED
      BY <1>3, <3>1, <3>2 DEF QueueInv
  <2> QED
    BY <1>1, <1>2, <2>1, <2>4, <2>5, RowsMove, UnchangedInv DEF IInv, EnvelopeInv
<1>6. CASE ListenerRaises(n)
  <2>1. /\ listener' = [listener EXCEPT ![n] = IdleListener] /\ UNCHANGED queue
        /\ \/ inbox' = inbox
           \/ inbox[n] # <<>> /\ inbox' = [inbox EXCEPT ![n] = Tail(@)]
    BY <1>6 DEF ListenerRaises, workerVars
  <2>2. inbox[n] # <<>> => Tail(inbox[n]) \in Seq(SoundEnvelopes)
    BY <1>0 DEF InboxInv
  <2>3. InboxInv'
    BY <1>0, <1>3, <2>1, <2>2 DEF InboxInv
  <2>4. ListenerInv'
    BY <1>0, <1>3, <2>1 DEF ListenerInv, IdleListener, TypeOK, NodeType
  <2> QED
    BY <1>1, <1>2, <2>1, <2>3, <2>4, RowsMove, UnchangedInv DEF IInv, EnvelopeInv
<1> QED
  BY <1>4, <1>5, <1>6 DEF ListenerStep

\* A step of a worker or its connection that leaves the claims table alone.
LEMMA WorkerOnlyInv ==
    ASSUME IInv, TypeOK', UNCHANGED <<claims, made, msgStatus, inbox, listener, sweeper>>,
           \/ UNCHANGED queue
           \/ \E w \in Workers : queue' = [queue EXCEPT ![w] = <<>>]
           \/ \E w \in Workers : queue[w] # <<>> /\ queue' = [queue EXCEPT ![w] = Tail(@)]
    PROVE  IInv'
<1>1. \A t \in Tasks : RowStep(t)
  BY SameRows
<1>2. QueueInv'
  <2>1. queue \in [Workers -> Seq(SoundEnvelopes)]
    BY DEF IInv, EnvelopeInv, QueueInv
  <2>2. queue' \in [Workers -> Seq(SoundEnvelopes)]
    <3>1. CASE UNCHANGED queue
      BY <2>1, <3>1
    <3>2. ASSUME NEW w \in Workers, queue' = [queue EXCEPT ![w] = <<>>]
          PROVE  queue' \in [Workers -> Seq(SoundEnvelopes)]
      BY <2>1, <3>2
    <3>3. ASSUME NEW w \in Workers, queue[w] # <<>>, queue' = [queue EXCEPT ![w] = Tail(@)]
          PROVE  queue' \in [Workers -> Seq(SoundEnvelopes)]
      <4>1. Tail(queue[w]) \in Seq(SoundEnvelopes)
        BY <2>1, <3>3
      <4> QED
        BY <2>1, <3>3, <4>1
    <3> QED
      BY <3>1, <3>2, <3>3
  <2>3. UNCHANGED SoundEnvelopes
    BY DEF SoundEnvelopes
  <2> QED
    BY <2>2, <2>3 DEF QueueInv
<1> QED
  BY <1>1, <1>2, RowsMove, UnchangedInv DEF IInv, EnvelopeInv

LEMMA TakeInv ==
    ASSUME IInv, TypeOK', NEW w \in Workers, Take(w) PROVE IInv'
<1> DEFINE env == Head(queue[w])
           t == env.task
<1>0. TypeOK /\ ClaimsType /\ QueueInv
  BY DEF IInv, EnvelopeInv, TypeOK
<1>1. /\ queue[w] # <<>> /\ queue' = [queue EXCEPT ![w] = Tail(@)]
      /\ UNCHANGED <<msgStatus, attempts, inbox, listener, sweeper>>
  BY DEF Take, nodeVars
<1>2. env \in SoundEnvelopes /\ Tail(queue[w]) \in Seq(SoundEnvelopes)
  BY <1>0, <1>1 DEF QueueInv
<1>3. CASE ~Claimable(t)
  BY <1>1, <1>3, WorkerOnlyInv DEF Take
<1>4. CASE Claimable(t)
  <2>1. /\ made' = [made EXCEPT ![t] = @ + 1]
        /\ claims' = [claims EXCEPT ![t] =
              [id |-> made[t] + 1, agent |-> w, status |-> "claimed",
               attempt |-> env.attempt, expired |-> FALSE]]
    BY <1>4 DEF Take
  <2>2. t \in Tasks /\ env.attempt <= MaxAttempts /\ env.attempt <= made[t] + 1
    BY <1>2 DEF SoundEnvelopes, Envelopes
  <2> HIDE DEF env
  <2>3. made'[t] = made[t] + 1
        /\ \A s \in Tasks \ {t} : claims'[s] = claims[s] /\ made'[s] = made[s]
    BY <1>0, <2>1, <2>2 DEF ClaimsType
  <2>4. claims'[t].id = made[t] + 1 /\ claims'[t].attempt = env.attempt
    BY <1>0, <2>1, <2>2 DEF ClaimsType
  <2> HIDE DEF t
  <2>5. \A s \in Tasks : RowStep(s)
    BY <2>2, <2>3, <2>4 DEF RowStep
  <2>6. QueueInv'
    <3>1. queue' \in [Workers -> Seq(SoundEnvelopes)]
      BY <1>0, <1>1, <1>2 DEF QueueInv
    <3>2. Seq(SoundEnvelopes) \subseteq Seq(SoundEnvelopes')
      BY <2>5, RowsMove, SeqSubset
    <3> QED
      BY <3>1, <3>2 DEF QueueInv
  <2>7. DeadLetterInv'
    <3>1. msgStatus[t] # "dead_letter"
      BY <1>4, <2>2 DEF IInv, DeadLetterInv, Claimable
    <3> QED
      BY <1>1, <2>3, <3>1 DEF IInv, DeadLetterInv
  <2> QED
    BY <1>1, <2>5, <2>6, <2>7, RowsMove, UnchangedInv DEF IInv, EnvelopeInv
<1> QED
  BY <1>3, <1>4

LEMMA CompleteWriteInv ==
    ASSUME IInv, TypeOK', NEW w \in Workers, CompleteWrite(w) PROVE IInv'
<1> DEFINE t == worker[w].env.task
<1>0. TypeOK /\ ClaimsType
  BY DEF IInv, TypeOK
<1>1. UNCHANGED <<made, msgStatus, attempts, inbox, listener, sweeper, queue>>
  BY DEF CompleteWrite, nodeVars
<1>2. t \in Tasks /\ worker[w].id \in Nat \ {0}
  BY <1>0 DEF CompleteWrite, TypeOK, WorkerType, BusyPc, Envelopes
<1>3. CASE ~RowThere(t, worker[w].id)
  <2>1. UNCHANGED claims
    BY <1>3 DEF CompleteWrite
  <2> QED
    BY <1>1, <2>1, WorkerOnlyInv
<1>4. CASE RowThere(t, worker[w].id)
  <2>1. PICK o \in {"completed", "failed"} : claims' = WithStatus(t, o)
    <3>1. Outcome(worker[w].failed) \in {"completed", "failed"}
      BY DEF Outcome
    <3> QED
      BY <1>4, <3>1 DEF CompleteWrite
  <2>2. claims[t] # NoClaim
    BY <1>0, <1>2, <1>4, RowIsClaim
  <2> HIDE DEF t
  <2>3. \A s \in Tasks : claims'[s].id = claims[s].id /\ claims'[s].attempt = claims[s].attempt
          /\ claims'[s].status = IF s = t THEN o ELSE claims[s].status
    BY <1>0, <1>2, <2>1, <2>2, StatusUpdate
  <2>4. \A s \in Tasks : RowStep(s)
    BY <1>1, <2>3 DEF RowStep
  <2>5. DeadLetterInv'
    BY <1>1, <2>1, <2>3 DEF IInv, DeadLetterInv
  <2> QED
    BY <1>1, <2>4, <2>5, RowsMove, UnchangedInv DEF IInv, EnvelopeInv
<1> QED
  BY <1>3, <1>4

LEMMA WorkerStepInv ==
    ASSUME IInv, TypeOK', NEW w \in Workers, WorkerStep(w) PROVE IInv'
<1>1. CASE SetBusy(w) \/ Finish(w) \/ CompleteRead(w) \/ Reply(w) \/ SeesClosed(w) \/ Connect(w)
  <2>1. UNCHANGED <<claims, made, msgStatus, inbox, listener, sweeper>>
    BY <1>1 DEF SetBusy, Finish, CompleteRead, Reply, SeesClosed, Connect, dbVars, nodeVars
  <2>2. UNCHANGED queue \/ queue' = [queue EXCEPT ![w] = <<>>]
    BY <1>1 DEF SetBusy, Finish, CompleteRead, Reply, SeesClosed, Connect
  <2> QED
    BY <2>1, <2>2, WorkerOnlyInv
<1> QED
  BY <1>1, TakeInv, CompleteWriteInv DEF WorkerStep

LEMMA WorkerFaultInv ==
    ASSUME IInv, TypeOK', NEW w \in Workers, WorkerFault(w) PROVE IInv'
<1>1. UNCHANGED <<claims, made, msgStatus, inbox, listener, sweeper>>
  BY DEF WorkerFault, Drop, Kill, ConnectFails, WorkerRaises, dbVars, nodeVars
<1>2. UNCHANGED queue \/ queue' = [queue EXCEPT ![w] = <<>>]
  BY DEF WorkerFault, Drop, Kill, ConnectFails, WorkerRaises
<1> QED
  BY <1>1, <1>2, WorkerOnlyInv

LEMMA EndpointStepInv ==
    ASSUME IInv, TypeOK', NEW w \in Workers, EndpointStep(w) PROVE IInv'
<1>1. CASE Register(w)
  <2>1. UNCHANGED <<made, msgStatus, inbox, listener, sweeper, queue>>
    BY <1>1 DEF Register, workerVars
  <2>2. \A t \in Tasks : \/ claims'[t] = claims[t]
                         \/ (claims'[t] = NoClaim /\ claims[t].status = "claimed")
    BY <1>1 DEF Register, Cleared
  <2>3. \A t \in Tasks : RowStep(t)
    BY <2>1, <2>2 DEF RowStep
  <2>4. DeadLetterInv'
    BY <2>1, <2>2 DEF IInv, DeadLetterInv
  <2> QED
    BY <2>1, <2>3, <2>4, RowsMove, UnchangedInv DEF IInv, EnvelopeInv
<1>2. CASE CleanUp(w)
  BY <1>2, WorkerOnlyInv DEF CleanUp, dbVars, workerVars
<1> QED
  BY <1>1, <1>2 DEF EndpointStep

\* A sweeper whose new value is sound.
LEMMA SweeperInv ==
    ASSUME IInv, TypeOK', \A t \in Tasks : RowStep(t),
           NEW n \in Nodes, NEW todo \in SUBSET Snapshots, NEW out \in Envelopes \cup {NoEnv},
           todo \subseteq SoundSnapshots', out \in SoundEnvelopes \cup {NoEnv},
           sweeper' = [sweeper EXCEPT ![n] = [todo |-> todo, out |-> out]]
    PROVE  OutInv' /\ SnapshotInv'
<1>1. SoundEnvelopes \subseteq SoundEnvelopes' /\ SoundSnapshots \subseteq SoundSnapshots'
  BY RowsMove
<1>2. sweeper \in [Nodes -> [todo : SUBSET Snapshots, out : Envelopes \cup {NoEnv}]]
  BY DEF IInv, TypeOK, NodeType
<1>3. OutInv'
  BY <1>1, <1>2 DEF IInv, EnvelopeInv, OutInv
<1>4. SnapshotInv'
  BY <1>1, <1>2 DEF IInv, SnapshotInv
<1> QED
  BY <1>3, <1>4

LEMMA SweepScanInv ==
    ASSUME IInv, TypeOK', NEW n \in Nodes, SweepScan(n) PROVE IInv'
<1> DEFINE todo == {Snapshot(t) : t \in Expired}
<1>1. UNCHANGED <<claims, made, msgStatus, inbox, listener, queue>>
      /\ sweeper' = [sweeper EXCEPT ![n] = [todo |-> todo, out |-> NoEnv]]
  BY DEF SweepScan, dbVars, workerVars
<1>2. \A t \in Tasks : RowStep(t)
  BY <1>1, SameRows
<1>3. todo \subseteq SoundSnapshots
  <2> SUFFICES ASSUME NEW t \in Expired PROVE Snapshot(t) \in SoundSnapshots
    OBVIOUS
  <2>1. t \in Tasks /\ claims[t] # NoClaim /\ ClaimsType /\ ClaimInv
    BY DEF Expired, NoClaim, IInv, TypeOK
  <2>2. claims[t] \in Claims
    BY <2>1, ClaimsUpdate
  <2>3. Snapshot(t) \in Snapshots
    BY <2>1, <2>2 DEF Claims, Snapshot, Snapshots
  <2> QED
    BY <2>1, <2>3 DEF Snapshot, SoundSnapshots, ClaimInv
<1> HIDE DEF todo
<1>4. todo \in SUBSET Snapshots /\ todo \subseteq SoundSnapshots'
  BY <1>2, <1>3, RowsMove DEF SoundSnapshots
<1>5. OutInv' /\ SnapshotInv'
  BY <1>1, <1>2, <1>4, SweeperInv
<1> QED
  BY <1>1, <1>2, <1>5, RowsMove, UnchangedInv DEF IInv, EnvelopeInv

LEMMA SweepDeadLetterInv ==
    ASSUME IInv, TypeOK', NEW n \in Nodes, NEW c \in sweeper[n].todo, SweepDeadLetter(n, c),
           UNCHANGED <<made, inbox, listener, queue>>
    PROVE  IInv'
<1>0. TypeOK /\ ClaimsType /\ c \in SoundSnapshots
  BY DEF IInv, TypeOK, SnapshotInv
<1>1. /\ sweeper[n].todo \in SUBSET Snapshots /\ sweeper[n].todo \subseteq SoundSnapshots
      /\ c.task \in Tasks /\ c.id \in Nat \ {0}
  BY <1>0 DEF IInv, SnapshotInv, TypeOK, NodeType, Snapshots, SoundSnapshots
<1>2. CASE RowThere(c.task, c.id)
  <2>1. /\ claims' = WithStatus(c.task, "timed_out")
        /\ msgStatus' = [msgStatus EXCEPT ![c.task] = "dead_letter"]
        /\ sweeper' = [sweeper EXCEPT ![n] =
                          [todo |-> sweeper[n].todo \ {c}, out |-> Notice(c.task)]]
    BY <1>2 DEF SweepDeadLetter, GivenUp
  <2>2. claims[c.task] # NoClaim
    BY <1>0, <1>1, <1>2, RowIsClaim
  <2>3. \A s \in Tasks :
           /\ claims'[s].id = claims[s].id /\ claims'[s].attempt = claims[s].attempt
           /\ claims'[s].status = IF s = c.task THEN "timed_out" ELSE claims[s].status
    BY <1>0, <1>1, <2>1, <2>2, StatusUpdate
  <2>4. \A s \in Tasks : RowStep(s)
    BY <2>3 DEF RowStep
  <2>5. claims[c.task].attempt >= MaxAttempts
    <3>1. c.attempt = claims[c.task].attempt
      BY <1>0, <1>2 DEF SoundSnapshots, RowThere
    <3> QED
      BY <3>1 DEF SweepDeadLetter, OutOfAttempts
  <2>6. DeadLetterInv'
    <3>1. \A s \in Tasks : msgStatus'[s] = "dead_letter" => s = c.task \/ msgStatus[s] = "dead_letter"
      BY <1>0, <2>1 DEF ClaimsType
    <3> QED
      BY <2>3, <2>5, <3>1 DEF IInv, DeadLetterInv
  <2>7. Notice(c.task) \in SoundEnvelopes
    <3>1. Notice(c.task) \in Envelopes /\ Notice(c.task).attempt = 0
          /\ Notice(c.task).task = c.task
      BY <1>1, TasksAreEnvelopes DEF Notice
    <3>2. 0 <= MaxAttempts /\ 0 <= made[c.task] + 1
      BY <1>0, <1>1, ClaimFields, ClaimsAssumption
    <3> QED
      BY <3>1, <3>2 DEF SoundEnvelopes
  <2>8. OutInv' /\ SnapshotInv'
    <3> DEFINE todo == sweeper[n].todo \ {c}
               out == Notice(c.task)
    <3>1. todo \in SUBSET Snapshots /\ todo \subseteq SoundSnapshots'
      BY <1>1, <2>4, RowsMove
    <3>2. out \in Envelopes \cup {NoEnv} /\ out \in SoundEnvelopes \cup {NoEnv}
      BY <2>7 DEF SoundEnvelopes
    <3>3. sweeper' = [sweeper EXCEPT ![n] = [todo |-> todo, out |-> out]]
      BY <2>1
    <3> HIDE DEF todo, out
    <3> QED
      BY <2>4, <3>1, <3>2, <3>3, SweeperInv
  <2> QED
    BY <2>4, <2>6, <2>8, RowsMove, UnchangedInv DEF IInv, EnvelopeInv
<1>3. CASE ~RowThere(c.task, c.id)
  <2>1. UNCHANGED <<claims, msgStatus>>
        /\ sweeper' = [sweeper EXCEPT ![n] = [todo |-> {}, out |-> NoEnv]]
    BY <1>3 DEF SweepDeadLetter, IdleSweeper
  <2>2. \A s \in Tasks : RowStep(s)
    BY <2>1, SameRows
  <2>3. OutInv' /\ SnapshotInv'
    <3> DEFINE todo == {}
    <3>1. todo \in SUBSET Snapshots /\ todo \subseteq SoundSnapshots'
          /\ sweeper' = [sweeper EXCEPT ![n] = [todo |-> todo, out |-> NoEnv]]
      BY <2>1
    <3> HIDE DEF todo
    <3> QED
      BY <2>2, <3>1, SweeperInv
  <2> QED
    BY <2>1, <2>2, <2>3, RowsMove, UnchangedInv DEF IInv, EnvelopeInv
<1> QED
  BY <1>2, <1>3

LEMMA SweepReclaimInv ==
    ASSUME IInv, TypeOK', NEW n \in Nodes, NEW c \in sweeper[n].todo, SweepReclaim(n, c),
           UNCHANGED <<made, inbox, listener, queue>>
    PROVE  IInv'
<1>0. TypeOK /\ ClaimsType /\ c \in SoundSnapshots
  BY DEF IInv, TypeOK, SnapshotInv
<1>1. /\ sweeper[n].todo \in SUBSET Snapshots /\ sweeper[n].todo \subseteq SoundSnapshots
      /\ c.task \in Tasks /\ c.attempt \in Nat /\ c.attempt <= made[c.task]
  BY <1>0 DEF IInv, SnapshotInv, TypeOK, NodeType, Snapshots, SoundSnapshots
<1>2. /\ claims' = IF RowThere(c.task, c.id) THEN Deleted(c.task) ELSE claims
      /\ sweeper' = [sweeper EXCEPT ![n] =
            [todo |-> sweeper[n].todo \ {c}, out |-> Task(c.task, c.attempt + 1)]]
      /\ UNCHANGED msgStatus
  BY DEF SweepReclaim
<1>3. c.attempt < MaxAttempts
  BY <1>1, ClaimsAssumption DEF SweepReclaim, OutOfAttempts
<1>4. \A s \in Tasks : claims'[s] = claims[s] \/ claims'[s] = NoClaim
  BY <1>0, <1>2 DEF ClaimsType, Deleted
<1>5. \A s \in Tasks : RowStep(s)
  BY <1>4 DEF RowStep
<1>6. DeadLetterInv'
  <2>1. ASSUME NEW s \in Tasks, msgStatus[s] = "dead_letter" PROVE claims'[s] = claims[s]
    <3>1. claims[s].attempt >= MaxAttempts /\ claims[s].attempt \in Nat
      BY <1>0, <2>1, ClaimFields DEF IInv, DeadLetterInv
    <3>2. ASSUME RowThere(c.task, c.id) PROVE claims[c.task].attempt = c.attempt
      BY <1>0, <3>2 DEF SoundSnapshots, RowThere
    <3>3. ASSUME RowThere(c.task, c.id) PROVE s # c.task
      BY <1>1, <1>3, <3>1, <3>2, <3>3, ClaimsAssumption
    <3> QED
      BY <1>0, <1>2, <3>3 DEF ClaimsType, Deleted
  <2> QED
    BY <1>2, <2>1 DEF IInv, DeadLetterInv
<1>7. Task(c.task, c.attempt + 1) \in SoundEnvelopes
  <2>1. /\ Task(c.task, c.attempt + 1) \in Envelopes
        /\ Task(c.task, c.attempt + 1).attempt = c.attempt + 1
        /\ Task(c.task, c.attempt + 1).task = c.task
    BY <1>1, TasksAreEnvelopes DEF Task
  <2>2. c.attempt + 1 <= MaxAttempts /\ c.attempt + 1 <= made[c.task] + 1
    BY <1>0, <1>1, <1>3, ClaimFields, ClaimsAssumption
  <2> QED
    BY <2>1, <2>2 DEF SoundEnvelopes
<1>8. OutInv' /\ SnapshotInv'
  <2> DEFINE todo == sweeper[n].todo \ {c}
             out == Task(c.task, c.attempt + 1)
  <2>1. todo \in SUBSET Snapshots /\ todo \subseteq SoundSnapshots'
    BY <1>1, <1>5, RowsMove
  <2>2. out \in Envelopes \cup {NoEnv} /\ out \in SoundEnvelopes \cup {NoEnv}
    BY <1>7 DEF SoundEnvelopes
  <2>3. sweeper' = [sweeper EXCEPT ![n] = [todo |-> todo, out |-> out]]
    BY <1>2
  <2> HIDE DEF todo, out
  <2> QED
    BY <1>5, <2>1, <2>2, <2>3, SweeperInv
<1> QED
  BY <1>2, <1>5, <1>6, <1>8, RowsMove, UnchangedInv DEF IInv, EnvelopeInv

LEMMA SweeperStepInv ==
    ASSUME IInv, TypeOK', NEW n \in Nodes, SweeperStep(n) \/ SweepRaises(n) PROVE IInv'
<1>0. TypeOK /\ OutInv /\ sweeper[n].todo \in SUBSET Snapshots
      /\ sweeper[n].todo \subseteq SoundSnapshots
  BY DEF IInv, EnvelopeInv, SnapshotInv, TypeOK, NodeType
<1>1. CASE SweepScan(n)
  BY <1>1, SweepScanInv
<1>2. CASE SweepOne(n)
  BY <1>2, SweepDeadLetterInv, SweepReclaimInv DEF SweepOne, workerVars
<1>3. CASE SweepPublish(n)
  <2>1. UNCHANGED <<claims, made, msgStatus, listener, queue>>
    BY <1>3 DEF SweepPublish, dbVars, workerVars
  <2>2. \A t \in Tasks : RowStep(t)
    BY <2>1, SameRows
  <2>3. InboxInv'
    BY <1>0, <1>3, <2>2, PublishInv DEF SweepPublish, OutInv
  <2> DEFINE todo == sweeper[n].todo
  <2>4. /\ todo \in SUBSET Snapshots /\ todo \subseteq SoundSnapshots'
        /\ sweeper' = [sweeper EXCEPT ![n] = [todo |-> todo, out |-> NoEnv]]
    BY <1>0, <1>3, <2>2, RowsMove DEF SweepPublish
  <2> HIDE DEF todo
  <2>5. OutInv' /\ SnapshotInv'
    BY <2>2, <2>4, SweeperInv
  <2> QED
    BY <2>1, <2>2, <2>3, <2>5, RowsMove, UnchangedInv DEF IInv, EnvelopeInv
<1>4. CASE SweepRaises(n)
  <2>1. UNCHANGED <<claims, made, msgStatus, inbox, listener, queue>>
    BY <1>4 DEF SweepRaises, dbVars, workerVars
  <2>2. \A t \in Tasks : RowStep(t)
    BY <2>1, SameRows
  <2> DEFINE todo == {}
  <2>3. /\ todo \in SUBSET Snapshots /\ todo \subseteq SoundSnapshots'
        /\ sweeper' = [sweeper EXCEPT ![n] = [todo |-> todo, out |-> NoEnv]]
    BY <1>4 DEF SweepRaises, IdleSweeper
  <2> HIDE DEF todo
  <2>4. OutInv' /\ SnapshotInv'
    BY <2>2, <2>3, SweeperInv
  <2> QED
    BY <2>1, <2>2, <2>4, RowsMove, UnchangedInv DEF IInv, EnvelopeInv
<1> QED
  BY <1>1, <1>2, <1>3, <1>4 DEF SweeperStep

LEMMA InvStep == IInv /\ [Next]_vars => IInv'
<1> SUFFICES ASSUME IInv, [Next]_vars PROVE IInv'
  OBVIOUS
<1>1. TypeOK'
  BY TypeStep DEF IInv
<1>2. CASE UNCHANGED vars
  BY <1>1, <1>2, WorkerOnlyInv DEF vars, dbVars, nodeVars, workerVars
<1>3. CASE Next
  BY <1>1, <1>3, TaskStepInv, WorkerStepInv, EndpointStepInv, WorkerFaultInv, ListenerStepInv,
     SweeperStepInv DEF Next, NodeFault
<1> QED
  BY <1>2, <1>3

LEMMA Invariance == Spec => []IInv
  BY InitInv, InvStep, PTL DEF Spec

\* No claim is made for an attempt past MAX_ATTEMPTS, however many workers,
\* nodes, sweeps and faults there are (_sweep, _process_task).
THEOREM AttemptsAreBounded == Spec => []AttemptBound
<1>1. IInv => AttemptBound
  BY DEF IInv, ClaimInv, AttemptBound
<1> QED
  BY <1>1, Invariance, PTL

\* A task becomes a dead letter only after MAX_ATTEMPTS claims of it (_sweep),
\* whichever sweepers took them back.
THEOREM GivenUpInTime == Spec => []NotGivenUpEarly
<1>1. IInv => NotGivenUpEarly
  <2> SUFFICES ASSUME IInv, NEW t \in Tasks, msgStatus[t] = "dead_letter"
               PROVE  made[t] >= MaxAttempts
    BY DEF NotGivenUpEarly
  <2>1. claims[t].attempt >= MaxAttempts /\ claims[t].attempt <= made[t]
    BY DEF IInv, DeadLetterInv, ClaimInv
  <2>2. claims[t].attempt \in Nat /\ made[t] \in Nat /\ MaxAttempts \in Nat
    BY ClaimFields, ClaimsAssumption DEF IInv, TypeOK
  <2> QED
    BY <2>1, <2>2
<1> QED
  BY <1>1, Invariance, PTL

\* A dead letter's claim is never deleted nor made again, although sweepers act on
\* snapshots that are out of date and old envelopes are still in the queues.
THEOREM DeadLettersStaySettled == Spec => []DeadLetterIsSettled
<1>1. IInv => DeadLetterIsSettled
  BY DEF IInv, DeadLetterInv, DeadLetterIsSettled
<1> QED
  BY <1>1, Invariance, PTL
=============================================================================
