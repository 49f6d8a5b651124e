-------------------------- MODULE AdmissionProofs --------------------------
(***************************************************************************)
(* The admission of tasks and child agents, for any number of tasks,       *)
(* connection threads, repositories, paths, requests and crashes, and      *)
(* whatever the clients do to the tasks: write scopes stay disjoint, no    *)
(* two nodes of the fleet carry one key, a refused admission leaves        *)
(* nothing behind, and the children of a parent are bounded.               *)
(*                                                                         *)
(* And two that answer questions while others go on: the dispatch of the   *)
(* surface's requests, and the desk that tells an agent about its          *)
(* repository.                                                             *)
(***************************************************************************)
EXTENDS AgentAdmission, FiniteSetTheorems, FunctionTheorems, TLAPS

\* What a step may do to the state of a task: nothing, mint it, or move it along an
\* edge of the state machine; a task that begins to wait is remembered.
Moves(t) ==
  \/ state'[t] = state[t]
  \/ state[t] = None /\ state'[t] = "created"
  \/ /\ \E ev \in TaskEvents : Accepts(t, ev) /\ state'[t] = StateAfter(state[t], ev)
     /\ state'[t] = "waiting" => t \in waited'

\* What it may do to a scope: keep it, or release it.
Shrinks(t) ==
  held'[t].repo = held[t].repo /\ (held'[t].paths = held[t].paths \/ held'[t].paths = {})

\* A task that was never minted holds nothing.
Unborn == \A t \in Tasks : state[t] = None => held[t].paths = {}

\* What a thread knows of the tasks of its request: the one it is about to acquire
\* a scope for was minted.
JobsSound ==
  \A h \in Handlers : job[h] # Idle =>
    /\ job[h].at \in {"check", "capacity", "mint"} => job[h].parent \in Tasks
    /\ job[h].at \notin {"check", "capacity", "mint"} => job[h].task \in Tasks
    /\ job[h].at \in {"node", "acquire"} => state[job[h].task] # None

WaitersKnown == \A t \in Tasks : state[t] = "waiting" => t \in waited

ScopeInv == TypeOK /\ Unborn /\ JobsSound /\ WaitersKnown /\ WriteScopesDisjoint

-----------------------------------------------------------------------------
LEMMA Machine ==
  ASSUME NEW s \in TaskStates \cup {None}, NEW ev \in TaskEvents, s \in AcceptedFrom(ev)
  PROVE  /\ StateAfter(s, ev) \in TaskStates
         /\ s \in TaskStates
         /\ StateAfter(s, ev) \in ActiveStates => s \in ActiveStates \cup {"waiting"}
<1>1. s # None
  BY DEF AcceptedFrom, TaskStates, Terminal, None, TaskEvents
<1> QED
  BY <1>1 DEF AcceptedFrom, StateAfter, TaskStates, Terminal, TaskEvents, None, ActiveStates

LEMMA ApplyType ==
  ASSUME NEW t, NEW ev \in TaskEvents, Accepts(t, ev), Apply(t, ev),
         state \in [Tasks -> TaskStates \cup {None}]
  PROVE  state' \in [Tasks -> TaskStates \cup {None}]
<1>1. CASE t \in Tasks
  <2>1. StateAfter(state[t], ev) \in TaskStates
    BY <1>1, Machine DEF Accepts
  <2> QED
    BY <1>1, <2>1 DEF Apply
<1>2. CASE t \notin Tasks
  BY <1>2 DEF Apply
<1> QED
  BY <1>1, <1>2

LEMMA GotoType ==
  ASSUME job \in [Handlers -> Jobs \cup {Idle}], NEW h \in Handlers, job[h] # Idle,
         NEW place \in Places, Goto(h, place)
  PROVE  job' \in [Handlers -> Jobs \cup {Idle}]
BY DEF Goto, Jobs

LEMMA DoneType ==
  ASSUME job \in [Handlers -> Jobs \cup {Idle}], NEW h \in Handlers, Done(h)
  PROVE  job' \in [Handlers -> Jobs \cup {Idle}]
BY DEF Done

LEMMA SweptType ==
  ASSUME TypeOK
  PROVE  Swept \in [Tasks -> [repo : Keyed, paths : SUBSET Paths]]
BY DEF TypeOK, Swept

\* The events the admission itself brings about.
LEMMA OwnEvents ==
  {"task_queued", "task_started", "task_waiting", "task_cancelled"} \subseteq TaskEvents
BY DEF TaskEvents

LEMMA RequestType ==
  ASSUME TypeOK, NEW h \in Handlers, Request(h)
  PROVE  TypeOK'
<1> USE AdmissionBounds, AdmissionIds
<1>0. ASSUME Asked(h) PROVE UNCHANGED marks /\ requests' \in 0..MaxRequests /\ job[h] = Idle
  BY <1>0 DEF Asked, TypeOK
<1>1. ASSUME NEW t \in Tasks, NEW r \in Keyed, NEW s \in Scopes, CreateTask(h, t, r, s)
      PROVE  TypeOK'
  <2>1. [at |-> "acquire", task |-> t, parent |-> NoTask, key |-> NoKey, scope |-> s,
         repo |-> r] \in Jobs
    BY DEF Jobs, Places
  <2>2. job' \in [Handlers -> Jobs \cup {Idle}]
    BY <1>1, <2>1 DEF CreateTask, TypeOK
  <2>3. state' \in [Tasks -> TaskStates \cup {None}]
    BY <1>1 DEF CreateTask, Mint, TypeOK, TaskStates
  <2>4. parent' \in [Tasks -> Tasks \cup {NoTask}] /\ repo' \in [Tasks -> Keyed]
    BY <1>1 DEF CreateTask, Mint, TypeOK
  <2> QED
    BY <1>0, <1>1, <2>2, <2>3, <2>4, Zenon DEF CreateTask, TypeOK, agents, marks
<1>2. ASSUME NEW p \in Tasks, NEW k \in Keys \cup {NoKey}, NEW s \in Scopes,
             SpawnAgent(h, p, k, s)
      PROVE  TypeOK'
  <2>1. [at |-> "check", task |-> NoTask, parent |-> p, key |-> k, scope |-> s,
         repo |-> Default] \in Jobs
    BY DEF Jobs, Places, Keyed
  <2>2. job' \in [Handlers -> Jobs \cup {Idle}]
    BY <1>2, <2>1 DEF SpawnAgent, TypeOK
  <2> QED
    BY <1>0, <1>2, <2>2, Zenon DEF SpawnAgent, TypeOK, agents, tables, marks
<1>3. ASSUME NEW t \in Tasks, NEW status \in {"parked", "foreground"},
             NEW place \in {"park", "resume"}, SetStatus(h, t, status, place), Asked(h),
             UNCHANGED <<tables, index, fleet>>
      PROVE  TypeOK'
  <2>1. [at |-> place, task |-> t, parent |-> NoTask, key |-> NoKey, scope |-> {},
         repo |-> Default] \in Jobs
    BY DEF Jobs, Places, Keyed
  <2>2. job' \in [Handlers -> Jobs \cup {Idle}]
    <3> DEFINE new == [at |-> place, task |-> t, parent |-> NoTask, key |-> NoKey, scope |-> {},
                       repo |-> Default]
    <3>1. job' = [job EXCEPT ![h] = new] \/ job' = job
      BY <1>3 DEF SetStatus
    <3>2. new \in Jobs
      BY <2>1
    <3> HIDE DEF new
    <3> QED
      BY <3>1, <3>2 DEF TypeOK
  <2>3. node' \in [Tasks -> Nodes]
    BY <1>3 DEF SetStatus, TypeOK, Nodes
  <2>4. journal' \in [Tasks -> Nodes]
    BY <1>3, <2>3 DEF SetStatus, TypeOK
  <2> QED
    BY <1>0, <1>3, <2>2, <2>3, <2>4, Zenon DEF TypeOK, tables, marks
<1> QED
  BY <1>1, <1>2, <1>3 DEF Request, ParkAgent, ResumeAgent

LEMMA StepType ==
  ASSUME TypeOK, JobsSound, NEW h \in Handlers, Step(h)
  PROVE  TypeOK'
<1> USE AdmissionBounds, AdmissionIds
<1>1. CASE CheckParent(h)
  <2>1. job' \in [Handlers -> Jobs \cup {Idle}]
    BY <1>1, GotoType, DoneType DEF CheckParent, At, TypeOK, Places
  <2> QED
    BY <1>1, <2>1, Zenon DEF CheckParent, TypeOK, tables, agents, history, marks
<1>2. CASE CheckCapacity(h)
  <2>1. job' \in [Handlers -> Jobs \cup {Idle}]
    BY <1>2, GotoType, DoneType DEF CheckCapacity, At, TypeOK, Places
  <2>2. job[h].parent \in Tasks
    BY <1>2 DEF CheckCapacity, At, JobsSound
  <2>3. raced' \subseteq Tasks
    BY <1>2, <2>2 DEF CheckCapacity, TypeOK
  <2> QED
    BY <1>2, <2>1, <2>3, Zenon DEF CheckCapacity, TypeOK, tables, agents
<1>3. ASSUME NEW t \in Tasks, MintChild(h, t) PROVE TypeOK'
  <2>1. job[h] \in Jobs
    BY <1>3 DEF MintChild, At, TypeOK
  <2>2. [job[h] EXCEPT !.at = "node", !.task = t] \in Jobs
    BY <2>1 DEF Jobs, Places
  <2>3. job' \in [Handlers -> Jobs \cup {Idle}]
    BY <1>3, <2>2 DEF MintChild, TypeOK
  <2>4. state' \in [Tasks -> TaskStates \cup {None}]
    BY <1>3 DEF MintChild, Mint, TypeOK, TaskStates
  <2>5. job[h].parent \in Tasks \cup {NoTask}
    BY <2>1 DEF Jobs
  <2>6. parent' \in [Tasks -> Tasks \cup {NoTask}]
    BY <1>3, <2>5 DEF MintChild, Mint, TypeOK
  <2>7. repo' \in [Tasks -> Keyed]
    BY <1>3 DEF MintChild, Mint, TypeOK, Keyed
  <2> QED
    BY <1>3, <2>3, <2>4, <2>6, <2>7, Zenon DEF MintChild, TypeOK, agents, history, marks
<1>4. CASE AttachNode(h)
  <2> DEFINE t == job[h].task
             k == job[h].key
             new == [status |-> "foreground", key |-> k]
  <2>1. job[h] \in Jobs /\ job[h] # Idle /\ t \in Tasks /\ k \in Keys \cup {NoKey}
    BY <1>4 DEF AttachNode, At, TypeOK, JobsSound, Jobs
  <2>2. new \in Nodes
    BY <2>1 DEF Nodes
  <2> HIDE DEF new, t, k
  <2>3. job' \in [Handlers -> Jobs \cup {Idle}]
    <3>1. Goto(h, "release") \/ Goto(h, "acquire") \/ Done(h)
      BY <1>4 DEF AttachNode
    <3> QED
      BY <2>1, <3>1, GotoType, DoneType DEF TypeOK, Places
  <2>4. index' = index \/ BindKey(k, t)
    BY <1>4 DEF AttachNode, agents, t, k
  <2>5. index' \in [Keys -> Tasks \cup {NoTask}]
    BY <2>1, <2>4 DEF BindKey, TypeOK
  <2>6. /\ journal' = journal \/ journal' = [journal EXCEPT ![t] = new]
        /\ node' = node \/ node' = [node EXCEPT ![t] = new]
        /\ fleet' \in {fleet, "poisoned"}
    BY <1>4 DEF AttachNode, agents, t, k, new
  <2>7. journal' \in [Tasks -> Nodes] /\ node' \in [Tasks -> Nodes]
    <3>1. journal \in [Tasks -> Nodes] /\ node \in [Tasks -> Nodes]
      BY DEF TypeOK
    <3>2. journal' \in [Tasks -> Nodes]
      BY <2>1, <2>2, <2>6, <3>1
    <3>3. node' \in [Tasks -> Nodes]
      BY <2>1, <2>2, <2>6, <3>1
    <3> QED
      BY <3>2, <3>3
  <2>8. fleet' \in {"ok", "poisoned"}
    BY <2>6 DEF TypeOK
  <2>9. UNCHANGED <<tables, history>>
    BY <1>4 DEF AttachNode
  <2> QED
    BY <2>3, <2>5, <2>7, <2>8, <2>9, Zenon DEF TypeOK, tables, history, marks
<1>5. CASE AcquireScope(h)
  <2> DEFINE j == job[h]
             key == ScopeKey(j)
  <2>1. j \in Jobs /\ j # Idle
    BY <1>5 DEF AcquireScope, At, TypeOK
  <2>2. key \in Keyed /\ j.scope \in SUBSET Paths /\ j.task \in Tasks \cup {NoTask}
    BY <2>1 DEF ScopeKey, Jobs, TypeOK
  <2> HIDE DEF j, key
  <2>3. \/ held' = held \/ held' = Swept
        \/ \E some \in SUBSET j.scope :
             held' = [Swept EXCEPT ![j.task] = [repo |-> key, paths |-> some]]
    BY <1>5 DEF AcquireScope, j, key
  <2>4. held' \in [Tasks -> [repo : Keyed, paths : SUBSET Paths]]
    <3> DEFINE Held == [repo : Keyed, paths : SUBSET Paths]
    <3>1. \A some \in SUBSET j.scope : [repo |-> key, paths |-> some] \in Held
      BY <2>2
    <3>2. held \in [Tasks -> Held] /\ Swept \in [Tasks -> Held]
      BY SweptType DEF TypeOK
    <3> HIDE DEF Held
    <3>3. \A some \in SUBSET j.scope :
            [Swept EXCEPT ![j.task] = [repo |-> key, paths |-> some]] \in [Tasks -> Held]
      BY <3>1, <3>2
    <3>4. held' \in [Tasks -> Held]
      BY <2>3, <3>2, <3>3
    <3> QED
      BY <3>4 DEF Held
  <2>5. job' \in [Handlers -> Jobs \cup {Idle}]
    <3>1. Goto(h, "queue") \/ Goto(h, "cancel") \/ Goto(h, "release") \/ Done(h)
      BY <1>5 DEF AcquireScope
    <3> QED
      BY <2>1, <3>1, GotoType, DoneType DEF TypeOK, Places, j
  <2>6. UNCHANGED <<state, parent, repo, agents, history>>
    BY <1>5 DEF AcquireScope
  <2> QED
    BY <2>4, <2>5, <2>6, Zenon DEF TypeOK, agents, history, marks
<1>6. ASSUME NEW ev \in TaskEvents, job[h] # Idle,
             \/ Accepts(job[h].task, ev) /\ Apply(job[h].task, ev)
             \/ UNCHANGED state,
             Done(h) \/ \E place \in Places : Goto(h, place),
             UNCHANGED <<parent, repo, held, agents, raced, requests, crashes>>,
             refused' \subseteq refused \cup {job[h].task},
             waited' \subseteq waited \cup {job[h].task},
             job[h].task \in Tasks
      PROVE  TypeOK'
  <2>1. state' \in [Tasks -> TaskStates \cup {None}]
    BY <1>6, ApplyType DEF TypeOK
  <2>2. job' \in [Handlers -> Jobs \cup {Idle}]
    BY <1>6, GotoType, DoneType DEF TypeOK
  <2>3. refused' \subseteq Tasks /\ waited' \subseteq Tasks
    BY <1>6 DEF TypeOK
  <2> QED
    BY <1>6, <2>1, <2>2, <2>3, Zenon DEF TypeOK, agents
<1>7. CASE QueueChild(h)
  BY <1>6, <1>7, OwnEvents DEF QueueChild, At, JobsSound, Places, history, marks
<1>8. CASE StartChild(h)
  BY <1>6, <1>8, OwnEvents DEF StartChild, At, JobsSound, Places, history, marks
<1>9. CASE CancelMinted(h)
  BY <1>6, <1>9, OwnEvents DEF CancelMinted, At, JobsSound
<1>10. CASE ParkTask(h)
  BY <1>6, <1>10, OwnEvents DEF ParkTask, Wait, At, JobsSound
<1>11. CASE ResumeTask(h)
  BY <1>6, <1>11, OwnEvents DEF ResumeTask, At, JobsSound, history, marks
<1>12. CASE ReleaseScope(h)
  <2>1. held' \in [Tasks -> [repo : Keyed, paths : SUBSET Paths]]
    <3> DEFINE t == job[h].task
    <3>1. held' = [held EXCEPT ![t] = [held[t] EXCEPT !.paths = {}]]
      BY <1>12 DEF ReleaseScope
    <3>2. t \in Tasks
      BY <1>12 DEF ReleaseScope, At, JobsSound
    <3>3. held[t] \in [repo : Keyed, paths : SUBSET Paths]
      BY <3>2 DEF TypeOK
    <3>4. [held[t] EXCEPT !.paths = {}] \in [repo : Keyed, paths : SUBSET Paths]
      BY <3>3
    <3> QED
      BY <3>1, <3>2, <3>4 DEF TypeOK
  <2>2. job' \in [Handlers -> Jobs \cup {Idle}]
    BY <1>12, GotoType DEF ReleaseScope, At, TypeOK, Places
  <2> QED
    BY <1>12, <2>1, <2>2, Zenon DEF ReleaseScope, TypeOK, agents, history, marks
<1> QED
  BY <1>1, <1>2, <1>3, <1>4, <1>5, <1>7, <1>8, <1>9, <1>10, <1>11, <1>12 DEF Step

LEMMA TypeStep ==
  ASSUME TypeOK, JobsSound, [Next]_vars
  PROVE  TypeOK'
<1> USE AdmissionBounds, AdmissionIds
<1>1. ASSUME NEW t \in Tasks, NEW ev \in ClientEvents, TaskEvent(t, ev) PROVE TypeOK'
  <2>1. state' \in [Tasks -> TaskStates \cup {None}]
    BY <1>1, ApplyType DEF TaskEvent, TypeOK
  <2>2. waited' \subseteq Tasks
    BY <1>1 DEF TaskEvent, TypeOK
  <2> QED
    BY <1>1, <2>1, <2>2, Zenon DEF TaskEvent, TypeOK, agents
<1>2. CASE Crash
  <2>1. index' \in [Keys -> Tasks \cup {NoTask}]
    <3>1. \A k \in Keys : (\E t \in Tasks : journal[t] # NoNode /\ journal[t].key = k) =>
            (CHOOSE t \in Tasks : journal[t] # NoNode /\ journal[t].key = k) \in Tasks
      OBVIOUS
    <3> QED
      BY <1>2, <3>1 DEF Crash
  <2>2. crashes' \in 0..MaxCrashes
    BY <1>2 DEF Crash, TypeOK
  <2>3. job' \in [Handlers -> Jobs \cup {Idle}]
    BY <1>2 DEF Crash
  <2> QED
    BY <1>2, <2>1, <2>2, <2>3, Zenon DEF Crash, TypeOK, tables
<1>3. CASE UNCHANGED vars
  BY <1>3, Zenon DEF vars, tables, agents, history, marks, TypeOK
<1> QED
  BY <1>1, <1>2, <1>3, RequestType, StepType DEF Next

-----------------------------------------------------------------------------
\* Every step moves every task along the state machine.
LEMMA StepMoves ==
  ASSUME TypeOK, JobsSound, [Next]_vars, NEW t \in Tasks
  PROVE  Moves(t) /\ waited \subseteq waited'
<1> USE AdmissionIds
<1>1. CASE UNCHANGED <<state, waited>>
  BY <1>1 DEF Moves
<1>2. ASSUME NEW u \in Tasks, NEW p, NEW r, Mint(u, p, r), UNCHANGED waited
      PROVE  Moves(t) /\ waited \subseteq waited'
  BY <1>2 DEF Mint, Moves, TypeOK
<1>3. ASSUME NEW u \in Tasks, NEW ev \in TaskEvents, Accepts(u, ev), Apply(u, ev),
             waited' = IF ev = "task_waiting" THEN waited \cup {u} ELSE waited
      PROVE  Moves(t) /\ waited \subseteq waited'
  <2>1. waited \subseteq waited'
    BY <1>3
  <2>2. CASE t # u
    BY <1>3, <2>1, <2>2 DEF Apply, Moves, TypeOK
  <2>3. CASE t = u
    <3>1. state'[t] = StateAfter(state[t], ev)
      BY <1>3, <2>3 DEF Apply, TypeOK
    <3>2. state'[t] = "waiting" => ev = "task_waiting" \/ state'[t] = state[t]
      BY <3>1 DEF StateAfter, TaskEvents
    <3> QED
      BY <1>3, <2>1, <2>3, <3>1, <3>2 DEF Moves
  <2> QED
    BY <2>2, <2>3
<1>4. ASSUME NEW h \in Handlers, Step(h) PROVE Moves(t) /\ waited \subseteq waited'
  <2>1. CASE \/ CheckParent(h) \/ CheckCapacity(h) \/ AttachNode(h) \/ AcquireScope(h)
             \/ ReleaseScope(h)
    BY <1>1, <2>1
       DEF CheckParent, CheckCapacity, AttachNode, AcquireScope, ReleaseScope, tables, history,
           marks
  <2>2. ASSUME NEW u \in Tasks, MintChild(h, u) PROVE Moves(t) /\ waited \subseteq waited'
    BY <1>2, <2>2 DEF MintChild, history, marks
  <2>3. CASE QueueChild(h)
    BY <1>1, <1>3, <2>3, OwnEvents DEF QueueChild, At, JobsSound, history, marks
  <2>4. CASE StartChild(h)
    BY <1>1, <1>3, <2>4, OwnEvents DEF StartChild, At, JobsSound, history, marks
  <2>5. CASE CancelMinted(h)
    BY <1>1, <1>3, <2>5, OwnEvents DEF CancelMinted, At, JobsSound
  <2>6. CASE ParkTask(h)
    BY <1>1, <1>3, <2>6, OwnEvents DEF ParkTask, Wait, At, JobsSound
  <2>7. CASE ResumeTask(h)
    BY <1>1, <1>3, <2>7, OwnEvents DEF ResumeTask, At, JobsSound, history, marks
  <2> QED
    BY <1>4, <2>1, <2>2, <2>3, <2>4, <2>5, <2>6, <2>7 DEF Step
<1>5. ASSUME NEW h \in Handlers, Request(h) PROVE Moves(t) /\ waited \subseteq waited'
  BY <1>1, <1>2, <1>5
     DEF Request, CreateTask, SpawnAgent, ParkAgent, ResumeAgent, Asked, tables, marks
<1>6. ASSUME NEW u \in Tasks, NEW ev \in ClientEvents, TaskEvent(u, ev)
      PROVE  Moves(t) /\ waited \subseteq waited'
  BY <1>3, <1>6 DEF TaskEvent
<1>7. CASE Crash \/ UNCHANGED vars
  BY <1>1, <1>7 DEF Crash, vars, tables, history, marks
<1> QED
  BY <1>4, <1>5, <1>6, <1>7 DEF Next

\* A minted task stays minted; a task becomes active by being minted, or was active
\* or waiting before.
LEMMA MovesMeans ==
  ASSUME TypeOK, NEW t \in Tasks, Moves(t)
  PROVE  /\ state[t] # None => state'[t] # None
         /\ state'[t] \in ActiveStates => state[t] \in ActiveStates \cup {None, "waiting"}
         /\ state'[t] = "waiting" => state[t] = "waiting" \/ t \in waited'
<1>1. state[t] \in TaskStates \cup {None} /\ None \notin TaskStates
  BY DEF TypeOK, None, TaskStates
<1>2. CASE state'[t] = state[t]
  BY <1>2
<1>3. CASE state[t] = None /\ state'[t] = "created"
  BY <1>3 DEF None
<1>4. ASSUME NEW ev \in TaskEvents, Accepts(t, ev), state'[t] = StateAfter(state[t], ev),
             state'[t] = "waiting" => t \in waited'
      PROVE  /\ state[t] # None => state'[t] # None
             /\ state'[t] \in ActiveStates => state[t] \in ActiveStates \cup {None, "waiting"}
             /\ state'[t] = "waiting" => state[t] = "waiting" \/ t \in waited'
  BY <1>1, <1>4, Machine DEF Accepts
<1> QED
  BY <1>2, <1>3, <1>4 DEF Moves

-----------------------------------------------------------------------------
LEMMA JobsStep ==
  ASSUME TypeOK, JobsSound, [Next]_vars
  PROVE  JobsSound'
<1> USE AdmissionIds
<1>0. \A t \in Tasks : state[t] # None => state'[t] # None
  BY StepMoves, MovesMeans
<1>1. ASSUME NEW h \in Handlers, \A g \in Handlers \ {h} : job'[g] = job[g],
             \/ job'[h] = Idle
             \/ /\ job'[h].at \in {"check", "capacity", "mint"} => job'[h].parent \in Tasks
                /\ job'[h].at \notin {"check", "capacity", "mint"} => job'[h].task \in Tasks
                /\ job'[h].at \in {"node", "acquire"} => state'[job'[h].task] # None
      PROVE  JobsSound'
  BY <1>0, <1>1 DEF JobsSound
<1>2. ASSUME NEW h \in Handlers, Done(h) PROVE JobsSound'
  BY <1>1, <1>2 DEF Done, TypeOK
<1>3. ASSUME NEW h \in Handlers, job[h] # Idle, NEW place \in Places, Goto(h, place),
             place \in {"check", "capacity", "mint"} => job[h].parent \in Tasks,
             place \notin {"check", "capacity", "mint"} => job[h].task \in Tasks,
             place \in {"node", "acquire"} => state[job[h].task] # None
      PROVE  JobsSound'
  <2>1. job[h] \in Jobs
    BY <1>3 DEF TypeOK
  <2>2. job'[h] = [job[h] EXCEPT !.at = place] /\ \A g \in Handlers \ {h} : job'[g] = job[g]
    BY <1>3 DEF Goto, TypeOK
  <2>3. job'[h].at = place /\ job'[h].parent = job[h].parent /\ job'[h].task = job[h].task
    BY <2>1, <2>2 DEF Jobs
  <2> QED
    BY <1>0, <1>1, <1>3, <2>2, <2>3 DEF Places
<1>4. ASSUME NEW h \in Handlers, Step(h) PROVE JobsSound'
  <2>1. CASE CheckParent(h)
    BY <1>2, <1>3, <2>1 DEF CheckParent, At, JobsSound, Places
  <2>2. CASE CheckCapacity(h)
    BY <1>2, <1>3, <2>2 DEF CheckCapacity, At, JobsSound, Places
  <2>3. ASSUME NEW u \in Tasks, MintChild(h, u) PROVE JobsSound'
    <3>1. job[h] \in Jobs
      BY <2>3 DEF MintChild, At, TypeOK
    <3>2. /\ job'[h] = [job[h] EXCEPT !.at = "node", !.task = u]
          /\ \A g \in Handlers \ {h} : job'[g] = job[g]
      BY <2>3 DEF MintChild, TypeOK
    <3>3. job'[h].at = "node" /\ job'[h].task = u
      BY <3>1, <3>2 DEF Jobs
    <3>4. state'[u] # None
      BY <2>3 DEF MintChild, Mint, TypeOK, None
    <3> QED
      BY <1>1, <3>2, <3>3, <3>4
  <2>4. CASE AttachNode(h)
    BY <1>2, <1>3, <2>4 DEF AttachNode, At, JobsSound, Places
  <2>5. CASE AcquireScope(h)
    BY <1>2, <1>3, <2>5 DEF AcquireScope, At, JobsSound, Places
  <2>6. CASE QueueChild(h) \/ StartChild(h) \/ ReleaseScope(h)
    BY <1>2, <1>3, <2>6 DEF QueueChild, StartChild, ReleaseScope, At, JobsSound, Places
  <2>7. CASE CancelMinted(h) \/ ParkTask(h) \/ ResumeTask(h)
    BY <1>2, <2>7 DEF CancelMinted, ParkTask, ResumeTask
  <2> QED
    BY <1>4, <2>1, <2>2, <2>3, <2>4, <2>5, <2>6, <2>7 DEF Step
<1>5. ASSUME NEW h \in Handlers, Request(h) PROVE JobsSound'
  <2>1. ASSUME NEW t \in Tasks, NEW r \in Keyed, NEW s \in Scopes, CreateTask(h, t, r, s)
        PROVE  JobsSound'
    BY <1>1, <2>1 DEF CreateTask, Mint, TypeOK, None
  <2>2. ASSUME NEW p \in Tasks, NEW k \in Keys \cup {NoKey}, NEW s \in Scopes,
               SpawnAgent(h, p, k, s)
        PROVE  JobsSound'
    BY <1>1, <2>2 DEF SpawnAgent, TypeOK
  <2>3. ASSUME NEW t \in Tasks, NEW status, NEW place \in {"park", "resume"},
               SetStatus(h, t, status, place), Asked(h)
        PROVE  JobsSound'
    <3>1. CASE job' = job
      BY <1>0, <3>1 DEF JobsSound
    <3>2. CASE job' = [job EXCEPT ![h] = [at |-> place, task |-> t, parent |-> NoTask,
                                          key |-> NoKey, scope |-> {}, repo |-> Default]]
      BY <1>1, <3>2 DEF TypeOK
    <3> QED
      BY <2>3, <3>1, <3>2 DEF SetStatus
  <2> QED
    BY <1>5, <2>1, <2>2, <2>3 DEF Request, ParkAgent, ResumeAgent
<1>6. CASE UNCHANGED job
  BY <1>0, <1>6 DEF JobsSound
<1>7. CASE Crash
  BY <1>7 DEF Crash, JobsSound
<1> QED
  BY <1>4, <1>5, <1>6, <1>7 DEF Next, vars, TaskEvent

-----------------------------------------------------------------------------
\* What an acquisition has checked when it writes its rows.
Acquires(t, key, scope) ==
  /\ UNCHANGED <<state, waited>>
  /\ state[t] # None
  /\ ~Conflict(key, scope)
  /\ held'[t].repo = key /\ held'[t].paths \subseteq scope
  /\ \A u \in Tasks \ {t} : Shrinks(u)

LEMMA SweptShrinks ==
  ASSUME TypeOK, NEW t \in Tasks
  PROVE  /\ Swept[t].repo = held[t].repo
         /\ Swept[t].paths = held[t].paths \/ Swept[t].paths = {}
         /\ state[t] \in ActiveStates => Swept[t] = held[t]
<1>1. held[t] \in [repo : Keyed, paths : SUBSET Paths]
  BY DEF TypeOK
<1> QED
  BY <1>1 DEF Swept, ActiveStates, Terminal

\* Only an acquisition makes a scope grow.
LEMMA StepHeld ==
  ASSUME TypeOK, JobsSound, [Next]_vars
  PROVE  \/ \A t \in Tasks : Shrinks(t)
         \/ \E t \in Tasks, key \in Keyed, scope \in SUBSET Paths : Acquires(t, key, scope)
<1> USE AdmissionIds
<1>1. CASE UNCHANGED held
  BY <1>1 DEF Shrinks
<1>2. ASSUME NEW h \in Handlers, AcquireScope(h)
      PROVE  \/ \A t \in Tasks : Shrinks(t)
             \/ \E t \in Tasks, key \in Keyed, scope \in SUBSET Paths : Acquires(t, key, scope)
  <2> DEFINE j == job[h]
             key == ScopeKey(j)
  <2>1. j \in Jobs /\ j # Idle /\ j.task \in Tasks /\ state[j.task] # None
    BY <1>2 DEF AcquireScope, At, TypeOK, JobsSound
  <2>2. key \in Keyed /\ j.scope \in SUBSET Paths
    BY <2>1 DEF ScopeKey, Jobs, TypeOK
  <2> HIDE DEF j, key
  <2>3. \/ held' = held \/ held' = Swept
        \/ /\ ~Conflict(key, j.scope)
           /\ \E some \in SUBSET j.scope :
                held' = [Swept EXCEPT ![j.task] = [repo |-> key, paths |-> some]]
    BY <1>2 DEF AcquireScope, j, key
  <2>4. CASE held' = Swept
    BY <2>4, SweptShrinks DEF Shrinks
  <2>5. ASSUME ~Conflict(key, j.scope), NEW some \in SUBSET j.scope,
               held' = [Swept EXCEPT ![j.task] = [repo |-> key, paths |-> some]]
        PROVE  Acquires(j.task, key, j.scope)
    <3>1. Swept \in [Tasks -> [repo : Keyed, paths : SUBSET Paths]]
      BY SweptType
    <3>2. /\ held'[j.task] = [repo |-> key, paths |-> some]
          /\ \A u \in Tasks \ {j.task} : held'[u] = Swept[u]
      BY <2>1, <2>5, <3>1
    <3>3. \A u \in Tasks \ {j.task} : Shrinks(u)
      BY <3>2, SweptShrinks DEF Shrinks
    <3>4. UNCHANGED <<state, waited>>
      BY <1>2 DEF AcquireScope, history, marks
    <3> QED
      BY <2>1, <2>5, <3>2, <3>3, <3>4 DEF Acquires
  <2> QED
    BY <1>1, <2>1, <2>2, <2>3, <2>4, <2>5
<1>3. ASSUME NEW h \in Handlers, ReleaseScope(h) PROVE \A t \in Tasks : Shrinks(t)
  <2>1. held' = [held EXCEPT ![job[h].task] = [held[job[h].task] EXCEPT !.paths = {}]]
    BY <1>3 DEF ReleaseScope
  <2>2. \A t \in Tasks : held[t] \in [repo : Keyed, paths : SUBSET Paths]
    BY DEF TypeOK
  <2> QED
    BY <2>1, <2>2 DEF Shrinks, TypeOK
<1>4. ASSUME NEW h \in Handlers, Step(h), ~AcquireScope(h), ~ReleaseScope(h) PROVE UNCHANGED held
  BY <1>4
     DEF Step, CheckParent, CheckCapacity, AttachNode, QueueChild, StartChild, CancelMinted,
         ParkTask, ResumeTask, MintChild, tables
<1>5. ASSUME NEW h \in Handlers, Request(h) PROVE UNCHANGED held
  BY <1>5 DEF Request, CreateTask, SpawnAgent, ParkAgent, ResumeAgent, tables
<1> QED
  BY <1>1, <1>2, <1>3, <1>4, <1>5 DEF Next, vars, tables, TaskEvent, Crash

LEMMA OverlapsSymmetric ==
  \A p, q : Overlaps(p, q) <=> Overlaps(q, p)
BY DEF Overlaps

LEMMA ScopeStep ==
  ASSUME ScopeInv, [Next]_vars
  PROVE  Unborn' /\ WaitersKnown' /\ WriteScopesDisjoint'
<1> USE DEF ScopeInv
<1>1. \A t \in Tasks : Moves(t) /\ waited \subseteq waited'
  BY StepMoves
<1>2. \A t \in Tasks :
        /\ state[t] # None => state'[t] # None
        /\ state'[t] \in ActiveStates => state[t] \in ActiveStates \cup {None, "waiting"}
        /\ state'[t] = "waiting" => state[t] = "waiting" \/ t \in waited'
  BY <1>1, MovesMeans
<1>3. WaitersKnown'
  BY <1>1, <1>2 DEF WaitersKnown
<1>4. CASE \A t \in Tasks : Shrinks(t)
  <2>1. Unborn'
    BY <1>2, <1>4 DEF Unborn, Shrinks
  <2>2. ASSUME NEW t \in Tasks, NEW u \in Tasks, t # u, state'[t] \in ActiveStates,
               state'[u] \in ActiveStates, t \notin waited', u \notin waited'
        PROVE  Disjoint(t, u)'
    <3>1. CASE state[t] = None \/ state[u] = None
      BY <1>4, <3>1 DEF Unborn, Shrinks, Disjoint
    <3>2. CASE state[t] # None /\ state[u] # None
      <4>1. state[t] \in ActiveStates /\ state[u] \in ActiveStates
        BY <1>1, <1>2, <2>2, <3>2 DEF WaitersKnown
      <4>2. Disjoint(t, u)
        BY <1>1, <2>2, <4>1 DEF WriteScopesDisjoint
      <4> QED
        BY <1>4, <4>2 DEF Disjoint, Shrinks
    <3> QED
      BY <3>1, <3>2
  <2>3. WriteScopesDisjoint'
    BY <2>2 DEF WriteScopesDisjoint, ActiveStates
  <2> QED
    BY <1>3, <2>1, <2>3
<1>5. ASSUME NEW x \in Tasks, NEW key \in Keyed, NEW scope \in SUBSET Paths,
             Acquires(x, key, scope)
      PROVE  Unborn' /\ WriteScopesDisjoint'
  <2>1. Unborn'
    BY <1>5 DEF Unborn, Acquires, Shrinks
  <2>2. ASSUME NEW u \in Tasks \ {x}, state[u] \in ActiveStates
        PROVE  Disjoint(x, u)' /\ Disjoint(u, x)'
    <3>1. Swept[u] = held[u]
      BY <2>2, SweptShrinks
    <3>2. held[u].repo = key => \A p \in scope, q \in held[u].paths : ~Overlaps(q, p)
      BY <1>5, <2>2, <3>1 DEF Acquires, Conflict
    <3>3. /\ held'[u].repo = held[u].repo /\ held'[u].paths \subseteq held[u].paths
          /\ held'[x].repo = key /\ held'[x].paths \subseteq scope
      BY <1>5, <2>2 DEF Acquires, Shrinks
    <3> QED
      BY <3>2, <3>3, OverlapsSymmetric DEF Disjoint
  <2>3. ASSUME NEW t \in Tasks, NEW u \in Tasks, t # u, state'[t] \in ActiveStates,
               state'[u] \in ActiveStates, t \notin waited', u \notin waited'
        PROVE  Disjoint(t, u)'
    <3>1. /\ state[t] \in ActiveStates /\ state[u] \in ActiveStates
          /\ t \notin waited /\ u \notin waited
      BY <1>5, <2>3 DEF Acquires
    <3>2. CASE t = x \/ u = x
      BY <2>2, <2>3, <3>1, <3>2
    <3>3. CASE t # x /\ u # x
      <4>1. Disjoint(t, u)
        BY <2>3, <3>1 DEF WriteScopesDisjoint
      <4> QED
        BY <1>5, <3>3, <4>1 DEF Acquires, Shrinks, Disjoint
    <3> QED
      BY <3>2, <3>3
  <2>4. WriteScopesDisjoint'
    BY <2>3 DEF WriteScopesDisjoint
  <2> QED
    BY <2>1, <2>4
<1> QED
  BY <1>3, <1>4, <1>5, StepHeld

-----------------------------------------------------------------------------
LEMMA ScopeInvAlways == Spec => []ScopeInv
<1>1. Init => ScopeInv
  <2> SUFFICES ASSUME Init PROVE ScopeInv
    OBVIOUS
  <2> USE AdmissionBounds, AdmissionIds
  <2>1. NoNode \in Nodes
    BY DEF NoNode, Nodes
  <2>2. Default \in Keyed /\ "created" \in TaskStates
    BY DEF Keyed, TaskStates
  <2>3. requests \in 0..MaxRequests /\ crashes \in 0..MaxCrashes
    BY DEF Init
  <2>4. state \in [Tasks -> TaskStates \cup {None}]
    BY <2>2 DEF Init
  <2>5. held \in [Tasks -> [repo : Keyed, paths : SUBSET Paths]]
    BY <2>2 DEF Init
  <2>6. TypeOK
    BY <2>1, <2>2, <2>3, <2>4, <2>5 DEF Init, TypeOK
  <2>7. Unborn /\ WriteScopesDisjoint
    BY DEF Init, Unborn, WriteScopesDisjoint, Disjoint
  <2>8. JobsSound /\ WaitersKnown
    BY DEF Init, JobsSound, WaitersKnown, None
  <2> QED
    BY <2>6, <2>7, <2>8 DEF ScopeInv
<1>2. ScopeInv /\ [Next]_vars => ScopeInv'
  BY TypeStep, JobsStep, ScopeStep DEF ScopeInv
<1> QED
  BY <1>1, <1>2, PTL DEF Spec

\* Every reachable state of the admission is well typed.
THEOREM AdmissionTypes == Spec => []TypeOK
BY ScopeInvAlways, PTL DEF ScopeInv

\* Two active tasks that never waited hold no overlapping paths in one repository,
\* for any number of tasks and threads, however their admissions interleave, fail
\* half-way or are cut off by a crash.
THEOREM ScopesStayDisjoint == Spec => []WriteScopesDisjoint
BY ScopeInvAlways, PTL DEF ScopeInv

-----------------------------------------------------------------------------
(***************************************************************************)
(* Keys of the fleet.  The index names the node of every key, and what the *)
(* journal has of a node carries the key the node has in memory: so a      *)
(* restart, which knows the journal only, finds the same owners.           *)
(***************************************************************************)
KeyInv ==
  /\ \A t \in Tasks : node[t].key # NoKey => index[node[t].key] = t
  /\ \A t \in Tasks : journal[t].key # NoKey => journal[t].key = node[t].key

LEMMA KeyAttach ==
  ASSUME TypeOK, JobsSound, KeyInv, NEW h \in Handlers, AttachNode(h)
  PROVE  KeyInv'
<1> USE AdmissionIds
<1> DEFINE t == job[h].task
           k == job[h].key
           new == [status |-> "foreground", key |-> k]
<1>1. t \in Tasks /\ k \in Keys \cup {NoKey}
  BY DEF AttachNode, At, TypeOK, JobsSound, Jobs
<1>2. /\ index \in [Keys -> Tasks \cup {NoTask}]
      /\ journal \in [Tasks -> Nodes] /\ node \in [Tasks -> Nodes]
  BY DEF TypeOK
<1>3. \A u \in Tasks : node[u].key \in Keys \cup {NoKey}
  BY <1>2 DEF Nodes
<1>4. new.key = k
  OBVIOUS
<1>5. \/ UNCHANGED <<journal, node, index>>
      \/ /\ ~KeyTaken(k) /\ BindKey(k, t)
         /\ \/ UNCHANGED <<journal, node>>
            \/ journal' = [journal EXCEPT ![t] = new] /\ node' = [node EXCEPT ![t] = new]
  BY DEF AttachNode, agents
<1> HIDE DEF t, k, new
<1>6. CASE UNCHANGED <<journal, node, index>>
  BY <1>6 DEF KeyInv
<1>7. ASSUME ~KeyTaken(k), BindKey(k, t),
             \/ UNCHANGED <<journal, node>>
             \/ journal' = [journal EXCEPT ![t] = new] /\ node' = [node EXCEPT ![t] = new]
      PROVE  KeyInv'
  <2>1. \A u \in Tasks : k # NoKey => node[u].key # k
    BY <1>1, <1>7 DEF KeyTaken, KeyInv
  <2>2. \A l \in Keys : l # k => index'[l] = index[l]
    BY <1>2, <1>7 DEF BindKey
  <2>3. k # NoKey => index'[k] = t
    BY <1>1, <1>2, <1>7 DEF BindKey
  <2>4. \A u \in Tasks : node[u].key # NoKey => index'[node[u].key] = u
    BY <1>3, <2>1, <2>2 DEF KeyInv
  <2>5. CASE UNCHANGED <<journal, node>>
    BY <2>4, <2>5 DEF KeyInv
  <2>6. CASE journal' = [journal EXCEPT ![t] = new] /\ node' = [node EXCEPT ![t] = new]
    <3>1. /\ journal'[t].key = k /\ node'[t].key = k
          /\ \A u \in Tasks \ {t} : journal'[u] = journal[u] /\ node'[u] = node[u]
      BY <1>1, <1>2, <1>4, <2>6
    <3> QED
      BY <2>3, <2>4, <3>1 DEF KeyInv
  <2> QED
    BY <1>7, <2>5, <2>6
<1> QED
  BY <1>5, <1>6, <1>7

LEMMA KeyStep ==
  ASSUME TypeOK, JobsSound, KeyInv, [Next]_vars
  PROVE  KeyInv'
<1> USE AdmissionIds
<1>1. CASE UNCHANGED agents
  BY <1>1 DEF agents, KeyInv
<1>2. ASSUME NEW h \in Handlers, NEW t \in Tasks, NEW status, NEW place,
             SetStatus(h, t, status, place), UNCHANGED index
      PROVE  KeyInv'
  <2>1. node[t] \in Nodes /\ journal \in [Tasks -> Nodes] /\ node \in [Tasks -> Nodes]
    BY DEF TypeOK
  <2>2. /\ node'[t].key = node[t].key
        /\ \A u \in Tasks \ {t} : node'[u] = node[u]
    <3>1. node' = [node EXCEPT ![t] = [node[t] EXCEPT !.status = status]]
      BY <1>2 DEF SetStatus
    <3>2. [node[t] EXCEPT !.status = status].key = node[t].key
      BY <2>1 DEF Nodes
    <3> QED
      BY <2>1, <3>1, <3>2
  <2>3. \/ journal' = journal
        \/ journal'[t] = node'[t] /\ \A u \in Tasks \ {t} : journal'[u] = journal[u]
    BY <1>2, <2>1 DEF SetStatus
  <2> QED
    BY <1>2, <2>2, <2>3 DEF KeyInv
<1>3. CASE Crash
  <2>1. /\ node' = journal /\ journal' = journal
        /\ \A k \in Keys : (\E t \in Tasks : journal[t] # NoNode /\ journal[t].key = k) =>
             index'[k] \in Tasks /\ journal[index'[k]].key = k
    <3>1. \A k \in Keys : (\E t \in Tasks : journal[t] # NoNode /\ journal[t].key = k) =>
             index'[k] = CHOOSE t \in Tasks : journal[t] # NoNode /\ journal[t].key = k
      BY <1>3 DEF Crash
    <3> QED
      BY <1>3, <3>1 DEF Crash
  <2>2. ASSUME NEW t \in Tasks, journal[t].key # NoKey PROVE index'[journal[t].key] = t
    <3> DEFINE k == journal[t].key
               u == index'[k]
    <3>1. k \in Keys /\ journal[t] # NoNode
      BY <2>2 DEF TypeOK, Nodes, NoNode
    <3>2. u \in Tasks /\ journal[u].key = k
      BY <2>1, <3>1
    <3>3. node[t].key = k /\ node[u].key = k
      BY <2>2, <3>2 DEF KeyInv
    <3>4. index[k] = t /\ index[k] = u
      BY <2>2, <3>2, <3>3 DEF KeyInv
    <3> QED
      BY <3>4
  <2> QED
    BY <2>1, <2>2 DEF KeyInv
<1>4. ASSUME NEW h \in Handlers, Step(h) PROVE KeyInv'
  <2>1. CASE AttachNode(h)
    BY <2>1, KeyAttach
  <2>2. CASE ~AttachNode(h)
    BY <1>1, <1>4, <2>2
       DEF Step, CheckParent, CheckCapacity, AcquireScope, QueueChild, StartChild, ReleaseScope,
           CancelMinted, ParkTask, ResumeTask, MintChild
  <2> QED
    BY <2>1, <2>2
<1>5. ASSUME NEW h \in Handlers, Request(h) PROVE KeyInv'
  BY <1>1, <1>2, <1>5 DEF Request, CreateTask, SpawnAgent, ParkAgent, ResumeAgent
<1> QED
  BY <1>1, <1>3, <1>4, <1>5 DEF Next, TaskEvent, vars

\* "Exactly one child exists per key": no two nodes of the fleet carry one idempotency
\* key, through retries on several connections at once, journal errors, a poisoned
\* fleet and restarts from the journal.
THEOREM KeysNameOneNode == Spec => []OneNodePerKey
<1>1. Init => KeyInv
  BY DEF Init, KeyInv, NoNode
<1>2. ScopeInv /\ KeyInv /\ [Next]_vars => KeyInv'
  BY KeyStep DEF ScopeInv
<1>3. KeyInv => OneNodePerKey
  BY DEF KeyInv, OneNodePerKey
<1> QED
  BY <1>1, <1>2, <1>3, ScopeInvAlways, PTL DEF Spec

-----------------------------------------------------------------------------
(***************************************************************************)
(* Refused admissions.  The thread that minted a task is the only one that *)
(* acquires, releases and cancels for it, and it releases the scope of a   *)
(* child before it cancels it.                                             *)
(***************************************************************************)
AdmissionPlaces == {"node", "acquire", "queue", "start", "release", "cancel"}

Admits(j) == j # Idle /\ j.at \in AdmissionPlaces

\* What holds of the task of an admission, given the tables.
Owns(j, st, pa, he, re) ==
  /\ j.task \in Tasks /\ j.task \notin re /\ st[j.task] # None /\ pa[j.task] = j.parent
  /\ j.at \in {"node", "queue", "start", "release"} => j.parent # NoTask
  /\ j.at = "cancel" /\ j.parent # NoTask => he[j.task].paths = {}

Owners ==
  /\ \A h \in Handlers : Admits(job[h]) => Owns(job[h], state, parent, held, refused)
  /\ \A g, h \in Handlers : g # h /\ Admits(job[g]) /\ Admits(job[h]) => job[g].task # job[h].task

LEMMA ParentsKept ==
  ASSUME TypeOK, [Next]_vars, NEW t \in Tasks, state[t] # None
  PROVE  parent'[t] = parent[t]
<1>1. CASE UNCHANGED parent
  BY <1>1
<1>2. ASSUME NEW u, NEW p, NEW r, Mint(u, p, r) PROVE parent'[t] = parent[t]
  BY <1>2 DEF Mint, TypeOK
<1>3. ASSUME NEW h \in Handlers, Step(h) PROVE parent'[t] = parent[t]
  BY <1>1, <1>2, <1>3
     DEF Step, CheckParent, CheckCapacity, AttachNode, AcquireScope, QueueChild, StartChild,
         ReleaseScope, CancelMinted, ParkTask, ResumeTask, MintChild, tables
<1>4. ASSUME NEW h \in Handlers, Request(h) PROVE parent'[t] = parent[t]
  BY <1>1, <1>2, <1>4 DEF Request, CreateTask, SpawnAgent, ParkAgent, ResumeAgent, tables
<1> QED
  BY <1>1, <1>3, <1>4 DEF Next, TaskEvent, Crash, vars, tables

\* Without an acquisition on its behalf a task that holds nothing keeps nothing.
LEMMA EmptyStaysEmpty ==
  ASSUME TypeOK, JobsSound, [Next]_vars, NEW t \in Tasks, held[t].paths = {},
         \A h \in Handlers : ~(At(h, "acquire") /\ job[h].task = t)
  PROVE  held'[t].paths = {}
<1>1. CASE UNCHANGED held
  BY <1>1
<1>2. ASSUME NEW h \in Handlers, AcquireScope(h) PROVE held'[t].paths = {}
  <2>1. job[h].task # t
    BY <1>2 DEF AcquireScope
  <2>2. Swept[t].paths = {} /\ Swept \in [Tasks -> [repo : Keyed, paths : SUBSET Paths]]
    BY SweptShrinks, SweptType
  <2>3. \/ held' = held \/ held' = Swept
        \/ \E some : held' = [Swept EXCEPT ![job[h].task] = some]
    BY <1>2 DEF AcquireScope
  <2> QED
    BY <2>1, <2>2, <2>3
<1>3. ASSUME NEW h \in Handlers, ReleaseScope(h) PROVE held'[t].paths = {}
  <2>1. held' = [held EXCEPT ![job[h].task] = [held[job[h].task] EXCEPT !.paths = {}]]
    BY <1>3 DEF ReleaseScope
  <2>2. held[t] \in [repo : Keyed, paths : SUBSET Paths] /\ held \in [Tasks -> [repo : Keyed, paths : SUBSET Paths]]
    BY DEF TypeOK
  <2> QED
    BY <2>1, <2>2
<1>4. ASSUME NEW h \in Handlers, Step(h), ~AcquireScope(h), ~ReleaseScope(h) PROVE UNCHANGED held
  BY <1>4
     DEF Step, CheckParent, CheckCapacity, AttachNode, QueueChild, StartChild, CancelMinted,
         ParkTask, ResumeTask, MintChild, tables
<1>5. ASSUME NEW h \in Handlers, Request(h) PROVE UNCHANGED held
  BY <1>5 DEF Request, CreateTask, SpawnAgent, ParkAgent, ResumeAgent, tables
<1> QED
  BY <1>1, <1>2, <1>3, <1>4, <1>5 DEF Next, vars, tables, TaskEvent, Crash

\* The step of one thread keeps the others' tasks theirs.
LEMMA OwnersFrame ==
  ASSUME TypeOK, JobsSound, Owners, [Next]_vars, NEW h \in Handlers,
         \A g \in Handlers \ {h} : job'[g] = job[g],
         refused' = refused \/ (Admits(job[h]) /\ refused' = refused \cup {job[h].task}),
         Admits(job'[h]) =>
           /\ Owns(job'[h], state', parent', held', refused')
           /\ \/ state[job'[h].task] = None
              \/ Admits(job[h]) /\ job'[h].task = job[h].task
  PROVE  Owners'
<1>1. \A t \in Tasks : state[t] # None => state'[t] # None /\ parent'[t] = parent[t]
  BY StepMoves, MovesMeans, ParentsKept
<1>2. ASSUME NEW g \in Handlers \ {h}, Admits(job[g])
      PROVE  Owns(job[g], state', parent', held', refused')
  <2>1. Owns(job[g], state, parent, held, refused)
    BY <1>2 DEF Owners
  <2>2. Admits(job[h]) => job[h].task # job[g].task
    BY <1>2 DEF Owners
  <2>3. job[g].at = "cancel" /\ job[g].parent # NoTask => held'[job[g].task].paths = {}
    <3> SUFFICES ASSUME job[g].at = "cancel", job[g].parent # NoTask
                 PROVE  held'[job[g].task].paths = {}
      OBVIOUS
    <3>1. job[g].task \in Tasks /\ held[job[g].task].paths = {}
      BY <2>1 DEF Owns
    <3>2. ASSUME NEW f \in Handlers, At(f, "acquire") PROVE job[f].task # job[g].task
      <4>1. f # g /\ Admits(job[f])
        BY <3>2 DEF At, Admits, AdmissionPlaces
      <4> QED
        BY <1>2, <4>1 DEF Owners
    <3> QED
      BY <3>1, <3>2, EmptyStaysEmpty
  <2> QED
    BY <1>1, <2>1, <2>2, <2>3 DEF Owns
<1>3. ASSUME NEW g \in Handlers, Admits(job'[g]) PROVE Owns(job'[g], state', parent', held', refused')
  BY <1>2, <1>3
<1>4. ASSUME NEW g \in Handlers \ {h}, Admits(job[g]), Admits(job'[h])
      PROVE  job'[h].task # job[g].task
  <2>1. state[job[g].task] # None
    BY <1>4 DEF Owners, Owns
  <2> QED
    BY <1>4, <2>1 DEF Owners
<1>5. ASSUME NEW f \in Handlers, NEW g \in Handlers, f # g, Admits(job'[f]), Admits(job'[g])
      PROVE  job'[f].task # job'[g].task
  BY <1>4, <1>5 DEF Owners
<1> QED
  BY <1>3, <1>5 DEF Owners, Admits, Owns

LEMMA OwnersKept ==
  ASSUME TypeOK, JobsSound, Owners, [Next]_vars, UNCHANGED <<job, refused, held>>
  PROVE  Owners'
<1>1. \A t \in Tasks : state[t] # None => state'[t] # None /\ parent'[t] = parent[t]
  BY StepMoves, MovesMeans, ParentsKept
<1> QED
  BY <1>1 DEF Owners, Owns, Admits

LEMMA OwnersStep ==
  ASSUME TypeOK, JobsSound, Owners, RefusedHoldsNothing, [Next]_vars
  PROVE  Owners'
<1> USE AdmissionIds
<1>a. \A t \in Tasks : state[t] = None => t \notin refused
  BY DEF RefusedHoldsNothing, Terminal, None
<1>0. \A t \in Tasks : state[t] # None => state'[t] # None /\ parent'[t] = parent[t]
  BY StepMoves, MovesMeans, ParentsKept
<1>1. ASSUME NEW h \in Handlers, Done(h),
             refused' = refused \/ (Admits(job[h]) /\ refused' = refused \cup {job[h].task})
      PROVE  Owners'
  <2>1. job'[h] = Idle /\ \A g \in Handlers \ {h} : job'[g] = job[g]
    BY <1>1 DEF Done, TypeOK
  <2>2. ~Admits(job'[h])
    BY <2>1 DEF Admits
  <2> QED
    BY <1>1, <2>1, <2>2, OwnersFrame
<1>2. ASSUME NEW h \in Handlers, job[h] # Idle, NEW place, Goto(h, place), UNCHANGED refused,
             \/ place \notin AdmissionPlaces
             \/ /\ Admits(job[h])
                /\ place \in {"node", "queue", "start", "release"} => job[h].parent # NoTask
                /\ place = "cancel" /\ job[h].parent # NoTask => held'[job[h].task].paths = {}
      PROVE  Owners'
  <2>1. job[h] \in Jobs
    BY <1>2 DEF TypeOK
  <2>2. job'[h] = [job[h] EXCEPT !.at = place] /\ \A g \in Handlers \ {h} : job'[g] = job[g]
    BY <1>2 DEF Goto, TypeOK
  <2>3. job'[h].at = place /\ job'[h].parent = job[h].parent /\ job'[h].task = job[h].task
    BY <2>1, <2>2 DEF Jobs
  <2>4. CASE place \notin AdmissionPlaces
    <3>1. ~Admits(job'[h])
      BY <2>3, <2>4 DEF Admits
    <3> QED
      BY <1>2, <2>2, <3>1, OwnersFrame
  <2>5. CASE /\ Admits(job[h])
             /\ place \in {"node", "queue", "start", "release"} => job[h].parent # NoTask
             /\ place = "cancel" /\ job[h].parent # NoTask => held'[job[h].task].paths = {}
    <3>1. Owns(job[h], state, parent, held, refused)
      BY <2>5 DEF Owners
    <3>2. Owns(job'[h], state', parent', held', refused')
      BY <1>0, <1>2, <2>3, <2>5, <3>1 DEF Owns
    <3> QED
      BY <1>2, <2>2, <2>3, <2>5, <3>2, OwnersFrame
  <2> QED
    BY <1>2, <2>4, <2>5
<1>3. ASSUME NEW h \in Handlers, Step(h) PROVE Owners'
  <2>0. ASSUME NEW place \in AdmissionPlaces, At(h, place)
        PROVE  /\ Admits(job[h]) /\ Owns(job[h], state, parent, held, refused)
               /\ job[h].at = place /\ job[h] # Idle
    BY <2>0 DEF At, Admits, Owners
  <2>1. CASE CheckParent(h)
    BY <1>1, <1>2, <2>1 DEF CheckParent, At, AdmissionPlaces, history, marks
  <2>2. CASE CheckCapacity(h)
    BY <1>1, <1>2, <2>2 DEF CheckCapacity, At, AdmissionPlaces
  <2>3. ASSUME NEW u \in Tasks, MintChild(h, u) PROVE Owners'
    <3>1. job[h] \in Jobs /\ job[h].at = "mint" /\ job[h].parent \in Tasks
      BY <2>3 DEF MintChild, At, TypeOK, JobsSound
    <3>2. /\ job'[h] = [job[h] EXCEPT !.at = "node", !.task = u]
          /\ \A g \in Handlers \ {h} : job'[g] = job[g]
      BY <2>3 DEF MintChild, TypeOK
    <3>3. job'[h].at = "node" /\ job'[h].task = u /\ job'[h].parent = job[h].parent
      BY <3>1, <3>2 DEF Jobs
    <3>4. /\ state[u] = None /\ state'[u] # None /\ parent'[u] = job[h].parent
          /\ refused' = refused
      BY <2>3 DEF MintChild, Mint, TypeOK, None, history, marks
    <3>5. u \notin refused'
      BY <1>a, <3>4
    <3>6. Owns(job'[h], state', parent', held', refused')
      BY <3>1, <3>3, <3>4, <3>5 DEF Owns
    <3> QED
      BY <3>2, <3>3, <3>4, <3>6, OwnersFrame
  <2>4. CASE AttachNode(h)
    <3>1. Goto(h, "release") \/ Goto(h, "acquire") \/ Done(h)
      BY <2>4 DEF AttachNode
    <3>2. Admits(job[h]) /\ job[h].parent # NoTask /\ job[h] # Idle /\ refused' = refused
      BY <2>0, <2>4 DEF AttachNode, AdmissionPlaces, Owns, history, marks
    <3> QED
      BY <1>1, <1>2, <3>1, <3>2
  <2>5. CASE AcquireScope(h)
    <3>1. \/ Goto(h, "release") /\ job[h].parent # NoTask
          \/ Goto(h, "cancel") /\ job[h].parent = NoTask
          \/ Goto(h, "queue") /\ job[h].parent # NoTask
          \/ Done(h)
      BY <2>5 DEF AcquireScope
    <3>2. Admits(job[h]) /\ job[h] # Idle /\ refused' = refused
      BY <2>0, <2>5 DEF AcquireScope, AdmissionPlaces, history, marks
    <3> QED
      BY <1>1, <1>2, <3>1, <3>2
  <2>6. CASE QueueChild(h) \/ StartChild(h)
    <3>1. Goto(h, "start") \/ Goto(h, "release") \/ Done(h)
      BY <2>6 DEF QueueChild, StartChild
    <3>2. Admits(job[h]) /\ job[h].parent # NoTask /\ job[h] # Idle /\ refused' = refused
      BY <2>0, <2>6 DEF QueueChild, StartChild, AdmissionPlaces, Owns, history, marks
    <3> QED
      BY <1>1, <1>2, <3>1, <3>2
  <2>7. CASE ReleaseScope(h)
    <3>1. Goto(h, "cancel") /\ refused' = refused
      BY <2>7 DEF ReleaseScope, history, marks
    <3>2. Admits(job[h]) /\ job[h] # Idle /\ job[h].task \in Tasks
      BY <2>0, <2>7 DEF ReleaseScope, AdmissionPlaces, Owns
    <3>3. held'[job[h].task].paths = {}
      <4>1. held[job[h].task] \in [repo : Keyed, paths : SUBSET Paths]
        BY <3>2 DEF TypeOK
      <4>2. held' = [held EXCEPT ![job[h].task] = [held[job[h].task] EXCEPT !.paths = {}]]
        BY <2>7 DEF ReleaseScope
      <4> QED
        BY <3>2, <4>1, <4>2 DEF TypeOK
    <3> QED
      BY <1>2, <3>1, <3>2, <3>3
  <2>8. CASE CancelMinted(h)
    <3>1. Done(h) /\ refused' = refused \cup {job[h].task}
      BY <2>8 DEF CancelMinted
    <3>2. Admits(job[h])
      BY <2>0, <2>8 DEF CancelMinted, AdmissionPlaces
    <3> QED
      BY <1>1, <3>1, <3>2
  <2>9. CASE ParkTask(h) \/ ResumeTask(h)
    BY <1>1, <2>9 DEF ParkTask, ResumeTask, history, marks
  <2> QED
    BY <1>3, <2>1, <2>2, <2>3, <2>4, <2>5, <2>6, <2>7, <2>8, <2>9 DEF Step
<1>4. ASSUME NEW h \in Handlers, Request(h) PROVE Owners'
  <2>1. ASSUME NEW t \in Tasks, NEW r \in Keyed, NEW s \in Scopes, CreateTask(h, t, r, s)
        PROVE  Owners'
    <3>1. /\ job'[h] = [at |-> "acquire", task |-> t, parent |-> NoTask, key |-> NoKey,
                        scope |-> s, repo |-> r]
          /\ \A g \in Handlers \ {h} : job'[g] = job[g]
      BY <2>1 DEF CreateTask, TypeOK
    <3>2. job'[h].at = "acquire" /\ job'[h].task = t /\ job'[h].parent = NoTask
      BY <3>1
    <3>3. /\ state[t] = None /\ state'[t] # None /\ parent'[t] = NoTask
          /\ refused' = refused
      BY <2>1 DEF CreateTask, Mint, TypeOK, None, Asked, marks
    <3>4. Owns(job'[h], state', parent', held', refused')
      BY <1>a, <3>2, <3>3 DEF Owns
    <3> QED
      BY <3>1, <3>2, <3>3, <3>4, OwnersFrame
  <2>2. ASSUME NEW p \in Tasks, NEW k \in Keys \cup {NoKey}, NEW s \in Scopes,
               SpawnAgent(h, p, k, s)
        PROVE  Owners'
    <3>1. /\ job'[h].at = "check" /\ \A g \in Handlers \ {h} : job'[g] = job[g]
          /\ refused' = refused
      BY <2>2 DEF SpawnAgent, TypeOK, Asked, marks
    <3>2. ~Admits(job'[h])
      BY <3>1 DEF Admits, AdmissionPlaces
    <3> QED
      BY <3>1, <3>2, OwnersFrame
  <2>3. ASSUME NEW t \in Tasks, NEW status, NEW place \in {"park", "resume"},
               SetStatus(h, t, status, place), Asked(h), UNCHANGED held
        PROVE  Owners'
    <3>1. refused' = refused
      BY <2>3 DEF Asked, marks
    <3>2. CASE job' = job
      BY <2>3, <3>1, <3>2, OwnersKept
    <3>3. CASE job' = [job EXCEPT ![h] = [at |-> place, task |-> t, parent |-> NoTask,
                                          key |-> NoKey, scope |-> {}, repo |-> Default]]
      <4>1. job'[h].at = place /\ \A g \in Handlers \ {h} : job'[g] = job[g]
        BY <3>3 DEF TypeOK
      <4>2. ~Admits(job'[h])
        BY <4>1 DEF Admits, AdmissionPlaces
      <4> QED
        BY <3>1, <4>1, <4>2, OwnersFrame
    <3> QED
      BY <2>3, <3>2, <3>3 DEF SetStatus
  <2> QED
    BY <1>4, <2>1, <2>2, <2>3 DEF Request, ParkAgent, ResumeAgent, tables
<1>5. CASE UNCHANGED <<job, refused, held>>
  BY <1>5, OwnersKept
<1>6. CASE Crash
  BY <1>6 DEF Crash, Owners, Admits
<1> QED
  BY <1>3, <1>4, <1>5, <1>6 DEF Next, vars, tables, history, marks, TaskEvent

\* A task that is over, or in review, stays so.
LEMMA OverStaysOver ==
  ASSUME TypeOK, NEW t \in Tasks, Moves(t), state[t] \in Terminal \cup {"ready_for_review"}
  PROVE  state'[t] \in Terminal \cup {"ready_for_review"}
<1>1. state[t] # None
  BY DEF Terminal, None
<1>2. ASSUME NEW ev \in TaskEvents, state[t] \in AcceptedFrom(ev)
      PROVE  StateAfter(state[t], ev) \in Terminal \cup {"ready_for_review"}
  BY <1>2 DEF AcceptedFrom, StateAfter, Terminal, TaskEvents
<1> QED
  BY <1>1, <1>2 DEF Moves, Accepts

LEMMA RefusedStep ==
  ASSUME TypeOK, JobsSound, Owners, RefusedHoldsNothing, [Next]_vars
  PROVE  RefusedHoldsNothing'
<1>1. ASSUME NEW t \in refused
      PROVE  /\ state'[t] \in Terminal \cup {"ready_for_review"}
             /\ parent'[t] # NoTask => held'[t].paths = {}
  <2>1. t \in Tasks /\ state[t] \in Terminal \cup {"ready_for_review"}
    BY DEF RefusedHoldsNothing, TypeOK
  <2>2. state'[t] \in Terminal \cup {"ready_for_review"}
    BY <2>1, StepMoves, OverStaysOver
  <2>3. parent'[t] = parent[t]
    BY <2>1, ParentsKept DEF Terminal, None
  <2>4. ASSUME NEW h \in Handlers, At(h, "acquire") PROVE job[h].task # t
    <3>1. Admits(job[h])
      BY <2>4 DEF At, Admits, AdmissionPlaces
    <3> QED
      BY <3>1 DEF Owners, Owns
  <2>5. parent[t] # NoTask => held'[t].paths = {}
    BY <2>1, <2>4, EmptyStaysEmpty DEF RefusedHoldsNothing
  <2> QED
    BY <2>2, <2>3, <2>5
<1>2. CASE UNCHANGED refused
  BY <1>1, <1>2 DEF RefusedHoldsNothing
<1>3. ASSUME NEW h \in Handlers, CancelMinted(h) PROVE RefusedHoldsNothing'
  <2> DEFINE t == job[h].task
  <2>1. Admits(job[h]) /\ job[h].at = "cancel"
    BY <1>3 DEF CancelMinted, At, Admits, AdmissionPlaces
  <2>2. Owns(job[h], state, parent, held, refused)
    BY <2>1 DEF Owners
  <2>3. /\ t \in Tasks /\ state[t] # None /\ parent[t] = job[h].parent
        /\ parent[t] # NoTask => held[t].paths = {}
    BY <2>1, <2>2 DEF Owns
  <2>4. state[t] \in TaskStates
    BY <2>3 DEF TypeOK
  <2>5. state'[t] \in Terminal \cup {"ready_for_review"}
    <3>1. state'[t] = IF state[t] \in AcceptedFrom("task_cancelled")
                      THEN StateAfter(state[t], "task_cancelled") ELSE state[t]
      BY <1>3, <2>3 DEF CancelMinted, Accepts, Apply, TypeOK
    <3> QED
      BY <2>4, <3>1 DEF AcceptedFrom, StateAfter, TaskStates, Terminal
  <2>6. UNCHANGED <<parent, held>> /\ refused' = refused \cup {t}
    BY <1>3 DEF CancelMinted
  <2> QED
    BY <1>1, <2>3, <2>5, <2>6 DEF RefusedHoldsNothing
<1>4. ASSUME NEW h \in Handlers, Step(h), ~CancelMinted(h) PROVE UNCHANGED refused
  BY <1>4
     DEF Step, CheckParent, CheckCapacity, AttachNode, AcquireScope, QueueChild, StartChild,
         ReleaseScope, ParkTask, ResumeTask, MintChild, history, marks
<1>5. ASSUME NEW h \in Handlers, Request(h) PROVE UNCHANGED refused
  BY <1>5 DEF Request, CreateTask, SpawnAgent, ParkAgent, ResumeAgent, Asked, marks
<1> QED
  BY <1>2, <1>3, <1>4, <1>5 DEF Next, vars, history, marks, TaskEvent, Crash

LEMMA OwnersAlways == Spec => [](Owners /\ RefusedHoldsNothing)
<1>1. Init => Owners /\ RefusedHoldsNothing
  BY DEF Init, Owners, Admits, RefusedHoldsNothing
<1>2. ScopeInv /\ (Owners /\ RefusedHoldsNothing) /\ [Next]_vars => (Owners /\ RefusedHoldsNothing)'
  BY OwnersStep, RefusedStep DEF ScopeInv
<1> QED
  BY <1>1, <1>2, ScopeInvAlways, PTL DEF Spec

\* A task whose admission was refused never runs again, and a refused child keeps no
\* write scope, however many threads admit tasks, whatever clients do to the task
\* during its admission, and wherever a journal or scope write fails.
THEOREM RefusalsLeaveNothing == Spec => []RefusedHoldsNothing
BY OwnersAlways, PTL

-----------------------------------------------------------------------------
(***************************************************************************)
(* Children of a parent.  The threads that passed the capacity check are   *)
(* counted with the children: each of them may still add one.  The sum is  *)
(* within the limit as long as no two threads were past the check at once. *)
(***************************************************************************)
Extra(p) == IF p \in raced THEN Cardinality(Handlers) - 1 ELSE 0

ChildInv ==
  \A p \in Tasks :
    Cardinality(ActiveChildren(p)) + Cardinality(Admitting(p)) <= MaxChildren + Extra(p)

Past(j, p) == j # Idle /\ j.parent = p /\ j.at \in {"mint", "node", "acquire", "queue"}

\* A child is queued by the thread that admits it, and by nobody else.
LEMMA QueuedByItsThread ==
  ASSUME TypeOK, JobsSound, [Next]_vars, NEW t \in Tasks, parent[t] # NoTask,
         state[t] = "created", state'[t] # "created", state'[t] \notin Terminal
  PROVE  \E h \in Handlers : QueueChild(h) /\ job[h].task = t /\ Goto(h, "start")
<1> USE AdmissionIds
<1>1. ASSUME NEW u, NEW p, NEW r, Mint(u, p, r) PROVE FALSE
  BY <1>1 DEF Mint, TypeOK, None
<1>2. ASSUME NEW u, NEW ev \in TaskEvents, Accepts(u, ev), Apply(u, ev)
      PROVE  u = t /\ ev = "task_queued"
  <2>1. u = t
    BY <1>2 DEF Apply, TypeOK
  <2>2. state'[t] = StateAfter("created", ev) /\ "created" \in AcceptedFrom(ev)
    BY <1>2, <2>1 DEF Apply, Accepts, TypeOK
  <2> QED
    BY <2>1, <2>2 DEF StateAfter, AcceptedFrom, TaskEvents, Terminal, TaskStates
<1>3. ASSUME NEW h \in Handlers, Step(h)
      PROVE  QueueChild(h) /\ job[h].task = t /\ Goto(h, "start")
  <2>1. ~UNCHANGED state
    OBVIOUS
  <2>2. QueueChild(h) => job[h].task = t /\ Goto(h, "start")
    BY <1>2, <2>1, OwnEvents DEF QueueChild
  <2>3. ~(StartChild(h) \/ ParkTask(h) \/ ResumeTask(h) \/ CancelMinted(h))
    BY <1>2, <2>1, OwnEvents DEF StartChild, ParkTask, ResumeTask, CancelMinted
  <2>4. ~\E u \in Tasks : MintChild(h, u)
    BY <1>1 DEF MintChild
  <2> QED
    BY <1>3, <2>1, <2>2, <2>3, <2>4
       DEF Step, CheckParent, CheckCapacity, AttachNode, AcquireScope, ReleaseScope, tables
<1>4. ASSUME NEW h \in Handlers, Request(h) PROVE FALSE
  BY <1>1, <1>4 DEF Request, CreateTask, SpawnAgent, ParkAgent, ResumeAgent, tables
<1>5. ASSUME NEW u \in Tasks, NEW ev \in ClientEvents, TaskEvent(u, ev) PROVE FALSE
  BY <1>2, <1>5 DEF TaskEvent
<1> QED
  BY <1>3, <1>4, <1>5 DEF Next, Crash, vars, tables

\* A parent gets a new active child only when its thread queues it.
LEMMA ChildrenGrow ==
  ASSUME TypeOK, JobsSound, Owners, [Next]_vars, NEW p \in Tasks, NEW t \in Tasks,
         t \in ActiveChildren(p)', t \notin ActiveChildren(p)
  PROVE  \E h \in Handlers :
           /\ QueueChild(h) /\ job[h].task = t /\ Goto(h, "start") /\ h \in Admitting(p)
<1> USE AdmissionIds
<1>1. parent'[t] = p /\ state'[t] \notin Terminal \cup {None, "created"}
  BY DEF ActiveChildren
<1>2. Moves(t)
  BY StepMoves
<1>3. state[t] # None
  <2>1. state[t] = None => \A ev \in TaskEvents : ~Accepts(t, ev)
    BY DEF Accepts, AcceptedFrom, TaskEvents, TaskStates, Terminal, None
  <2> QED
    BY <1>1, <1>2, <2>1 DEF Moves
<1>4. parent[t] = p
  BY <1>1, <1>3, ParentsKept
<1>5. state[t] = "created"
  <2>1. state[t] \in Terminal \cup {"created"}
    BY <1>3, <1>4 DEF ActiveChildren
  <2>2. ASSUME NEW ev \in TaskEvents, state[t] \in Terminal, Accepts(t, ev)
        PROVE  StateAfter(state[t], ev) \in Terminal
    BY <2>2 DEF Accepts, AcceptedFrom, StateAfter, TaskEvents, Terminal, TaskStates
  <2> QED
    BY <1>1, <1>2, <1>3, <2>1, <2>2 DEF Moves
<1>6. PICK h \in Handlers : QueueChild(h) /\ job[h].task = t /\ Goto(h, "start")
  BY <1>1, <1>4, <1>5, QueuedByItsThread
<1>7. job[h] # Idle /\ job[h].at = "queue" /\ Admits(job[h])
  BY <1>6 DEF QueueChild, At, Admits, AdmissionPlaces
<1>8. job[h].parent = p
  BY <1>4, <1>6, <1>7 DEF Owners, Owns
<1> QED
  BY <1>6, <1>7, <1>8 DEF Admitting

\* A thread joins those that are past the check by passing it.
LEMMA AdmittingGrows ==
  ASSUME TypeOK, JobsSound, [Next]_vars, NEW p \in Tasks, NEW g \in Handlers,
         g \in Admitting(p)', g \notin Admitting(p)
  PROVE  CheckCapacity(g) /\ job[g].parent = p /\ HasRoom(p)
<1> USE AdmissionIds
<1>1. Past(job'[g], p) /\ ~Past(job[g], p)
  BY DEF Past, Admitting
<1>2. ASSUME NEW h \in Handlers, Done(h) PROVE FALSE
  <2>1. job'[g] = job[g] \/ job'[g] = Idle
    BY <1>2 DEF Done, TypeOK
  <2> QED
    BY <1>1, <2>1 DEF Past
<1>3. ASSUME NEW h \in Handlers, NEW place, Goto(h, place), job[h] # Idle
      PROVE  /\ h = g /\ job[g].parent = p
             /\ place \in {"mint", "node", "acquire", "queue"}
             /\ job[g].at \notin {"mint", "node", "acquire", "queue"}
  <2>1. h = g
    BY <1>1, <1>3 DEF Goto, TypeOK
  <2>2. job[g] \in Jobs /\ job' = [job EXCEPT ![g] = [job[g] EXCEPT !.at = place]]
    BY <1>3, <2>1 DEF Goto, TypeOK
  <2>3. job'[g].parent = job[g].parent /\ job'[g].at = place
    BY <2>2 DEF TypeOK, Jobs
  <2> QED
    BY <1>1, <1>3, <2>1, <2>3 DEF Past
<1>4. ASSUME NEW h \in Handlers, Step(h) PROVE CheckCapacity(g) /\ job[g].parent = p /\ HasRoom(p)
  <2>1. ~CheckParent(h)
    BY <1>2, <1>3 DEF CheckParent, At
  <2>2. CheckCapacity(h) => CheckCapacity(g) /\ job[g].parent = p /\ HasRoom(p)
    BY <1>2, <1>3 DEF CheckCapacity, At
  <2>3. ~(AttachNode(h) \/ AcquireScope(h) \/ QueueChild(h) \/ StartChild(h))
    BY <1>2, <1>3 DEF AttachNode, AcquireScope, QueueChild, StartChild, At
  <2>4. ~(ReleaseScope(h) \/ CancelMinted(h) \/ ParkTask(h) \/ ResumeTask(h))
    BY <1>2, <1>3 DEF ReleaseScope, CancelMinted, ParkTask, ResumeTask, At
  <2>5. ASSUME NEW u \in Tasks, MintChild(h, u) PROVE FALSE
    <3>1. job[h] \in Jobs /\ job[h] # Idle /\ job[h].at = "mint"
      BY <2>5 DEF MintChild, At, TypeOK
    <3>2. job' = [job EXCEPT ![h] = [job[h] EXCEPT !.at = "node", !.task = u]]
      BY <2>5 DEF MintChild
    <3>3. h = g
      BY <1>1, <3>2 DEF TypeOK
    <3>4. job'[g].parent = job[g].parent
      BY <3>1, <3>2, <3>3 DEF TypeOK, Jobs
    <3> QED
      BY <1>1, <3>1, <3>3, <3>4 DEF Past
  <2> QED
    BY <1>4, <2>1, <2>2, <2>3, <2>4, <2>5 DEF Step
<1>5. ASSUME NEW h \in Handlers, Request(h) PROVE FALSE
  <2>1. ASSUME NEW j, job' = [job EXCEPT ![h] = j], j.at = "check" \/ j.parent = NoTask
        PROVE  FALSE
    BY <1>1, <2>1 DEF TypeOK, Past
  <2>2. job' # job
    BY <1>1
  <2>3. ASSUME NEW t \in Tasks, NEW r, NEW s, CreateTask(h, t, r, s) PROVE FALSE
    BY <2>1, <2>3 DEF CreateTask
  <2>4. ASSUME NEW t \in Tasks, NEW k, NEW s, SpawnAgent(h, t, k, s) PROVE FALSE
    BY <2>1, <2>4 DEF SpawnAgent
  <2>5. ASSUME NEW t \in Tasks, ParkAgent(h, t) \/ ResumeAgent(h, t) PROVE FALSE
    BY <2>1, <2>2, <2>5 DEF ParkAgent, ResumeAgent, SetStatus
  <2> QED
    BY <1>5, <2>3, <2>4, <2>5 DEF Request
<1>6. ~UNCHANGED job /\ ~Crash
  BY <1>1 DEF Crash, Past
<1> QED
  BY <1>4, <1>5, <1>6 DEF Next, TaskEvent, vars

\* What a step may do to the children of a parent and to the threads past its check.
LEMMA ChildCases ==
  ASSUME TypeOK, JobsSound, Owners, [Next]_vars, NEW p \in Tasks
  PROVE  \/ /\ ActiveChildren(p)' \subseteq ActiveChildren(p)
            /\ Admitting(p)' \subseteq Admitting(p)
         \/ \E h \in Handlers :
              /\ HasRoom(p) /\ ActiveChildren(p)' = ActiveChildren(p)
              /\ Admitting(p)' \subseteq Admitting(p) \cup {h}
              /\ Admitting(p) = {} \/ p \in raced'
         \/ \E h \in Admitting(p), t \in Tasks :
              /\ ActiveChildren(p)' \subseteq ActiveChildren(p) \cup {t}
              /\ Admitting(p)' \subseteq Admitting(p) \ {h}
<1>1. ASSUME NEW g \in Handlers, g \in Admitting(p)', g \notin Admitting(p)
      PROVE  \E h \in Handlers :
               /\ HasRoom(p) /\ ActiveChildren(p)' = ActiveChildren(p)
               /\ Admitting(p)' \subseteq Admitting(p) \cup {h}
               /\ Admitting(p) = {} \/ p \in raced'
  <2>1. CheckCapacity(g) /\ job[g].parent = p /\ HasRoom(p)
    BY <1>1, AdmittingGrows
  <2>2. ActiveChildren(p)' = ActiveChildren(p)
    BY <2>1 DEF CheckCapacity, tables, ActiveChildren
  <2>3. job' = [job EXCEPT ![g].at = "mint"]
    BY <2>1 DEF CheckCapacity, Goto
  <2>4. \A h \in Handlers \ {g} : job'[h] = job[h]
    BY <2>3 DEF TypeOK
  <2>5. Admitting(p)' \subseteq Admitting(p) \cup {g}
    BY <2>4 DEF Admitting
  <2>6. Admitting(p) = {} \/ p \in raced'
    BY <2>1 DEF CheckCapacity
  <2> QED
    BY <2>1, <2>2, <2>5, <2>6
<1>2. ASSUME NEW t \in Tasks, t \in ActiveChildren(p)', t \notin ActiveChildren(p)
      PROVE  \E h \in Admitting(p), u \in Tasks :
               /\ ActiveChildren(p)' \subseteq ActiveChildren(p) \cup {u}
               /\ Admitting(p)' \subseteq Admitting(p) \ {h}
  <2>1. PICK h \in Handlers :
          QueueChild(h) /\ job[h].task = t /\ Goto(h, "start") /\ h \in Admitting(p)
    BY <1>2, ChildrenGrow
  <2>2. \A u \in Tasks \ {t} : state'[u] = state[u]
    BY <2>1 DEF QueueChild, Apply, TypeOK
  <2>3. ActiveChildren(p)' \subseteq ActiveChildren(p) \cup {t}
    BY <2>1, <2>2 DEF ActiveChildren, QueueChild
  <2>4. job'[h].at = "start" /\ \A g \in Handlers \ {h} : job'[g] = job[g]
    <3>1. job[h] \in Jobs
      BY <2>1 DEF QueueChild, At, TypeOK
    <3>2. job' = [job EXCEPT ![h] = [job[h] EXCEPT !.at = "start"]]
      BY <2>1 DEF Goto
    <3> QED
      BY <3>1, <3>2 DEF TypeOK, Jobs
  <2>5. Admitting(p)' \subseteq Admitting(p) \ {h}
    BY <2>4 DEF Admitting
  <2> QED
    BY <2>1, <2>3, <2>5
<1>3. Admitting(p)' \subseteq Handlers /\ ActiveChildren(p)' \subseteq Tasks
  BY DEF Admitting, ActiveChildren
<1> QED
  BY <1>1, <1>2, <1>3

LEMMA ChildStep ==
  ASSUME TypeOK, JobsSound, Owners, ChildInv, [Next]_vars
  PROVE  ChildInv'
<1> SUFFICES ASSUME NEW p \in Tasks
             PROVE  Cardinality(ActiveChildren(p)') + Cardinality(Admitting(p)')
                      <= MaxChildren + Extra(p)'
  BY DEF ChildInv
<1> DEFINE A == ActiveChildren(p)
           D == Admitting(p)
           AA == ActiveChildren(p)'
           DD == Admitting(p)'
           N == Cardinality(Handlers)
<1>1. MaxChildren \in Nat /\ N \in Nat
  BY AdmissionBounds, AdmissionFinite, FS_CardinalityType
<1>2. /\ IsFiniteSet(A) /\ IsFiniteSet(D) /\ IsFiniteSet(AA) /\ IsFiniteSet(DD)
      /\ Cardinality(A) \in Nat /\ Cardinality(D) \in Nat
      /\ Cardinality(AA) \in Nat /\ Cardinality(DD) \in Nat /\ Cardinality(DD) <= N
  <2>1. A \in SUBSET Tasks /\ AA \in SUBSET Tasks /\ D \in SUBSET Handlers /\ DD \in SUBSET Handlers
    BY DEF ActiveChildren, Admitting
  <2> HIDE DEF A, D, AA, DD
  <2> QED
    BY <2>1, AdmissionFinite, FS_Subset, FS_CardinalityType
<1>3. Cardinality(A) + Cardinality(D) <= MaxChildren + Extra(p)
  BY DEF ChildInv
<1>4. raced \subseteq raced'
  <2>1. ASSUME NEW h \in Handlers, Step(h) PROVE raced \subseteq raced'
    BY <2>1
       DEF Step, CheckParent, CheckCapacity, AttachNode, AcquireScope, QueueChild, StartChild,
           ReleaseScope, CancelMinted, ParkTask, ResumeTask, MintChild, history, marks
  <2>2. ASSUME NEW h \in Handlers, Request(h) PROVE raced \subseteq raced'
    BY <2>2 DEF Request, CreateTask, SpawnAgent, ParkAgent, ResumeAgent, Asked, marks
  <2> QED
    BY <2>1, <2>2 DEF Next, TaskEvent, Crash, vars, history, marks
<1>5. Extra(p) \in Int /\ Extra(p)' \in Int
  BY <1>1 DEF Extra
<1>6. \A h \in Handlers : Extra(p) <= Extra(p)' /\ Extra(p)' >= 0 /\ N >= 1
  <2>1. ASSUME NEW h \in Handlers PROVE N >= 1
    BY <1>1, AdmissionFinite, FS_EmptySet
  <2> QED
    BY <1>1, <1>4, <2>1 DEF Extra
<1>7. ASSUME AA \subseteq A, DD \subseteq D
      PROVE  Cardinality(AA) + Cardinality(DD) <= MaxChildren + Extra(p)'
  <2>1. Cardinality(AA) <= Cardinality(A) /\ Cardinality(DD) <= Cardinality(D)
    <3> HIDE DEF A, D, AA, DD
    <3> QED
      BY <1>2, <1>7, FS_Subset
  <2>2. CASE Handlers = {}
    <3>1. raced' = raced
      BY <2>2 DEF Next, TaskEvent, Crash, vars, history, marks
    <3> QED
      BY <1>1, <1>2, <1>3, <1>5, <2>1, <3>1 DEF Extra
  <2>3. CASE Handlers # {}
    <3>1. Extra(p) <= Extra(p)'
      BY <1>6, <2>3
    <3> HIDE DEF A, D, AA, DD
    <3> QED
      BY <1>1, <1>2, <1>3, <1>5, <2>1, <3>1
  <2> QED
    BY <2>2, <2>3
<1>8. ASSUME NEW h \in Handlers, HasRoom(p), AA = A, DD \subseteq D \cup {h}, D = {} \/ p \in raced'
      PROVE  Cardinality(AA) + Cardinality(DD) <= MaxChildren + Extra(p)'
  <2>1. Cardinality(AA) < MaxChildren
    BY <1>8 DEF HasRoom
  <2>2. CASE D = {}
    <3>1. Cardinality(DD) <= 1
      <4>1. IsFiniteSet({h}) /\ Cardinality({h}) = 1
        <5>1. {h} = {} \cup {h}
          OBVIOUS
        <5> QED
          BY <5>1, FS_EmptySet, FS_AddElement
      <4>2. DD \in SUBSET {h}
        BY <1>8, <2>2
      <4> HIDE DEF DD
      <4> QED
        BY <4>1, <4>2, FS_Subset
    <3> HIDE DEF A, D, AA, DD
    <3> QED
      BY <1>1, <1>2, <1>5, <1>6, <2>1, <3>1
  <2>3. CASE p \in raced'
    <3>1. Extra(p)' = N - 1
      BY <2>3 DEF Extra
    <3> HIDE DEF A, D, AA, DD
    <3> QED
      BY <1>1, <1>2, <2>1, <3>1
  <2> QED
    BY <1>8, <2>2, <2>3
<1>9. ASSUME NEW h \in D, NEW t \in Tasks, AA \subseteq A \cup {t}, DD \subseteq D \ {h}
      PROVE  Cardinality(AA) + Cardinality(DD) <= MaxChildren + Extra(p)'
  <2>1. h \in Handlers
    BY <1>9 DEF Admitting
  <2> HIDE DEF A, D, AA, DD
  <2>2. /\ IsFiniteSet(A \cup {t}) /\ Cardinality(A \cup {t}) <= Cardinality(A) + 1
        /\ Cardinality(A \cup {t}) \in Nat
    <3>1. /\ IsFiniteSet(A \cup {t})
          /\ Cardinality(A \cup {t}) = IF t \in A THEN Cardinality(A) ELSE Cardinality(A) + 1
      BY <1>2, FS_AddElement
    <3> QED
      BY <1>2, <3>1
  <2>3. /\ IsFiniteSet(D \ {h}) /\ Cardinality(D \ {h}) = Cardinality(D) - 1
    BY <1>2, <1>9, FS_RemoveElement
  <2>4. Cardinality(AA) <= Cardinality(A \cup {t}) /\ Cardinality(DD) <= Cardinality(D \ {h})
    BY <1>9, <2>2, <2>3, FS_Subset
  <2> QED
    BY <1>1, <1>2, <1>3, <1>5, <1>6, <2>1, <2>2, <2>3, <2>4
<1> QED
  BY <1>7, <1>8, <1>9, ChildCases

LEMMA ChildInvAlways == Spec => []ChildInv
<1>1. Init => ChildInv
  <2> SUFFICES ASSUME Init, NEW p \in Tasks
               PROVE  Cardinality(ActiveChildren(p)) + Cardinality(Admitting(p))
                        <= MaxChildren + Extra(p)
    BY DEF ChildInv
  <2>1. ActiveChildren(p) = {} /\ Admitting(p) = {}
    BY AdmissionIds DEF Init, ActiveChildren, Admitting
  <2>2. Extra(p) = 0 /\ MaxChildren \in Nat
    BY AdmissionBounds DEF Init, Extra
  <2> QED
    BY <2>1, <2>2, FS_EmptySet
<1>2. ScopeInv /\ Owners /\ ChildInv /\ [Next]_vars => ChildInv'
  BY ChildStep DEF ScopeInv
<1> QED
  BY <1>1, <1>2, ScopeInvAlways, OwnersAlways, PTL DEF Spec

\* A parent has at most MaxChildren active children, for any number of tasks and
\* connection threads, unless two threads were past its capacity check at once; then
\* each further thread may have added one, and no more.
THEOREM ChildrenStayBounded == Spec => []ChildrenBounded
<1>1. TypeOK /\ ChildInv => ChildrenBounded
  <2> SUFFICES ASSUME ChildInv, NEW p \in Tasks
               PROVE  Cardinality(ActiveChildren(p)) <= MaxChildren + Extra(p)
    BY DEF ChildrenBounded, Extra
  <2>1. Cardinality(ActiveChildren(p)) + Cardinality(Admitting(p)) <= MaxChildren + Extra(p)
    BY DEF ChildInv
  <2>2. ActiveChildren(p) \in SUBSET Tasks /\ Admitting(p) \in SUBSET Handlers
    BY DEF ActiveChildren, Admitting
  <2>3. Cardinality(ActiveChildren(p)) \in Nat /\ Cardinality(Admitting(p)) \in Nat
    BY <2>2, AdmissionFinite, FS_Subset, FS_CardinalityType
  <2>4. MaxChildren \in Nat /\ Extra(p) \in Int
    BY AdmissionBounds, AdmissionFinite, FS_CardinalityType DEF Extra
  <2> QED
    BY <2>1, <2>3, <2>4
<1> QED
  BY <1>1, ScopeInvAlways, ChildInvAlways, PTL DEF ScopeInv

-----------------------------------------------------------------------------
(***************************************************************************)
(* The dispatch of surface requests.  A request in progress has no answer  *)
(* yet and stands on a task that exists, in a generation it reached; the   *)
(* umbrella of a run_variants belongs to one client, and its children are  *)
(* the variants admitted so far, each under its own key.                   *)
(***************************************************************************)
CONSTANTS Clients, Menus, Output, MaxPage, MaxTasks, Named, Counts, MaxAsked, MaxCosts, MaxFaults

VARIABLES menu, tasks, approval, costs, req, answer, pages, asked, faults

\* MODBIT_MAX_CHILD_AGENTS is that of the admission above.
Disp == INSTANCE SurfaceDispatch WITH MaxRequests <- MaxAsked

\* A client asks for at least one byte, and a page holds one.
DispatchAssumptions ==
  Named \subseteq Nat /\ Counts \subseteq Nat \ {0} /\ Output \in Nat /\ MaxPage \in Nat \ {0}

VariantKeys == {<<>>} \cup (Nat \X Nat)
TaskRows == [state : Disp!TaskStates, gen : Nat, parent : Nat, key : VariantKeys]
Kinds  == (UNION Menus) \cup {"none"}
Stages == {"idle", "start", "view", "acquire", "undo", "spawn", "load"}
Requests == [at : Stages, kind : Kinds, task : Nat, n : Nat, i : Nat, gen : Nat]

DispatchTypes ==
  /\ menu \in Menus
  /\ tasks \in Seq(TaskRows)
  /\ costs \in Seq(Nat)
  /\ req \in [Clients -> Requests]
  /\ answer = [c \in Clients |-> answer[c]]
  /\ pages \in [Clients -> 0..Output]
  /\ faults \in Nat

\* A request r whose client has the answer a, and an answer, over the tasks ts.
RequestOK(r, a, ts) ==
  /\ r.at = "idle" => r = Disp!Idle
  /\ r.at # "idle" => a = Disp!Silent
  /\ r.at = "start" => r.n # 0 /\ r.i = 0 /\ r.gen = 0
                       /\ (r.kind \in {"run_variants", "create_task"} => r.task = 0)
  /\ r.at \notin {"idle", "start"} => r.task \in 1..Len(ts) /\ r.gen <= ts[r.task].gen
  /\ r.at \in {"acquire", "undo"} => r.kind = "create_task"
  /\ r.at = "spawn" => r.kind = "run_variants" /\ r.i <= r.n
  /\ r.kind \in {"read_output_ref", "get_run_cost"} => r.at = "start"
  /\ r.kind = "run_variants" => r.at \in {"start", "spawn", "view"} /\ (r.at = "view" => r.i = r.n)

Settled == {"completed", "failed", "cancelled", "ready_for_review"}

AnswerOK(a, ts, f) ==
  /\ a.has \/ a = Disp!Silent
  /\ a.has => a.fields = (IF a.ok THEN Disp!Field[a.kind] ELSE {}) \/ (f > 0 /\ a.fields = {})
  /\ a.ok /\ a.task # 0 /\ a.kind # "get_run_cost" =>
       /\ a.task \in 1..Len(ts) /\ a.gen \in Nat /\ a.gen <= ts[a.task].gen /\ a.gen >= a.need
       /\ a.gen = ts[a.task].gen => a.state = ts[a.task].state
  /\ a.has /\ a.kind = "create_task" /\ ~a.ok /\ f = 0 => a.task \in 1..Len(ts) /\ ts[a.task].state \in Settled
  /\ a.ok /\ a.kind = "read_output_ref" => a.i < a.n \/ a.n = Output
  /\ a.has /\ a.kind = "run_variants" /\ a.ok => a.i = a.n
  /\ a.ok /\ a.kind = "get_run_cost" /\ a.task # 0 => a.n \in Nat

\* The task a client has for the umbrella of its variants, and the variants admitted.
Owned(r, a) ==
  IF r.kind = "run_variants" /\ r.at \in {"spawn", "view"} THEN r.task
  ELSE IF a.has /\ a.kind = "run_variants" THEN a.task ELSE 0
Admitted(r, a) == IF r.kind = "run_variants" /\ r.at \in {"spawn", "view"} THEN r.i ELSE a.i

VariantsOf(ts, u, k) ==
  /\ u \in 1..Len(ts) /\ k \in Nat
  /\ \A j \in 1..k : \E t \in 1..Len(ts) : ts[t].parent = u /\ ts[t].key = <<u, j>>
  /\ \A t \in 1..Len(ts) : ts[t].parent = u => \E j \in 1..k : ts[t].key = <<u, j>>

KeysOK(ts) ==
  /\ \A t \in 1..Len(ts) : ts[t].parent <= Len(ts) /\ (ts[t].parent = 0 <=> ts[t].key = <<>>)
                           /\ (ts[t].parent # 0 => ts[t].key[1] = ts[t].parent)
  /\ \A t, s \in 1..Len(ts) : ts[t].key = ts[s].key /\ ts[t].parent # 0 => t = s

UmbrellasOK ==
  /\ \A c \in Clients : Owned(req[c], answer[c]) # 0 =>
       VariantsOf(tasks, Owned(req[c], answer[c]), Admitted(req[c], answer[c]))
  /\ \A c, d \in Clients : c # d /\ Owned(req[c], answer[c]) # 0 =>
       Owned(req[c], answer[c]) # Owned(req[d], answer[d])

DecisionOK ==
  \/ approval.state = "pending" /\ approval.by = {}
  \/ approval.state # "pending" /\ \E x : approval.by = {x}

ServingOK == \A c \in Clients : RequestOK(req[c], answer[c], tasks) /\ AnswerOK(answer[c], tasks, faults)

DispatchInv == /\ DispatchTypes /\ ServingOK /\ KeysOK(tasks) /\ UmbrellasOK /\ DecisionOK /\ Disp!CostsMine

-----------------------------------------------------------------------------
\* What steps do to the tasks: rows are added, and a row that moves gets a new generation.
Grows(ts, us) ==
  /\ Len(us) >= Len(ts)
  /\ \A t \in 1..Len(ts) :
       /\ us[t].gen >= ts[t].gen
       /\ us[t].gen = ts[t].gen => us[t].state = ts[t].state
       /\ ts[t].state \in Settled => us[t].state \in Settled

LEMMA RowTypes ==
  ASSUME NEW ts \in Seq(TaskRows), NEW t \in 1..Len(ts)
  PROVE  /\ ts[t] \in TaskRows /\ ts[t].gen \in Nat /\ ts[t].parent \in Nat /\ ts[t].state \in Disp!TaskStates
         /\ ts[t].gen + 1 \in Nat
<1>1. ts[t] \in TaskRows
  OBVIOUS
<1> QED
  BY <1>1 DEF TaskRows

LEMMA GrownIds ==
  ASSUME NEW ts \in Seq(TaskRows), NEW us \in Seq(TaskRows), Grows(ts, us), NEW t \in 1..Len(ts)
  PROVE  t \in 1..Len(us) /\ ts[t].gen \in Nat /\ us[t].gen \in Nat
<1>1. Len(us) >= Len(ts) /\ Len(us) \in Nat /\ Len(ts) \in Nat
  BY DEF Grows
<1>2. t \in 1..Len(us)
  BY <1>1
<1> QED
  BY <1>2, RowTypes

LEMMA AnswerLater ==
  ASSUME NEW ts \in Seq(TaskRows), NEW us \in Seq(TaskRows), Grows(ts, us), NEW f \in Nat, NEW g \in Nat, f <= g,
         NEW a, AnswerOK(a, ts, f)
  PROVE  AnswerOK(a, us, g)
<1>1. f = 0 \/ g > 0
  OBVIOUS
<1> QED
  BY <1>1, GrownIds DEF Grows, AnswerOK

LEMMA RequestLater ==
  ASSUME NEW ts \in Seq(TaskRows), NEW us \in Seq(TaskRows), Grows(ts, us), NEW a, NEW r \in Requests,
         RequestOK(r, a, ts)
  PROVE  RequestOK(r, a, us)
<1>2. r.gen \in Nat
  BY DEF Requests
<1>3. r.at \notin {"idle", "start"} => r.task \in 1..Len(us) /\ r.gen <= us[r.task].gen
  BY GrownIds, <1>2 DEF Grows, RequestOK
<1> QED
  BY <1>3 DEF RequestOK

\* Every row keeps its parent and its key, and a new one is no child or carries a new key.
SameKeys(ts, us) ==
  /\ Len(us) = Len(ts)
  /\ \A t \in 1..Len(ts) : us[t].parent = ts[t].parent /\ us[t].key = ts[t].key

LEMMA NewRow ==
  ASSUME NEW s \in Disp!TaskStates, NEW g \in Nat, NEW p \in Nat, NEW k \in VariantKeys
  PROVE  /\ Disp!NewTask(p, k, s, g) \in TaskRows /\ Disp!NewTask(p, k, s, g).parent = p
         /\ Disp!NewTask(p, k, s, g).key = k /\ Disp!NewTask(p, k, s, g).gen = g
         /\ Disp!NewTask(p, k, s, g).state = s
BY DEF Disp!NewTask, TaskRows

\* The row t moves by an event that its state accepts.
RowTakes(ts, t, ev, us) ==
  /\ us = [ts EXCEPT ![t] = Disp!Moved(ts[t], ev)]
  /\ ev \in {"task_queued", "task_started", "task_ready_for_review", "task_completed", "task_cancelled"}
  /\ ts[t].state \in Disp!AcceptedFrom(ev)

LEMMA RowMoves ==
  ASSUME NEW ts \in Seq(TaskRows), NEW t \in 1..Len(ts), NEW ev, NEW us, RowTakes(ts, t, ev, us)
  PROVE  us \in Seq(TaskRows) /\ Grows(ts, us) /\ SameKeys(ts, us)
         /\ us[t].gen = ts[t].gen + 1 /\ us[t].state = Disp!StateAfter(ts[t].state, ev)
<1> DEFINE x == Disp!Moved(ts[t], ev)
<1>1. ts[t] \in TaskRows /\ ts[t].gen \in Nat
  BY RowTypes
<1>2. Disp!StateAfter(ts[t].state, ev) \in Disp!TaskStates
  BY DEF Disp!StateAfter, Disp!TaskStates, RowTakes
<1>3. ts[t].state \in Settled => Disp!StateAfter(ts[t].state, ev) \in Settled
  BY DEF Disp!AcceptedFrom, Disp!StateAfter, Settled, Disp!TaskStates, Disp!Terminal, RowTakes
<1>4. /\ x \in TaskRows /\ x.gen = ts[t].gen + 1 /\ x.state = Disp!StateAfter(ts[t].state, ev)
      /\ x.parent = ts[t].parent /\ x.key = ts[t].key
  <2>1. ts[t].parent \in Nat /\ ts[t].key \in VariantKeys /\ ts[t].gen + 1 \in Nat
    BY <1>1 DEF TaskRows
  <2> QED
    BY <1>2, <2>1, NewRow DEF Disp!Moved
<1> HIDE DEF x
<1>5. us \in Seq(TaskRows) /\ Len(us) = Len(ts) /\ us[t] = x /\ \A s \in 1..Len(ts) : s # t => us[s] = ts[s]
  <2>1. us = [ts EXCEPT ![t] = x]
    BY DEF x, RowTakes
  <2> QED
    BY <2>1, <1>4
<1>6. \A s \in 1..Len(ts) : ts[s].gen \in Nat
  BY RowTypes
<1>7. Grows(ts, us)
  <2>1. ASSUME NEW s \in 1..Len(ts)
        PROVE  /\ us[s].gen >= ts[s].gen
               /\ us[s].gen = ts[s].gen => us[s].state = ts[s].state
               /\ ts[s].state \in Settled => us[s].state \in Settled
    <3>1. CASE s = t
      BY <3>1, <1>1, <1>3, <1>4, <1>5
    <3>2. CASE s # t
      <4>1. us[s] = ts[s] /\ ts[s].gen \in Nat
        BY <3>2, <1>5, <1>6
      <4> QED
        BY <4>1
    <3> QED
      BY <3>1, <3>2
  <2>2. Len(us) >= Len(ts)
    BY <1>5
  <2> QED
    BY <2>1, <2>2 DEF Grows
<1>8. SameKeys(ts, us)
  BY <1>4, <1>5 DEF SameKeys
<1> QED
  BY <1>4, <1>5, <1>7, <1>8

LEMMA RowsStay == ASSUME NEW ts \in Seq(TaskRows) PROVE Grows(ts, ts) /\ SameKeys(ts, ts)
<1>1. \A s \in 1..Len(ts) : ts[s].gen \in Nat
  BY RowTypes
<1> QED
  BY <1>1 DEF Grows, SameKeys

LEMMA RowAdded ==
  ASSUME NEW ts \in Seq(TaskRows), NEW x \in TaskRows, NEW us, us = Append(ts, x)
  PROVE  /\ us \in Seq(TaskRows) /\ Grows(ts, us) /\ Len(us) = Len(ts) + 1 /\ us[Len(ts) + 1] = x
         /\ Len(ts) \in Nat /\ \A s \in 1..Len(ts) : us[s] = ts[s]
<1>1. \A s \in 1..Len(ts) : ts[s].gen \in Nat
  BY RowTypes
<1>2. /\ us \in Seq(TaskRows) /\ Len(us) = Len(ts) + 1 /\ us[Len(ts) + 1] = x
      /\ Len(ts) \in Nat /\ \A s \in 1..Len(ts) : us[s] = ts[s]
  OBVIOUS
<1> QED
  BY <1>1, <1>2 DEF Grows

LEMMA KeysMove ==
  ASSUME NEW ts, NEW us, SameKeys(ts, us), KeysOK(ts)
  PROVE  KeysOK(us) /\ \A u, k : VariantsOf(ts, u, k) => VariantsOf(us, u, k)
<1>1. KeysOK(us)
  BY DEF SameKeys, KeysOK
<1>2. ASSUME NEW u, NEW k, VariantsOf(ts, u, k) PROVE VariantsOf(us, u, k)
  BY <1>2 DEF SameKeys, VariantsOf
<1> QED
  BY <1>1, <1>2

\* A task that is no child is added.
LEMMA RootAdded ==
  ASSUME NEW ts \in Seq(TaskRows), NEW x \in TaskRows, x.parent = 0, x.key = <<>>, NEW us, us = Append(ts, x),
         KeysOK(ts)
  PROVE  /\ KeysOK(us) /\ \A u, k : VariantsOf(ts, u, k) => VariantsOf(us, u, k)
         /\ VariantsOf(us, Len(ts) + 1, 0)
<1>1. /\ Len(us) = Len(ts) + 1 /\ us[Len(ts) + 1] = x
      /\ Len(ts) \in Nat /\ \A s \in 1..Len(ts) : us[s] = ts[s]
  BY RowAdded
<1>2. \A s \in 1..Len(us) : s \in 1..Len(ts) \/ s = Len(ts) + 1
  BY <1>1
<1>3. \A s \in 1..Len(ts) : s \in 1..Len(us) /\ ts[s].parent \in Nat
  BY <1>1, RowTypes
<1>4. KeysOK(us)
  <2>1. \A s \in 1..Len(us) : us[s].parent <= Len(us) /\ (us[s].parent = 0 <=> us[s].key = <<>>)
                              /\ (us[s].parent # 0 => us[s].key[1] = us[s].parent)
    BY <1>1, <1>2, <1>3 DEF KeysOK
  <2>2. ASSUME NEW t \in 1..Len(us), NEW s \in 1..Len(us), us[t].key = us[s].key, us[t].parent # 0 PROVE t = s
    <3>1. t \in 1..Len(ts)
      BY <1>1, <1>2, <2>2
    <3>2. s \in 1..Len(ts)
      <4>1. ts[t].key # <<>>
        <5>1. ts[t] \in TaskRows /\ ts[t].parent # 0
          BY <3>1, <1>1, <2>2
        <5> QED
          BY <3>1, <5>1, <1>1, <2>2 DEF KeysOK
      <4> QED
        BY <4>1, <1>1, <1>2, <2>2, <3>1
    <3> QED
      BY <3>1, <3>2, <2>2, <1>1 DEF KeysOK
  <2> QED
    BY <2>1, <2>2 DEF KeysOK
<1>5. ASSUME NEW u, NEW k, VariantsOf(ts, u, k) PROVE VariantsOf(us, u, k)
  <2>1. u \in 1..Len(ts) /\ u # 0 /\ u \in 1..Len(us) /\ k \in Nat
    BY <1>5, <1>3 DEF VariantsOf
  <2>2. ASSUME NEW t \in 1..Len(us), us[t].parent = u PROVE \E j \in 1..k : us[t].key = <<u, j>>
    BY <2>1, <2>2, <1>1, <1>2, <1>5 DEF VariantsOf
  <2>3. ASSUME NEW j \in 1..k PROVE \E t \in 1..Len(us) : us[t].parent = u /\ us[t].key = <<u, j>>
    BY <1>1, <1>3, <1>5 DEF VariantsOf
  <2> QED
    BY <2>1, <2>2, <2>3 DEF VariantsOf
<1>6. VariantsOf(us, Len(ts) + 1, 0)
  <2>1. ASSUME NEW t \in 1..Len(us), us[t].parent = Len(ts) + 1 PROVE FALSE
    BY <2>1, <1>1, <1>2, <1>3 DEF KeysOK
  <2> QED
    BY <2>1, <1>1 DEF VariantsOf
<1> QED
  BY <1>4, <1>5, <1>6

\* The next variant of u is not there yet, and it is the only one that is added.
LEMMA VariantIsNew ==
  ASSUME NEW ts \in Seq(TaskRows), NEW u, NEW k, VariantsOf(ts, u, k), KeysOK(ts), NEW t \in 1..Len(ts)
  PROVE  ts[t].key # <<u, k + 1>>
<1> SUFFICES ASSUME ts[t].key = <<u, k + 1>> PROVE FALSE
  OBVIOUS
<1>1. ts[t].key # <<>> /\ ts[t].key[1] = u /\ ts[t].key[2] = k + 1
  OBVIOUS
<1>2. ts[t].parent = u
  BY <1>1 DEF KeysOK
<1>3. PICK j \in 1..k : ts[t].key = <<u, j>>
  BY <1>2 DEF VariantsOf
<1>4. j = k + 1 /\ k \in Nat
  BY <1>1, <1>3 DEF VariantsOf
<1> QED
  BY <1>3, <1>4

AddsChild(ts, u, k, x, us) == x.parent = u /\ x.key = <<u, k + 1>> /\ us = Append(ts, x)

LEMMA ChildAdded ==
  ASSUME NEW ts \in Seq(TaskRows), NEW u, NEW k, VariantsOf(ts, u, k), KeysOK(ts),
         NEW x \in TaskRows, NEW us, AddsChild(ts, u, k, x, us)
  PROVE  /\ KeysOK(us) /\ VariantsOf(us, u, k + 1)
         /\ \A v, j : v # u /\ VariantsOf(ts, v, j) => VariantsOf(us, v, j)
<1>0. x.parent = u /\ x.key = <<u, k + 1>> /\ us = Append(ts, x)
  BY DEF AddsChild
<1>1. /\ Len(us) = Len(ts) + 1 /\ us[Len(ts) + 1] = x
      /\ Len(ts) \in Nat /\ \A s \in 1..Len(ts) : us[s] = ts[s]
  BY <1>0, RowAdded
<1>2. \A s \in 1..Len(us) : s \in 1..Len(ts) \/ s = Len(ts) + 1
  BY <1>1
<1>3. \A s \in 1..Len(ts) : s \in 1..Len(us) /\ ts[s].parent \in Nat
  BY <1>1, RowTypes
<1>4. u \in 1..Len(ts) /\ k \in Nat /\ u # 0 /\ u <= Len(us) /\ u \in 1..Len(us) /\ Len(ts) + 1 \in 1..Len(us)
  BY <1>1 DEF VariantsOf
<1>5. \A s \in 1..Len(ts) : ts[s].key # x.key
  BY <1>0, VariantIsNew
<1>6. x.key # <<>> /\ x.key[1] = u
  BY <1>0
<1>7. KeysOK(us)
  <2>1. \A s \in 1..Len(us) : us[s].parent <= Len(us) /\ (us[s].parent = 0 <=> us[s].key = <<>>)
                              /\ (us[s].parent # 0 => us[s].key[1] = us[s].parent)
    <3> TAKE s \in 1..Len(us)
    <3>1. CASE s \in 1..Len(ts)
      <4>1. us[s] = ts[s] /\ ts[s].parent \in Nat
        BY <3>1, <1>1, <1>3
      <4>2. ts[s].parent <= Len(ts) /\ (ts[s].parent = 0 <=> ts[s].key = <<>>)
            /\ (ts[s].parent # 0 => ts[s].key[1] = ts[s].parent)
        BY <3>1 DEF KeysOK
      <4> QED
        BY <4>1, <4>2, <1>1
    <3>2. CASE s = Len(ts) + 1
      <4>1. us[s] = x
        BY <3>2, <1>1
      <4> QED
        BY <4>1, <1>0, <1>4, <1>6
    <3> QED
      BY <3>1, <3>2, <1>2
  <2>2. ASSUME NEW t \in 1..Len(us), NEW s \in 1..Len(us), us[t].key = us[s].key, us[t].parent # 0 PROVE t = s
    BY <2>2, <1>1, <1>2, <1>5 DEF KeysOK
  <2> QED
    BY <2>1, <2>2 DEF KeysOK
<1>8. VariantsOf(us, u, k + 1)
  <2>1. ASSUME NEW j \in 1..(k + 1) PROVE \E t \in 1..Len(us) : us[t].parent = u /\ us[t].key = <<u, j>>
    <3>1. CASE j = k + 1
      BY <3>1, <1>0, <1>1, <1>4
    <3>2. CASE j # k + 1
      <4>1. j \in 1..k
        BY <3>2, <1>4
      <4> QED
        BY <4>1, <1>1, <1>3 DEF VariantsOf
    <3> QED
      BY <3>1, <3>2
  <2>2. ASSUME NEW t \in 1..Len(us), us[t].parent = u PROVE \E j \in 1..(k + 1) : us[t].key = <<u, j>>
    <3>1. CASE t = Len(ts) + 1
      BY <3>1, <1>0, <1>1, <1>4
    <3>2. CASE t \in 1..Len(ts)
      <4>1. PICK j \in 1..k : ts[t].key = <<u, j>>
        BY <3>2, <2>2, <1>1 DEF VariantsOf
      <4>2. j \in 1..(k + 1)
        BY <1>4
      <4> QED
        BY <4>1, <4>2, <3>2, <1>1
    <3> QED
      BY <3>1, <3>2, <1>2
  <2>3. k + 1 \in Nat
    BY <1>4
  <2> QED
    BY <2>1, <2>2, <2>3, <1>4 DEF VariantsOf
<1>9. ASSUME NEW v, NEW j, v # u, VariantsOf(ts, v, j) PROVE VariantsOf(us, v, j)
  <2>1. v \in 1..Len(us) /\ j \in Nat
    BY <1>9, <1>3 DEF VariantsOf
  <2>2. ASSUME NEW t \in 1..Len(us), us[t].parent = v PROVE \E i \in 1..j : us[t].key = <<v, i>>
    <3>1. t \in 1..Len(ts) /\ us[t] = ts[t]
      BY <2>2, <1>0, <1>1, <1>2, <1>9
    <3>2. ts[t].parent = v
      BY <3>1, <2>2
    <3>3. \E i \in 1..j : ts[t].key = <<v, i>>
      BY <3>1, <3>2, <1>9 DEF VariantsOf
    <3> QED
      BY <3>1, <3>3
  <2>3. ASSUME NEW i \in 1..j PROVE \E t \in 1..Len(us) : us[t].parent = v /\ us[t].key = <<v, i>>
    <3>1. PICK t \in 1..Len(ts) : ts[t].parent = v /\ ts[t].key = <<v, i>>
      BY <1>9 DEF VariantsOf
    <3>2. t \in 1..Len(us) /\ us[t] = ts[t]
      BY <1>1, <1>3
    <3> QED
      BY <3>1, <3>2
  <2> QED
    BY <2>1, <2>2, <2>3 DEF VariantsOf
<1> QED
  BY <1>7, <1>8, <1>9

LEMMA SameCount == \A S : Disp!Cardinality(S) = Cardinality(S)
BY DEF Disp!Cardinality, Cardinality, Disp!IsFiniteSet, IsFiniteSet

LEMMA VariantCount ==
  ASSUME NEW ts \in Seq(TaskRows), NEW u, NEW k, VariantsOf(ts, u, k), KeysOK(ts)
  PROVE  LET kids == {t \in 1..Len(ts) : ts[t].parent = u}
         IN  Cardinality(kids) = k /\ {ts[t].key[2] : t \in kids} = 1..k
<1> DEFINE kids == {t \in 1..Len(ts) : ts[t].parent = u}
           f == [t \in kids |-> ts[t].key[2]]
<1> HIDE DEF f
<1>0. ASSUME NEW t \in kids PROVE t \in 1..Len(ts) /\ ts[t].parent = u /\ u # 0 /\ f[t] = ts[t].key[2]
  BY DEF f, VariantsOf
<1>1. ASSUME NEW t \in kids PROVE f[t] \in 1..k /\ ts[t].key = <<u, f[t]>>
  <2>1. PICK j \in 1..k : ts[t].key = <<u, j>>
    BY <1>0 DEF VariantsOf
  <2>2. f[t] = j
    BY <2>1, <1>0
  <2> QED
    BY <2>1, <2>2
<1>2. ASSUME NEW j \in 1..k PROVE \E t \in kids : f[t] = j
  <2>1. PICK t \in 1..Len(ts) : ts[t].parent = u /\ ts[t].key = <<u, j>>
    BY DEF VariantsOf
  <2>2. t \in kids
    BY <2>1
  <2>3. f[t] = j
    BY <2>1, <2>2, <1>0
  <2> QED
    BY <2>2, <2>3
<1>3. ASSUME NEW s \in kids, NEW t \in kids, f[s] = f[t] PROVE s = t
  <2>1. ts[s].key = ts[t].key
    BY <1>1, <1>3
  <2> QED
    BY <2>1, <1>0 DEF KeysOK
<1>4. f \in Bijection(kids, 1..k)
  <2>0. f \in [kids -> 1..k]
    <3>1. f = [t \in kids |-> f[t]]
      BY DEF f
    <3> QED
      BY <3>1, <1>1
  <2>1. f \in Injection(kids, 1..k)
    BY <2>0, <1>3, Fun_IsInj
  <2>2. f \in Surjection(kids, 1..k)
    BY <2>0, <1>2, Fun_IsSurj
  <2> QED
    BY <2>1, <2>2 DEF Bijection
<1>5. k \in Nat
  BY DEF VariantsOf
<1>6. IsFiniteSet(1..k) /\ Cardinality(1..k) = k
  BY <1>5, FS_Interval
<1>7. IsFiniteSet(kids)
  BY FS_Interval, FS_Subset
<1>8. Cardinality(kids) = k
  BY <1>4, <1>6, <1>7, FS_Bijection DEF ExistsBijection
<1>9. {ts[t].key[2] : t \in kids} = 1..k
  <2> HIDE DEF kids
  <2>1. {f[t] : t \in kids} = 1..k
    BY <1>1, <1>2
  <2>2. {f[t] : t \in kids} = {ts[t].key[2] : t \in kids}
    BY <1>0
  <2> QED
    BY <2>1, <2>2
<1> QED
  BY <1>8, <1>9

\* One client's request and answer change.
LEMMA Serves ==
  ASSUME DispatchInv, NEW c \in Clients, NEW r \in Requests, NEW a,
         req' = [req EXCEPT ![c] = r], answer' = [answer EXCEPT ![c] = a],
         menu' = menu, costs' = costs, pages' \in [Clients -> 0..Output], faults' \in Nat, faults <= faults',
         tasks' \in Seq(TaskRows), Grows(tasks, tasks'), KeysOK(tasks'), DecisionOK', UmbrellasOK',
         RequestOK(r, a, tasks'), AnswerOK(a, tasks', faults'),
         a.ok /\ a.kind = "get_run_cost" /\ a.task # 0 => a.n <= Disp!CostsOf(a.task)
  PROVE  DispatchInv'
<1>1. req' \in [Clients -> Requests] /\ answer' = [d \in Clients |-> answer'[d]] /\ req'[c] = r /\ answer'[c] = a
      /\ \A d \in Clients : d # c => req'[d] = req[d] /\ answer'[d] = answer[d]
  BY DEF DispatchInv, DispatchTypes
<1>2. DispatchTypes'
  BY <1>1 DEF DispatchInv, DispatchTypes
<1>3. ServingOK'
  <2> SUFFICES ASSUME NEW d \in Clients
               PROVE  RequestOK(req'[d], answer'[d], tasks') /\ AnswerOK(answer'[d], tasks', faults')
    BY DEF ServingOK
  <2>1. CASE d = c
    BY <2>1, <1>1
  <2>2. CASE d # c
    <3>1. RequestOK(req[d], answer[d], tasks) /\ AnswerOK(answer[d], tasks, faults) /\ req[d] \in Requests
          /\ tasks \in Seq(TaskRows) /\ faults \in Nat
      BY DEF DispatchInv, ServingOK, DispatchTypes
    <3>2. RequestOK(req[d], answer[d], tasks') /\ AnswerOK(answer[d], tasks', faults')
      BY <3>1, RequestLater, AnswerLater
    <3> QED
      BY <3>2, <2>2, <1>1
  <2> QED
    BY <2>1, <2>2
<1>4. Disp!CostsMine'
  <2>1. \A t : Disp!CostsOf(t)' = Disp!CostsOf(t)
    BY DEF Disp!CostsOf
  <2> QED
    BY <2>1, <1>1 DEF DispatchInv, Disp!CostsMine
<1> QED
  BY <1>2, <1>3, <1>4 DEF DispatchInv

\* ... and no umbrella is minted, none gets a variant, and it answers for the one it had.
LEMMA UmbrellasRest ==
  ASSUME DispatchInv, NEW c \in Clients, NEW r, NEW a,
         req' = [req EXCEPT ![c] = r], answer' = [answer EXCEPT ![c] = a],
         \A u, k : VariantsOf(tasks, u, k) => VariantsOf(tasks', u, k),
         \/ Owned(r, a) = 0
         \/ Owned(r, a) = Owned(req[c], answer[c]) /\ Admitted(r, a) = Admitted(req[c], answer[c])
  PROVE  UmbrellasOK'
<1>1. req'[c] = r /\ answer'[c] = a /\ \A d \in Clients : d # c => req'[d] = req[d] /\ answer'[d] = answer[d]
  BY DEF DispatchInv, DispatchTypes
<1>2. ASSUME NEW d \in Clients, Owned(req'[d], answer'[d]) # 0
      PROVE  /\ Owned(req'[d], answer'[d]) = Owned(req[d], answer[d])
             /\ Admitted(req'[d], answer'[d]) = Admitted(req[d], answer[d])
  BY <1>1, <1>2
<1>3. \A d \in Clients : Owned(req'[d], answer'[d]) = 0 \/ Owned(req'[d], answer'[d]) = Owned(req[d], answer[d])
  BY <1>2
<1>4. \A d \in Clients : Owned(req'[d], answer'[d]) # 0 =>
        VariantsOf(tasks', Owned(req'[d], answer'[d]), Admitted(req'[d], answer'[d]))
  BY <1>2 DEF DispatchInv, UmbrellasOK
<1>5. \A d, e \in Clients : d # e /\ Owned(req'[d], answer'[d]) # 0 =>
        Owned(req'[d], answer'[d]) # Owned(req'[e], answer'[e])
  BY <1>3 DEF DispatchInv, UmbrellasOK
<1> QED
  BY <1>4, <1>5 DEF UmbrellasOK

LEMMA RequestFacts ==
  ASSUME DispatchInv, NEW c \in Clients
  PROVE  /\ req[c] \in Requests /\ RequestOK(req[c], answer[c], tasks) /\ AnswerOK(answer[c], tasks, faults)
         /\ req[c].at \in Stages
         /\ req[c].kind \in Kinds
         /\ req[c].task \in Nat /\ req[c].n \in Nat /\ req[c].i \in Nat /\ req[c].gen \in Nat
         /\ tasks \in Seq(TaskRows) /\ faults \in Nat /\ menu \in Menus /\ pages[c] \in 0..Output
         /\ pages \in [Clients -> 0..Output]
<1>1. req[c] \in Requests /\ RequestOK(req[c], answer[c], tasks) /\ AnswerOK(answer[c], tasks, faults)
      /\ tasks \in Seq(TaskRows) /\ faults \in Nat /\ menu \in Menus /\ pages[c] \in 0..Output
      /\ pages \in [Clients -> 0..Output]
  BY DEF DispatchInv, DispatchTypes, ServingOK
<1> QED
  BY <1>1 DEF Requests

LEMMA RequestBuilt ==
  ASSUME NEW p \in Stages,
         NEW k \in Kinds, NEW t \in Nat, NEW n \in Nat, NEW i \in Nat, NEW g \in Nat,
         NEW r, r = [at |-> p, kind |-> k, task |-> t, n |-> n, i |-> i, gen |-> g]
  PROVE  r \in Requests /\ r.at = p /\ r.kind = k /\ r.task = t /\ r.n = n /\ r.i = i /\ r.gen = g
BY DEF Requests

LEMMA IdleBuilt ==
  /\ Disp!Idle \in Requests /\ Disp!Idle.at = "idle" /\ Disp!Idle.kind = "none"
  /\ Disp!Silent.has = FALSE /\ Disp!Silent.ok = FALSE /\ Disp!Silent.task = 0
BY DEF Disp!Idle, Disp!Silent, Requests, Stages, Kinds

\* The task of a request, the next row of a request in progress.
GoesTo(c, p, t, i, g) ==
  /\ req[c].at # "idle" /\ Disp!GoOn(c, p, t, i, g)
  /\ UNCHANGED <<menu, approval, costs, answer, pages, faults>>
  /\ tasks' \in Seq(TaskRows) /\ Grows(tasks, tasks') /\ KeysOK(tasks') /\ UmbrellasOK'
  /\ p \in {"view", "acquire", "undo", "spawn", "load"}
  /\ t \in 1..Len(tasks') /\ i \in Nat /\ g \in Nat /\ g <= tasks'[t].gen
  /\ p \in {"acquire", "undo"} => req[c].kind = "create_task"
  /\ p = "spawn" => req[c].kind = "run_variants" /\ i <= req[c].n
  /\ req[c].kind \notin {"read_output_ref", "get_run_cost"}
  /\ req[c].kind = "run_variants" => p \in {"spawn", "view"} /\ (p = "view" => i = req[c].n)

LEMMA GoesOn ==
  ASSUME DispatchInv, NEW c \in Clients, NEW p, NEW t, NEW i, NEW g, GoesTo(c, p, t, i, g)
  PROVE  DispatchInv'
<1> PICK k : k = req[c].kind
  OBVIOUS
<1> PICK n : n = req[c].n
  OBVIOUS
<1>9. /\ req[c].at # "idle" /\ Disp!GoOn(c, p, t, i, g) /\ menu' = menu /\ approval' = approval /\ costs' = costs
      /\ answer' = answer /\ pages' = pages /\ faults' = faults
      /\ tasks' \in Seq(TaskRows) /\ Grows(tasks, tasks') /\ KeysOK(tasks') /\ UmbrellasOK'
      /\ p \in {"view", "acquire", "undo", "spawn", "load"}
      /\ t \in 1..Len(tasks') /\ t \in Nat /\ i \in Nat /\ g \in Nat /\ g <= tasks'[t].gen
      /\ (p \in {"acquire", "undo"} => k = "create_task")
      /\ (p = "spawn" => k = "run_variants" /\ i <= n)
      /\ k \notin {"read_output_ref", "get_run_cost"}
      /\ (k = "run_variants" => p \in {"spawn", "view"} /\ (p = "view" => i = n))
  BY DEF GoesTo
<1>0. /\ req[c] \in Requests /\ RequestOK(req[c], answer[c], tasks) /\ AnswerOK(answer[c], tasks, faults)
      /\ k \in Kinds /\ n \in Nat /\ p \in Stages
      /\ tasks \in Seq(TaskRows) /\ faults \in Nat /\ pages \in [Clients -> 0..Output]
  BY <1>9, RequestFacts DEF Stages
<1> PICK r : r = [at |-> p, kind |-> k, task |-> t, n |-> n, i |-> i, gen |-> g]
  OBVIOUS
<1>8. req' = [req EXCEPT ![c] = r]
  BY <1>9 DEF Disp!GoOn
<1>1. r \in Requests /\ r.at = p /\ r.kind = k /\ r.task = t /\ r.n = n /\ r.i = i /\ r.gen = g
  BY <1>0, <1>9, RequestBuilt
<1>2. answer[c] = Disp!Silent
  BY <1>0, <1>9 DEF RequestOK
<1>3. answer' = [answer EXCEPT ![c] = answer[c]]
  BY <1>9 DEF DispatchInv, DispatchTypes
<1>4. RequestOK(r, answer[c], tasks')
  BY <1>1, <1>2, <1>9 DEF RequestOK
<1>5. AnswerOK(answer[c], tasks', faults')
  BY <1>0, <1>9, AnswerLater
<1>6. faults' \in Nat /\ faults <= faults' /\ pages' \in [Clients -> 0..Output]
  BY <1>0, <1>9
<1>7. DecisionOK'
  BY <1>9 DEF DispatchInv, DecisionOK
<1> QED
  BY <1>1, <1>2, <1>3, <1>4, <1>5, <1>6, <1>7, <1>8, <1>9, Serves, IdleBuilt

LEMMA RefusedBuilt ==
  ASSUME NEW c, NEW a, a = Disp!Refused(c)
  PROVE  /\ a.has = TRUE /\ a.ok = FALSE /\ a.kind = req[c].kind /\ a.fields = {} /\ a.task = req[c].task
         /\ a.n = req[c].n /\ a.i = req[c].i
BY DEF Disp!Refused, Disp!Silent

LEMMA OkBuilt ==
  ASSUME NEW c, NEW a, a = Disp!Ok(c)
  PROVE  /\ a.has = TRUE /\ a.ok = TRUE /\ a.kind = req[c].kind /\ a.fields = Disp!Field[req[c].kind]
         /\ a.task = 0 /\ a.n = req[c].n /\ a.i = req[c].i /\ a.need = req[c].gen
         /\ a = [has |-> TRUE, ok |-> TRUE, kind |-> req[c].kind, fields |-> Disp!Field[req[c].kind], task |-> 0,
                 gen |-> 0, need |-> req[c].gen, state |-> "none", n |-> req[c].n, i |-> req[c].i]
BY DEF Disp!Ok, Disp!Silent

LEMMA Refuses ==
  ASSUME DispatchInv, NEW c \in Clients, req[c].at # "idle", Disp!Respond(c, Disp!Refused(c)),
         menu' = menu, costs' = costs, pages' = pages, faults' \in Nat, faults <= faults', DecisionOK',
         tasks' \in Seq(TaskRows), Grows(tasks, tasks'), KeysOK(tasks'),
         \A u, k : VariantsOf(tasks, u, k) => VariantsOf(tasks', u, k),
         req[c].kind = "create_task" /\ faults' = 0 =>
           req[c].task \in 1..Len(tasks') /\ tasks'[req[c].task].state \in Settled
  PROVE  DispatchInv'
<1> PICK a : a = Disp!Refused(c)
  OBVIOUS
<1>1. req' = [req EXCEPT ![c] = Disp!Idle] /\ answer' = [answer EXCEPT ![c] = a]
  BY DEF Disp!Respond
<1>2. /\ a.has = TRUE /\ a.ok = FALSE /\ a.kind = req[c].kind /\ a.fields = {} /\ a.task = req[c].task
      /\ a.n = req[c].n /\ a.i = req[c].i
  BY RefusedBuilt
<1>3. RequestOK(req[c], answer[c], tasks) /\ pages' \in [Clients -> 0..Output]
  BY RequestFacts
<1>4. AnswerOK(a, tasks', faults')
  BY <1>2 DEF AnswerOK
<1>5. RequestOK(Disp!Idle, a, tasks')
  BY IdleBuilt DEF RequestOK
<1>6. \/ Owned(Disp!Idle, a) = 0
      \/ Owned(Disp!Idle, a) = Owned(req[c], answer[c]) /\ Admitted(Disp!Idle, a) = Admitted(req[c], answer[c])
  BY <1>2, <1>3, IdleBuilt DEF RequestOK, Owned, Admitted
<1>7. UmbrellasOK'
  BY <1>1, <1>6, UmbrellasRest
<1> QED
  BY <1>1, <1>2, <1>3, <1>4, <1>5, <1>7, IdleBuilt, Serves

\* An answer with ok on tasks that stay as they are.
LEMMA Answers ==
  ASSUME DispatchInv, NEW c \in Clients, req[c].at # "idle", NEW a, Disp!Respond(c, a),
         menu' = menu, costs' = costs, tasks' = tasks, pages' \in [Clients -> 0..Output], faults' \in Nat, faults <= faults',
         DecisionOK',
         a.has, a.ok, a.kind = req[c].kind,
         a.fields = Disp!Field[req[c].kind] \/ (faults' > 0 /\ a.fields = {}),
         a.task # 0 /\ a.kind # "get_run_cost" =>
           /\ a.task \in 1..Len(tasks) /\ a.gen = tasks[a.task].gen /\ a.gen >= a.need /\ a.state = tasks[a.task].state,
         a.kind = "read_output_ref" => a.i < a.n \/ a.n = Output,
         a.kind = "run_variants" =>
           /\ a.i = a.n
           /\ a.task = 0 \/ (a.task = req[c].task /\ a.i = req[c].i /\ req[c].at = "view"),
         a.kind = "get_run_cost" /\ a.task # 0 => a.n \in Nat /\ a.n <= Disp!CostsOf(a.task)
  PROVE  DispatchInv'
<1>1. req' = [req EXCEPT ![c] = Disp!Idle] /\ answer' = [answer EXCEPT ![c] = a]
  BY DEF Disp!Respond
<1>2. RequestOK(req[c], answer[c], tasks) /\ tasks \in Seq(TaskRows) /\ KeysOK(tasks)
  BY RequestFacts DEF DispatchInv
<1>3. Grows(tasks, tasks') /\ tasks' \in Seq(TaskRows) /\ KeysOK(tasks')
  BY <1>2, RowsStay
<1>4. AnswerOK(a, tasks', faults')
  <2>1. a.task \in 1..Len(tasks) => tasks[a.task].gen \in Nat
    BY <1>2, RowTypes
  <2> QED
    BY <2>1 DEF AnswerOK
<1>5. RequestOK(Disp!Idle, a, tasks')
  BY IdleBuilt DEF RequestOK
<1>6. \/ Owned(Disp!Idle, a) = 0
      \/ Owned(Disp!Idle, a) = Owned(req[c], answer[c]) /\ Admitted(Disp!Idle, a) = Admitted(req[c], answer[c])
  BY <1>2, IdleBuilt DEF Owned, Admitted
<1>7. UmbrellasOK'
  BY <1>1, <1>6, UmbrellasRest
<1> QED
  BY <1>1, <1>3, <1>4, <1>5, <1>7, IdleBuilt, Serves

LEMMA DecisionStays == ASSUME DispatchInv, approval' = approval PROVE DecisionOK'
BY DEF DispatchInv, DecisionOK

LEMMA TasksStay ==
  ASSUME DispatchInv, tasks' = tasks
  PROVE  /\ tasks' \in Seq(TaskRows) /\ Grows(tasks, tasks') /\ KeysOK(tasks')
         /\ \A u, k : VariantsOf(tasks, u, k) => VariantsOf(tasks', u, k)
<1>1. tasks \in Seq(TaskRows) /\ KeysOK(tasks)
  BY DEF DispatchInv, DispatchTypes
<1> QED
  BY <1>1, RowsStay

\* The kinds that take a path of their own are no reads and no calls.
LEMMA KindsApart ==
  /\ "create_task" \notin DOMAIN Disp!Reads \cup DOMAIN Disp!Calls \cup DOMAIN Disp!Lifecycle
  /\ "run_variants" \notin DOMAIN Disp!Reads \cup DOMAIN Disp!Calls \cup DOMAIN Disp!Lifecycle
  /\ "get_run_cost" \notin DOMAIN Disp!Reads \cup DOMAIN Disp!Calls \cup DOMAIN Disp!Lifecycle
  /\ "read_output_ref" \notin DOMAIN Disp!Reads \cup DOMAIN Disp!Calls \cup DOMAIN Disp!Lifecycle
BY DEF Disp!Reads, Disp!Calls, Disp!Lifecycle

LEMMA LifecycleEvents ==
  \A k \in DOMAIN Disp!Lifecycle : Disp!Lifecycle[k] \in
    {"task_queued", "task_started", "task_ready_for_review", "task_completed", "task_cancelled"}
BY DEF Disp!Lifecycle

LEMMA AskStep ==
  ASSUME DispatchAssumptions, DispatchInv, NEW c \in Clients, NEW k \in menu, NEW t \in Named, NEW n \in Counts,
         k \in DOMAIN Disp!Lifecycle \cup {"get_task_events", "get_run_cost"} \/ t = 0, Disp!Ask(c, k, t, n)
  PROVE  DispatchInv'
<1> PICK r : r = [at |-> "start", kind |-> k, task |-> t, n |-> n, i |-> 0, gen |-> 0]
  OBVIOUS
<1>1. /\ req' = [req EXCEPT ![c] = r] /\ answer' = [answer EXCEPT ![c] = Disp!Silent]
      /\ menu' = menu /\ tasks' = tasks /\ approval' = approval /\ costs' = costs /\ pages' = pages /\ faults' = faults
  BY DEF Disp!Ask
<1>2. k \in Kinds /\ t \in Nat /\ n \in Nat /\ n # 0 /\ 0 \in Nat /\ "start" \in Stages
  BY RequestFacts DEF DispatchAssumptions, Kinds, Stages
<1>3. r \in Requests /\ r.at = "start" /\ r.kind = k /\ r.task = t /\ r.n = n /\ r.i = 0 /\ r.gen = 0
  BY <1>2, RequestBuilt
<1>4. RequestOK(r, Disp!Silent, tasks')
  BY <1>2, <1>3, KindsApart DEF RequestOK
<1>5. AnswerOK(Disp!Silent, tasks', faults')
  BY IdleBuilt DEF AnswerOK
<1>6. Owned(r, Disp!Silent) = 0
  BY <1>3, IdleBuilt DEF Owned
<1>7. /\ tasks' \in Seq(TaskRows) /\ Grows(tasks, tasks') /\ KeysOK(tasks')
      /\ \A u, j : VariantsOf(tasks, u, j) => VariantsOf(tasks', u, j)
  BY <1>1, TasksStay
<1>8. UmbrellasOK' /\ DecisionOK'
  BY <1>1, <1>6, <1>7, UmbrellasRest, DecisionStays
<1>9. faults' \in Nat /\ faults <= faults' /\ pages' \in [Clients -> 0..Output]
  BY <1>1, RequestFacts
<1> QED
  BY <1>1, <1>3, <1>4, <1>5, <1>7, <1>8, <1>9, IdleBuilt, Serves

LEMMA HandleStep == ASSUME DispatchInv, NEW c \in Clients, Disp!Handle(c) PROVE DispatchInv'
<1>1. /\ Disp!Respond(c, Disp!Refused(c)) /\ req[c].at # "idle" /\ req[c].kind = "none"
      /\ menu' = menu /\ tasks' = tasks /\ approval' = approval /\ costs' = costs /\ pages' = pages /\ faults' = faults
  BY DEF Disp!Handle, Disp!Starts, Disp!At
<1>2. faults' \in Nat /\ faults <= faults'
  BY <1>1, RequestFacts
<1> QED
  BY <1>1, <1>2, TasksStay, DecisionStays, Refuses

LEMMA FailsStep == ASSUME DispatchInv, NEW c \in Clients, Disp!Fails(c) PROVE DispatchInv'
<1>1. /\ req[c].at # "idle" /\ menu' = menu /\ tasks' = tasks /\ approval' = approval /\ costs' = costs /\ pages' = pages
      /\ faults' = faults + 1
  BY DEF Disp!Fails, Disp!At
<1>2. faults' \in Nat /\ faults <= faults' /\ faults' # 0 /\ faults' > 0 /\ pages' \in [Clients -> 0..Output]
  BY <1>1, RequestFacts
<1>3. DecisionOK' /\ RequestOK(req[c], answer[c], tasks)
  BY <1>1, DecisionStays, RequestFacts
<1>4. CASE Disp!Respond(c, Disp!Refused(c))
  BY <1>1, <1>2, <1>3, <1>4, TasksStay, Refuses
<1>5. CASE req[c].kind = "get_run_cost" /\ Disp!Respond(c, Disp!Ok(c))
  <2> PICK a : a = Disp!Ok(c)
    OBVIOUS
  <2>1. /\ a.has = TRUE /\ a.ok = TRUE /\ a.kind = req[c].kind /\ a.fields = Disp!Field[req[c].kind] /\ a.task = 0
    BY OkBuilt
  <2> QED
    BY <1>1, <1>2, <1>3, <1>5, <2>1, Answers
<1>6. CASE req[c].at = "view" /\ Disp!Respond(c, [Disp!Ok(c) EXCEPT !.fields = {}])
  <2> PICK a : a = [Disp!Ok(c) EXCEPT !.fields = {}]
    OBVIOUS
  <2>1. /\ a.has = TRUE /\ a.ok = TRUE /\ a.kind = req[c].kind /\ a.fields = {} /\ a.task = 0
        /\ a.n = req[c].n /\ a.i = req[c].i
    <3> PICK b : b = Disp!Ok(c)
      OBVIOUS
    <3>1. b = [has |-> TRUE, ok |-> TRUE, kind |-> req[c].kind, fields |-> Disp!Field[req[c].kind], task |-> 0,
               gen |-> 0, need |-> req[c].gen, state |-> "none", n |-> req[c].n, i |-> req[c].i]
      BY OkBuilt
    <3>2. a = [b EXCEPT !.fields = {}]
      OBVIOUS
    <3> QED
      BY <3>1, <3>2
  <2>2. a.kind = "run_variants" => a.i = a.n
    BY <2>1, <1>3, <1>6 DEF RequestOK
  <2>3. a.kind # "read_output_ref"
    BY <2>1, <1>3, <1>6 DEF RequestOK
  <2> QED
    BY <1>1, <1>2, <1>3, <1>6, <2>1, <2>2, <2>3, Answers
<1> QED
  BY <1>4, <1>5, <1>6 DEF Disp!Fails, Disp!Starts, Disp!At

LEMMA ApplyStep == ASSUME DispatchInv, NEW c \in Clients, Disp!Apply(c) PROVE DispatchInv'
<1> PICK q : q = req[c]
  OBVIOUS
<1> PICK t : t = q.task
  OBVIOUS
<1> PICK ev : ev = Disp!Lifecycle[q.kind]
  OBVIOUS
<1>1. /\ req[c].at = "start" /\ req[c].kind \in DOMAIN Disp!Lifecycle
      /\ menu' = menu /\ approval' = approval /\ costs' = costs /\ pages' = pages /\ faults' = faults
  BY DEF Disp!Apply, Disp!Starts, Disp!At
<1>2. /\ tasks \in Seq(TaskRows) /\ req[c] \in Requests /\ RequestOK(req[c], answer[c], tasks) /\ faults \in Nat
      /\ req[c].task \in Nat /\ req[c].i \in Nat /\ req[c].n \in Nat /\ KeysOK(tasks)
  BY RequestFacts DEF DispatchInv
<1>3. req[c].kind \notin {"create_task", "run_variants", "get_run_cost", "read_output_ref"}
  BY <1>1, KindsApart
<1>4. CASE t \in 1..Len(tasks) /\ tasks[t].state \in Disp!AcceptedFrom(ev)
  <2>1. /\ tasks' = [tasks EXCEPT ![t] = Disp!Moved(tasks[t], ev)] /\ answer' = answer
        /\ Disp!GoOn(c, "view", t, 0, tasks[t].gen + 1)
    BY <1>4 DEF Disp!Apply, Disp!Ids
  <2>2. ev \in {"task_queued", "task_started", "task_ready_for_review", "task_completed", "task_cancelled"}
    BY <1>1, LifecycleEvents
  <2>3. tasks' \in Seq(TaskRows) /\ Grows(tasks, tasks') /\ SameKeys(tasks, tasks') /\ tasks'[t].gen = tasks[t].gen + 1
    <3>1. RowTakes(tasks, t, ev, tasks')
      BY <1>4, <2>1, <2>2 DEF RowTakes
    <3> QED
      BY <1>2, <1>4, <3>1, RowMoves
  <2> PICK g : g = tasks[t].gen + 1
    OBVIOUS
  <2> PICK k : k = q.kind
    OBVIOUS
  <2> PICK n : n = q.n
    OBVIOUS
  <2>4. g \in Nat /\ t \in 1..Len(tasks') /\ g <= tasks'[t].gen
    BY <1>2, <1>4, <2>3, RowTypes DEF SameKeys
  <2> PICK r : r = [at |-> "view", kind |-> k, task |-> t, n |-> n, i |-> 0, gen |-> g]
    OBVIOUS
  <2>5. req' = [req EXCEPT ![c] = r]
    BY <2>1 DEF Disp!GoOn
  <2>6. KeysOK(tasks') /\ \A u, j : VariantsOf(tasks, u, j) => VariantsOf(tasks', u, j)
    BY <1>2, <2>3, KeysMove
  <2>7. answer' = [answer EXCEPT ![c] = answer[c]]
    BY <2>1 DEF DispatchInv, DispatchTypes
  <2>8. Owned(r, answer[c]) = 0
    BY <1>1, <1>2, <1>3, IdleBuilt DEF Owned, RequestOK
  <2>9. UmbrellasOK'
    BY <2>5, <2>6, <2>7, <2>8, UmbrellasRest
  <2>10. GoesTo(c, "view", t, 0, g)
    BY <1>1, <1>2, <1>3, <2>1, <2>3, <2>4, <2>6, <2>9 DEF GoesTo
  <2> QED
    BY <2>10, GoesOn
<1>5. CASE ~(t \in 1..Len(tasks) /\ tasks[t].state \in Disp!AcceptedFrom(ev))
  <2>1. Disp!Respond(c, Disp!Refused(c)) /\ tasks' = tasks
    BY <1>5 DEF Disp!Apply, Disp!Ids
  <2> QED
    BY <1>1, <1>2, <1>3, <2>1, TasksStay, DecisionStays, Refuses
<1> QED
  BY <1>4, <1>5

LEMMA NewRoot ==
  ASSUME NEW x, x = Disp!NewTask(0, <<>>, "created", 1)
  PROVE  x \in TaskRows /\ x.parent = 0 /\ x.key = <<>> /\ x.gen = 1
<1>1. "created" \in Disp!TaskStates /\ <<>> \in VariantKeys
  BY DEF Disp!TaskStates, VariantKeys
<1> QED
  BY <1>1 DEF Disp!NewTask, TaskRows

\* task_view and load answer with the row as it is.
LEMMA ViewStep == ASSUME DispatchInv, NEW c \in Clients, Disp!View(c) \/ Disp!Load(c) PROVE DispatchInv'
<1> PICK t : t = req[c].task
  OBVIOUS
<1> PICK a : a = [Disp!Ok(c) EXCEPT !.task = t, !.gen = tasks[t].gen, !.state = tasks[t].state]
  OBVIOUS
<1>1. /\ req[c].at \in {"view", "load"} /\ Disp!Respond(c, a)
      /\ menu' = menu /\ tasks' = tasks /\ approval' = approval /\ costs' = costs /\ pages' = pages /\ faults' = faults
  BY DEF Disp!View, Disp!Load, Disp!At
<1>2. /\ a.has = TRUE /\ a.ok = TRUE /\ a.kind = req[c].kind /\ a.fields = Disp!Field[req[c].kind]
      /\ a.task = t /\ a.gen = tasks[t].gen /\ a.state = tasks[t].state /\ a.n = req[c].n /\ a.i = req[c].i
      /\ a.need = req[c].gen
  BY DEF Disp!Ok, Disp!Silent
<1>3. /\ RequestOK(req[c], answer[c], tasks) /\ pages' \in [Clients -> 0..Output] /\ faults' \in Nat /\ faults <= faults'
      /\ tasks \in Seq(TaskRows) /\ req[c].gen \in Nat
  BY <1>1, RequestFacts
<1>4. /\ t \in 1..Len(tasks) /\ req[c].gen <= tasks[t].gen /\ a.kind \notin {"read_output_ref", "get_run_cost"}
      /\ (a.kind = "run_variants" => a.i = a.n /\ req[c].at = "view")
  BY <1>1, <1>2, <1>3 DEF RequestOK
<1>5. a.gen >= a.need
  BY <1>2, <1>3, <1>4, RowTypes
<1> QED
  BY <1>1, <1>2, <1>3, <1>4, <1>5, DecisionStays, Answers

LEMMA MintStep == ASSUME DispatchInv, NEW c \in Clients, Disp!Mint(c) PROVE DispatchInv'
<1> PICK x : x = Disp!NewTask(0, <<>>, "created", 1)
  OBVIOUS
<1> PICK t : t = Len(tasks) + 1
  OBVIOUS
<1>1. /\ req[c].at = "start" /\ req[c].kind = "create_task" /\ tasks' = Append(tasks, x) /\ Disp!GoOn(c, "acquire", t, 0, 1)
      /\ UNCHANGED <<menu, approval, costs, answer, pages, faults>>
  BY DEF Disp!Mint, Disp!Starts, Disp!At
<1>2. tasks \in Seq(TaskRows) /\ KeysOK(tasks) /\ RequestOK(req[c], answer[c], tasks)
  BY RequestFacts DEF DispatchInv
<1>3. x \in TaskRows /\ x.parent = 0 /\ x.key = <<>> /\ x.gen = 1
  BY NewRoot
<1>4. tasks' \in Seq(TaskRows) /\ Grows(tasks, tasks') /\ Len(tasks') = t /\ tasks'[t] = x /\ t \in 1..Len(tasks')
  <2>1. tasks' \in Seq(TaskRows) /\ Grows(tasks, tasks') /\ Len(tasks') = Len(tasks) + 1 /\ tasks'[Len(tasks) + 1] = x
        /\ Len(tasks) \in Nat
    BY <1>1, <1>2, <1>3, RowAdded
  <2> QED
    BY <2>1
<1>5. KeysOK(tasks') /\ \A u, k : VariantsOf(tasks, u, k) => VariantsOf(tasks', u, k)
  BY <1>1, <1>2, <1>3, RootAdded
<1> PICK r : r = [at |-> "acquire", kind |-> req[c].kind, task |-> t, n |-> req[c].n, i |-> 0, gen |-> 1]
  OBVIOUS
<1>6. req' = [req EXCEPT ![c] = r] /\ answer' = [answer EXCEPT ![c] = answer[c]]
  BY <1>1 DEF Disp!GoOn, DispatchInv, DispatchTypes
<1>7. Owned(r, answer[c]) = 0
  BY <1>1, <1>2, IdleBuilt DEF Owned, RequestOK
<1>8. UmbrellasOK'
  BY <1>5, <1>6, <1>7, UmbrellasRest
<1>9. GoesTo(c, "acquire", t, 0, 1)
  BY <1>1, <1>3, <1>4, <1>5, <1>8 DEF GoesTo
<1> QED
  BY <1>9, GoesOn

LEMMA AcquireStep == ASSUME DispatchInv, NEW c \in Clients, NEW b, Disp!Acquire(c, b) PROVE DispatchInv'
<1> PICK p : p = IF b THEN "view" ELSE "undo"
  OBVIOUS
<1> PICK t : t = req[c].task
  OBVIOUS
<1> PICK g : g = req[c].gen
  OBVIOUS
<1>1. /\ req[c].at = "acquire" /\ tasks' = tasks /\ Disp!GoOn(c, p, t, 0, g) /\ p \in {"view", "undo"}
      /\ UNCHANGED <<menu, approval, costs, answer, pages, faults>>
  BY DEF Disp!Acquire, Disp!At
<1>2. RequestOK(req[c], answer[c], tasks) /\ g \in Nat
  BY RequestFacts
<1>3. req[c].kind = "create_task" /\ t \in 1..Len(tasks) /\ g <= tasks[t].gen
  BY <1>1, <1>2 DEF RequestOK
<1>4. /\ tasks' \in Seq(TaskRows) /\ Grows(tasks, tasks') /\ KeysOK(tasks')
      /\ \A u, k : VariantsOf(tasks, u, k) => VariantsOf(tasks', u, k)
  BY <1>1, TasksStay
<1> PICK r : r = [at |-> p, kind |-> req[c].kind, task |-> t, n |-> req[c].n, i |-> 0, gen |-> g]
  OBVIOUS
<1>6. req' = [req EXCEPT ![c] = r] /\ answer' = [answer EXCEPT ![c] = answer[c]]
  BY <1>1 DEF Disp!GoOn, DispatchInv, DispatchTypes
<1>7. Owned(r, answer[c]) = 0
  BY <1>1, <1>2, <1>3, IdleBuilt DEF Owned, RequestOK
<1>8. UmbrellasOK'
  BY <1>4, <1>6, <1>7, UmbrellasRest
<1>9. GoesTo(c, p, t, 0, g)
  BY <1>1, <1>2, <1>3, <1>4, <1>8 DEF GoesTo
<1> QED
  BY <1>9, GoesOn

LEMMA CancelStep == ASSUME DispatchInv, NEW c \in Clients, NEW b \in BOOLEAN, Disp!CancelMinted(c, b) PROVE DispatchInv'
<1> PICK t : t = req[c].task
  OBVIOUS
<1>1. /\ req[c].at = "undo" /\ Disp!Respond(c, Disp!Refused(c)) /\ faults' = (IF b THEN faults ELSE faults + 1)
      /\ tasks' = (IF b /\ tasks[t].state \in Disp!AcceptedFrom("task_cancelled")
                   THEN [tasks EXCEPT ![t] = Disp!Moved(tasks[t], "task_cancelled")] ELSE tasks)
      /\ menu' = menu /\ approval' = approval /\ costs' = costs /\ pages' = pages
  BY DEF Disp!CancelMinted, Disp!At
<1>2. RequestOK(req[c], answer[c], tasks) /\ faults \in Nat /\ tasks \in Seq(TaskRows) /\ KeysOK(tasks)
  BY RequestFacts DEF DispatchInv
<1>3. t \in 1..Len(tasks) /\ tasks[t].state \in Disp!TaskStates
  BY <1>1, <1>2, RowTypes DEF RequestOK
<1>4. faults' \in Nat /\ faults <= faults' /\ (faults' = 0 => b)
  BY <1>1, <1>2
<1>5. CASE b /\ tasks[t].state \in Disp!AcceptedFrom("task_cancelled")
  <2>1. RowTakes(tasks, t, "task_cancelled", tasks')
    BY <1>1, <1>5 DEF RowTakes
  <2>2. /\ tasks' \in Seq(TaskRows) /\ Grows(tasks, tasks') /\ SameKeys(tasks, tasks')
        /\ tasks'[t].state = Disp!StateAfter(tasks[t].state, "task_cancelled")
    BY <1>2, <1>3, <2>1, RowMoves
  <2>3. tasks'[t].state \in Settled /\ t \in 1..Len(tasks')
    BY <1>3, <2>2 DEF Disp!StateAfter, Settled, SameKeys
  <2>4. KeysOK(tasks') /\ \A u, k : VariantsOf(tasks, u, k) => VariantsOf(tasks', u, k)
    BY <1>2, <2>2, KeysMove
  <2> QED
    BY <1>1, <1>4, <2>2, <2>3, <2>4, DecisionStays, Refuses
<1>6. CASE ~(b /\ tasks[t].state \in Disp!AcceptedFrom("task_cancelled"))
  <2>1. tasks' = tasks
    BY <1>1, <1>6
  <2>2. b => tasks[t].state \in Settled
    BY <1>3, <1>6 DEF Disp!AcceptedFrom, Disp!TaskStates, Settled
  <2> QED
    BY <1>1, <1>3, <1>4, <2>1, <2>2, TasksStay, DecisionStays, Refuses
<1> QED
  BY <1>5, <1>6

\* An umbrella of c's is minted or gets its next variant.
TakesUmbrella(c, r, a, u, k) ==
  /\ req' = [req EXCEPT ![c] = r] /\ answer' = [answer EXCEPT ![c] = a]
  /\ Owned(r, a) = u /\ Admitted(r, a) = k /\ VariantsOf(tasks', u, k)
  /\ \A d \in Clients : d # c => Owned(req[d], answer[d]) # u
  /\ \A v, j : v # u /\ VariantsOf(tasks, v, j) => VariantsOf(tasks', v, j)

LEMMA UmbrellaGrows ==
  ASSUME DispatchInv, NEW c \in Clients, NEW r, NEW a, NEW u, NEW k, TakesUmbrella(c, r, a, u, k)
  PROVE  UmbrellasOK'
<1>0. /\ Owned(r, a) = u /\ Admitted(r, a) = k /\ VariantsOf(tasks', u, k)
      /\ \A d \in Clients : d # c => Owned(req[d], answer[d]) # u
      /\ \A v, j : v # u /\ VariantsOf(tasks, v, j) => VariantsOf(tasks', v, j)
  BY DEF TakesUmbrella
<1>1. req'[c] = r /\ answer'[c] = a /\ \A d \in Clients : d # c => req'[d] = req[d] /\ answer'[d] = answer[d]
  BY DEF DispatchInv, DispatchTypes, TakesUmbrella
<1>2. \A d \in Clients : Owned(req'[d], answer'[d]) # 0 =>
        VariantsOf(tasks', Owned(req'[d], answer'[d]), Admitted(req'[d], answer'[d]))
  BY <1>0, <1>1 DEF DispatchInv, UmbrellasOK
<1>3. \A d, e \in Clients : d # e /\ Owned(req'[d], answer'[d]) # 0 =>
        Owned(req'[d], answer'[d]) # Owned(req'[e], answer'[e])
  BY <1>0, <1>1 DEF DispatchInv, UmbrellasOK
<1> QED
  BY <1>2, <1>3 DEF UmbrellasOK

LEMMA UmbrellaStep == ASSUME DispatchInv, NEW c \in Clients, Disp!Umbrella(c) PROVE DispatchInv'
<1>1. /\ req[c].at = "start" /\ req[c].kind = "run_variants"
      /\ menu' = menu /\ approval' = approval /\ costs' = costs /\ pages' = pages /\ faults' = faults
  BY DEF Disp!Umbrella, Disp!Starts, Disp!At
<1>2. tasks \in Seq(TaskRows) /\ KeysOK(tasks) /\ RequestOK(req[c], answer[c], tasks) /\ faults \in Nat
      /\ req[c].n \in Nat
  BY RequestFacts DEF DispatchInv
<1>3. CASE req[c].n < 2 \/ req[c].n > 4
  <2>1. Disp!Respond(c, Disp!Refused(c)) /\ tasks' = tasks
    BY <1>3 DEF Disp!Umbrella
  <2> QED
    BY <1>1, <1>2, <2>1, TasksStay, DecisionStays, Refuses
<1>4. CASE ~(req[c].n < 2 \/ req[c].n > 4)
  <2> PICK x : x = Disp!NewTask(0, <<>>, "created", 1)
    OBVIOUS
  <2> PICK t : t = Len(tasks) + 1
    OBVIOUS
  <2>1. tasks' = Append(tasks, x) /\ Disp!GoOn(c, "spawn", t, 0, 1) /\ answer' = answer
    BY <1>4 DEF Disp!Umbrella
  <2>2. x \in TaskRows /\ x.parent = 0 /\ x.key = <<>> /\ x.gen = 1
    BY NewRoot
  <2>3. tasks' \in Seq(TaskRows) /\ Grows(tasks, tasks') /\ Len(tasks') = t /\ tasks'[t] = x /\ t \in 1..Len(tasks')
        /\ t \notin 1..Len(tasks) /\ t # 0
    <3>1. tasks' \in Seq(TaskRows) /\ Grows(tasks, tasks') /\ Len(tasks') = Len(tasks) + 1 /\ tasks'[Len(tasks) + 1] = x
          /\ Len(tasks) \in Nat
      BY <1>2, <2>1, <2>2, RowAdded
    <3> QED
      BY <3>1
  <2>4. /\ KeysOK(tasks') /\ \A u, k : VariantsOf(tasks, u, k) => VariantsOf(tasks', u, k)
        /\ VariantsOf(tasks', t, 0)
    BY <1>2, <2>1, <2>2, RootAdded
  <2> PICK r : r = [at |-> "spawn", kind |-> req[c].kind, task |-> t, n |-> req[c].n, i |-> 0, gen |-> 1]
    OBVIOUS
  <2>5. req' = [req EXCEPT ![c] = r] /\ answer' = [answer EXCEPT ![c] = answer[c]]
    BY <2>1 DEF Disp!GoOn, DispatchInv, DispatchTypes
  <2>6. Owned(r, answer[c]) = t /\ Admitted(r, answer[c]) = 0
    BY <1>1 DEF Owned, Admitted
  <2>7. \A d \in Clients : Owned(req[d], answer[d]) # t
    <3>1. \A d \in Clients : Owned(req[d], answer[d]) # 0 => Owned(req[d], answer[d]) \in 1..Len(tasks)
      BY DEF DispatchInv, UmbrellasOK, VariantsOf
    <3> QED
      BY <3>1, <2>3
  <2>8. UmbrellasOK'
    <3>1. TakesUmbrella(c, r, answer[c], t, 0)
      BY <2>4, <2>5, <2>6, <2>7 DEF TakesUmbrella
    <3> QED
      BY <3>1, UmbrellaGrows
  <2>9. GoesTo(c, "spawn", t, 0, 1)
    BY <1>1, <1>2, <2>1, <2>2, <2>3, <2>4, <2>8 DEF GoesTo
  <2> QED
    BY <2>9, GoesOn
<1> QED
  BY <1>3, <1>4

LEMMA SpawnStep == ASSUME DispatchInv, NEW c \in Clients, Disp!SpawnVariant(c) PROVE DispatchInv'
<1> PICK u : u = req[c].task
  OBVIOUS
<1> PICK k : k = req[c].i
  OBVIOUS
<1> PICK g : g = req[c].gen
  OBVIOUS
<1>1. /\ req[c].at = "spawn" /\ k < req[c].n
      /\ menu' = menu /\ approval' = approval /\ costs' = costs /\ pages' = pages /\ faults' = faults
  BY DEF Disp!SpawnVariant, Disp!At
<1>2. /\ tasks \in Seq(TaskRows) /\ KeysOK(tasks) /\ RequestOK(req[c], answer[c], tasks) /\ faults \in Nat
      /\ req[c].n \in Nat /\ k \in Nat /\ u \in Nat /\ g \in Nat
  BY RequestFacts DEF DispatchInv
<1>3. req[c].kind = "run_variants" /\ u \in 1..Len(tasks) /\ g <= tasks[u].gen /\ u # 0
  BY <1>1, <1>2 DEF RequestOK
<1>4. Owned(req[c], answer[c]) = u /\ Admitted(req[c], answer[c]) = k
  BY <1>1, <1>3 DEF Owned, Admitted
<1>5. VariantsOf(tasks, u, k) /\ \A d \in Clients : d # c => Owned(req[d], answer[d]) # u
  BY <1>3, <1>4 DEF DispatchInv, UmbrellasOK
<1>6. {t \in Disp!Ids : tasks[t].key = Disp!VariantKey(u, k + 1)} = {}
  <2>1. \A t \in 1..Len(tasks) : tasks[t].key # <<u, k + 1>>
    BY <1>2, <1>5, VariantIsNew
  <2> QED
    BY <2>1 DEF Disp!Ids, Disp!VariantKey
<1>7. CASE Disp!Respond(c, Disp!Refused(c)) /\ tasks' = tasks
  BY <1>1, <1>2, <1>3, <1>7, TasksStay, DecisionStays, Refuses
<1>8. CASE /\ tasks' = Append(tasks, Disp!NewTask(u, Disp!VariantKey(u, k + 1), "running", 3))
           /\ Disp!GoOn(c, "spawn", u, k + 1, g) /\ answer' = answer
  <2> PICK x : x = Disp!NewTask(u, Disp!VariantKey(u, k + 1), "running", 3)
    OBVIOUS
  <2>1. k + 1 \in Nat /\ <<u, k + 1>> \in VariantKeys /\ "running" \in Disp!TaskStates
    BY <1>2 DEF VariantKeys, Disp!TaskStates
  <2>2. x \in TaskRows /\ x.parent = u /\ x.key = <<u, k + 1>>
    BY <1>2, <2>1 DEF Disp!NewTask, Disp!VariantKey, TaskRows
  <2>3. /\ tasks' \in Seq(TaskRows) /\ Grows(tasks, tasks')
    BY <1>2, <1>8, <2>2, RowAdded
  <2>4. /\ KeysOK(tasks') /\ VariantsOf(tasks', u, k + 1)
        /\ \A v, j : v # u /\ VariantsOf(tasks, v, j) => VariantsOf(tasks', v, j)
    <3>1. AddsChild(tasks, u, k, x, tasks')
      BY <1>8, <2>2 DEF AddsChild
    <3> QED
      BY <1>2, <1>5, <2>2, <3>1, ChildAdded
  <2> PICK i : i = k + 1
    OBVIOUS
  <2> PICK r : r = [at |-> "spawn", kind |-> req[c].kind, task |-> u, n |-> req[c].n, i |-> i, gen |-> g]
    OBVIOUS
  <2>5. req' = [req EXCEPT ![c] = r] /\ answer' = [answer EXCEPT ![c] = answer[c]]
    BY <1>8 DEF Disp!GoOn, DispatchInv, DispatchTypes
  <2>6. Owned(r, answer[c]) = u /\ Admitted(r, answer[c]) = i
    BY <1>3 DEF Owned, Admitted
  <2>7. UmbrellasOK'
    <3>1. TakesUmbrella(c, r, answer[c], u, i)
      BY <1>5, <2>4, <2>5, <2>6 DEF TakesUmbrella
    <3> QED
      BY <3>1, UmbrellaGrows
  <2>8. u \in 1..Len(tasks') /\ g <= tasks'[u].gen
    <3>1. u \in 1..Len(tasks') /\ tasks[u].gen \in Nat /\ tasks'[u].gen \in Nat
      BY <1>2, <1>3, <2>3, GrownIds
    <3>2. tasks'[u].gen >= tasks[u].gen
      BY <1>3, <2>3 DEF Grows
    <3> PICK h : h = tasks[u].gen
      OBVIOUS
    <3> PICK l : l = tasks'[u].gen
      OBVIOUS
    <3>3. g \in Nat /\ h \in Nat /\ l \in Nat /\ g <= h /\ h <= l
      BY <1>2, <1>3, <3>1, <3>2
    <3>4. g <= l
      BY <3>3
    <3> QED
      BY <3>1, <3>4
  <2>9. GoesTo(c, "spawn", u, i, g)
    BY <1>1, <1>2, <1>3, <1>8, <2>3, <2>4, <2>7, <2>8 DEF GoesTo
  <2> QED
    BY <2>9, GoesOn
<1> QED
  BY <1>6, <1>7, <1>8 DEF Disp!SpawnVariant

LEMMA SpawnedStep == ASSUME DispatchInv, NEW c \in Clients, Disp!Spawned(c) PROVE DispatchInv'
<1> PICK t : t = req[c].task
  OBVIOUS
<1> PICK g : g = req[c].gen
  OBVIOUS
<1> PICK i : i = req[c].i
  OBVIOUS
<1>1. /\ req[c].at = "spawn" /\ i = req[c].n /\ tasks' = tasks /\ Disp!GoOn(c, "view", t, i, g)
      /\ UNCHANGED <<menu, approval, costs, answer, pages, faults>>
  BY DEF Disp!Spawned, Disp!At
<1>2. RequestOK(req[c], answer[c], tasks) /\ g \in Nat /\ i \in Nat
  BY RequestFacts
<1>3. req[c].kind = "run_variants" /\ t \in 1..Len(tasks) /\ g <= tasks[t].gen
  BY <1>1, <1>2 DEF RequestOK
<1>4. /\ tasks' \in Seq(TaskRows) /\ Grows(tasks, tasks') /\ KeysOK(tasks')
      /\ \A u, k : VariantsOf(tasks, u, k) => VariantsOf(tasks', u, k)
  BY <1>1, TasksStay
<1> PICK r : r = [at |-> "view", kind |-> req[c].kind, task |-> t, n |-> req[c].n, i |-> i, gen |-> g]
  OBVIOUS
<1>5. req' = [req EXCEPT ![c] = r] /\ answer' = [answer EXCEPT ![c] = answer[c]]
  BY <1>1 DEF Disp!GoOn, DispatchInv, DispatchTypes
<1>6. Owned(r, answer[c]) = Owned(req[c], answer[c]) /\ Admitted(r, answer[c]) = Admitted(req[c], answer[c])
  BY <1>1, <1>3 DEF Owned, Admitted
<1>7. UmbrellasOK'
  BY <1>4, <1>5, <1>6, UmbrellasRest
<1>8. GoesTo(c, "view", t, i, g)
  BY <1>1, <1>2, <1>3, <1>4, <1>7 DEF GoesTo
<1> QED
  BY <1>8, GoesOn

LEMMA ExistsStep == ASSUME DispatchInv, NEW c \in Clients, Disp!Exists(c) PROVE DispatchInv'
<1> PICK t : t = req[c].task
  OBVIOUS
<1>1. /\ req[c].at = "start" /\ req[c].kind = "get_task_events" /\ tasks' = tasks
      /\ menu' = menu /\ approval' = approval /\ costs' = costs /\ pages' = pages /\ faults' = faults
  BY DEF Disp!Exists, Disp!Starts, Disp!At
<1>2. RequestOK(req[c], answer[c], tasks) /\ tasks \in Seq(TaskRows) /\ faults \in Nat
  BY RequestFacts
<1>3. /\ tasks' \in Seq(TaskRows) /\ Grows(tasks, tasks') /\ KeysOK(tasks')
      /\ \A u, k : VariantsOf(tasks, u, k) => VariantsOf(tasks', u, k)
  BY <1>1, TasksStay
<1>4. CASE t \in 1..Len(tasks)
  <2> PICK g : g = tasks[t].gen
    OBVIOUS
  <2>1. Disp!GoOn(c, "load", t, 0, g) /\ answer' = answer
    BY <1>4 DEF Disp!Exists, Disp!Ids
  <2>2. g \in Nat /\ g <= tasks'[t].gen
    BY <1>1, <1>2, <1>4, RowTypes
  <2> PICK r : r = [at |-> "load", kind |-> req[c].kind, task |-> t, n |-> req[c].n, i |-> 0, gen |-> g]
    OBVIOUS
  <2>3. req' = [req EXCEPT ![c] = r] /\ answer' = [answer EXCEPT ![c] = answer[c]]
    BY <2>1 DEF Disp!GoOn, DispatchInv, DispatchTypes
  <2>4. Owned(r, answer[c]) = 0
    BY <1>1, <1>2, IdleBuilt DEF Owned, RequestOK
  <2>5. UmbrellasOK'
    BY <1>3, <2>3, <2>4, UmbrellasRest
  <2>6. GoesTo(c, "load", t, 0, g)
    BY <1>1, <1>3, <1>4, <2>1, <2>2, <2>5 DEF GoesTo
  <2> QED
    BY <2>6, GoesOn
<1>5. CASE t \notin 1..Len(tasks)
  <2>1. Disp!Respond(c, Disp!Refused(c))
    BY <1>5 DEF Disp!Exists, Disp!Ids
  <2> QED
    BY <1>1, <1>2, <1>3, <2>1, DecisionStays, Refuses
<1> QED
  BY <1>4, <1>5

LEMMA ResolveStep == ASSUME DispatchInv, NEW c \in Clients, Disp!Resolve(c) PROVE DispatchInv'
<1>1. /\ req[c].at = "start" /\ req[c].kind \in {"approve_effect", "deny_effect"}
      /\ menu' = menu /\ tasks' = tasks /\ costs' = costs /\ pages' = pages /\ faults' = faults
  BY DEF Disp!Resolve, Disp!Starts, Disp!At
<1>2. /\ faults' \in Nat /\ faults <= faults' /\ pages' \in [Clients -> 0..Output]
  BY <1>1, RequestFacts
<1>3. CASE approval.state = "pending"
  <2>1. approval' = [state |-> req[c].kind, by |-> approval.by \cup {asked}] /\ Disp!Respond(c, Disp!Ok(c))
    BY <1>3 DEF Disp!Resolve
  <2>2. approval.by = {}
    BY <1>3 DEF DispatchInv, DecisionOK
  <2>3. approval'.state # "pending" /\ approval'.by = {asked}
    BY <1>1, <2>1, <2>2
  <2>4. DecisionOK'
    BY <2>3 DEF DecisionOK
  <2> PICK a : a = Disp!Ok(c)
    OBVIOUS
  <2>5. /\ a.has = TRUE /\ a.ok = TRUE /\ a.kind = req[c].kind /\ a.fields = Disp!Field[req[c].kind] /\ a.task = 0
    BY OkBuilt
  <2>6. a.kind \notin {"read_output_ref", "run_variants", "get_run_cost"}
    BY <1>1, <2>5
  <2> QED
    BY <1>1, <1>2, <2>1, <2>4, <2>5, <2>6, Answers
<1>4. CASE approval.state # "pending"
  <2>1. approval' = approval /\ Disp!Respond(c, Disp!Refused(c))
    BY <1>4 DEF Disp!Resolve
  <2> QED
    BY <1>1, <1>2, <2>1, TasksStay, DecisionStays, Refuses
<1> QED
  BY <1>3, <1>4

LEMMA ReadStep == ASSUME DispatchInv, NEW c \in Clients, NEW b \in BOOLEAN, Disp!Read(c, b) PROVE DispatchInv'
<1>1. /\ req[c].at = "start" /\ req[c].kind \in DOMAIN Disp!Reads \cup DOMAIN Disp!Calls
      /\ menu' = menu /\ tasks' = tasks /\ approval' = approval /\ costs' = costs /\ pages' = pages /\ faults' = faults
  BY DEF Disp!Read, Disp!Starts, Disp!At
<1>2. /\ faults' \in Nat /\ faults <= faults' /\ pages' \in [Clients -> 0..Output] /\ DecisionOK'
  BY <1>1, RequestFacts, DecisionStays
<1>3. req[c].kind \notin {"create_task", "run_variants", "get_run_cost", "read_output_ref"}
  BY <1>1, KindsApart
<1>4. CASE b
  <2> PICK a : a = Disp!Ok(c)
    OBVIOUS
  <2>1. Disp!Respond(c, a)
    BY <1>4 DEF Disp!Read
  <2>2. /\ a.has = TRUE /\ a.ok = TRUE /\ a.kind = req[c].kind /\ a.fields = Disp!Field[req[c].kind] /\ a.task = 0
    BY OkBuilt
  <2> QED
    BY <1>1, <1>2, <1>3, <2>1, <2>2, Answers
<1>5. CASE ~b
  <2>1. Disp!Respond(c, Disp!Refused(c))
    BY <1>5 DEF Disp!Read
  <2> QED
    BY <1>1, <1>2, <1>3, <2>1, TasksStay, Refuses
<1> QED
  BY <1>4, <1>5

LEMMA CostsCounted ==
  ASSUME NEW cs \in Seq(Nat), NEW t
  PROVE  IsFiniteSet({i \in DOMAIN cs : cs[i] = t}) /\ Cardinality({i \in DOMAIN cs : cs[i] = t}) \in Nat
<1>1. DOMAIN cs = 1..Len(cs) /\ Len(cs) \in Nat
  OBVIOUS
<1>2. IsFiniteSet(1..Len(cs))
  BY <1>1, FS_Interval
<1>3. IsFiniteSet({i \in DOMAIN cs : cs[i] = t})
  BY <1>1, <1>2, FS_Subset
<1> QED
  BY <1>3, FS_CardinalityType

LEMMA RunCostsStep == ASSUME DispatchInv, NEW c \in Clients, Disp!RunCosts(c) PROVE DispatchInv'
<1> PICK t : t = req[c].task
  OBVIOUS
<1> PICK n : n = Disp!CostsOf(t)
  OBVIOUS
<1> PICK i : i = req[c].i
  OBVIOUS
<1> PICK a : a = [Disp!Ok(c) EXCEPT !.task = t, !.n = n]
  OBVIOUS
<1>1. /\ req[c].at = "start" /\ req[c].kind = "get_run_cost" /\ Disp!Respond(c, a)
      /\ menu' = menu /\ tasks' = tasks /\ approval' = approval /\ costs' = costs /\ pages' = pages /\ faults' = faults
  BY DEF Disp!RunCosts, Disp!Starts, Disp!At
<1>2. /\ faults' \in Nat /\ faults <= faults' /\ pages' \in [Clients -> 0..Output] /\ DecisionOK'
  BY <1>1, RequestFacts, DecisionStays
<1>3. /\ a.has = TRUE /\ a.ok = TRUE /\ a.kind = req[c].kind /\ a.fields = Disp!Field[req[c].kind]
      /\ a.task = t /\ a.n = n
  BY DEF Disp!Ok, Disp!Silent
<1>4. n \in Nat
  BY CostsCounted, SameCount DEF Disp!CostsOf, DispatchInv, DispatchTypes
<1>5. a.n \in Nat /\ a.n <= Disp!CostsOf(a.task)
  BY <1>3, <1>4
<1> QED
  BY <1>1, <1>2, <1>3, <1>5, Answers

LEMMA PageRange ==
  ASSUME DispatchAssumptions, NEW p \in 0..Output, NEW n \in Nat, n # 0
  PROVE  /\ Disp!Range(p, n).from = p /\ Disp!Range(p, n).to \in 0..Output
         /\ p < Disp!Range(p, n).to \/ Disp!Range(p, n).to = Output
BY DEF Disp!Range, DispatchAssumptions

LEMMA ReadOutputStep ==
  ASSUME DispatchAssumptions, DispatchInv, NEW c \in Clients, Disp!ReadOutputRef(c) PROVE DispatchInv'
<1> PICK p : p = pages[c]
  OBVIOUS
<1> PICK q : q = req[c].n
  OBVIOUS
<1> PICK from : from = Disp!Range(p, q).from
  OBVIOUS
<1> PICK to : to = Disp!Range(p, q).to
  OBVIOUS
<1> PICK t : t = 0
  OBVIOUS
<1> PICK a : a = [Disp!Ok(c) EXCEPT !.n = to, !.i = from]
  OBVIOUS
<1>1. /\ req[c].at = "start" /\ req[c].kind = "read_output_ref" /\ Disp!Respond(c, a)
      /\ pages' = [pages EXCEPT ![c] = IF from = pages[c] THEN to ELSE pages[c]]
      /\ menu' = menu /\ tasks' = tasks /\ approval' = approval /\ costs' = costs /\ faults' = faults
  BY DEF Disp!ReadOutputRef, Disp!Starts, Disp!At
<1>2. /\ faults' \in Nat /\ faults <= faults' /\ DecisionOK' /\ p \in 0..Output /\ pages \in [Clients -> 0..Output]
      /\ q \in Nat /\ RequestOK(req[c], answer[c], tasks)
  BY <1>1, RequestFacts, DecisionStays
<1>3. q # 0
  BY <1>1, <1>2 DEF RequestOK
<1>4. from = p /\ to \in 0..Output /\ (p < to \/ to = Output)
  BY <1>2, <1>3, PageRange
<1>5. pages' \in [Clients -> 0..Output]
  BY <1>1, <1>2, <1>4
<1>6. /\ a.has = TRUE /\ a.ok = TRUE /\ a.kind = req[c].kind /\ a.fields = Disp!Field[req[c].kind]
      /\ a.task = t /\ a.n = to /\ a.i = from
  BY DEF Disp!Ok, Disp!Silent
<1> QED
  BY <1>1, <1>2, <1>4, <1>5, <1>6, Answers

LEMMA CostStep == ASSUME DispatchInv, NEW t \in Disp!Ids, Disp!RecordCost(t) PROVE DispatchInv'
<1>1. costs' = Append(costs, t) /\ UNCHANGED <<menu, tasks, approval, req, answer, pages, faults>>
  BY DEF Disp!RecordCost
<1>2. costs \in Seq(Nat) /\ t \in Nat
  BY DEF DispatchInv, DispatchTypes, Disp!Ids
<1>3. costs' \in Seq(Nat) /\ DOMAIN costs \subseteq DOMAIN costs' /\ \A i \in DOMAIN costs : costs'[i] = costs[i]
  BY <1>1, <1>2
<1>4. ASSUME NEW s PROVE Disp!CostsOf(s) \in Nat /\ Disp!CostsOf(s)' \in Nat /\ Disp!CostsOf(s) <= Disp!CostsOf(s)'
  <2> DEFINE A == {i \in DOMAIN costs : costs[i] = s}
             B == {i \in DOMAIN costs' : costs'[i] = s}
  <2>1. A \subseteq B
    BY <1>3
  <2>2. IsFiniteSet(B) /\ Cardinality(A) \in Nat /\ Cardinality(B) \in Nat
    BY <1>2, <1>3, CostsCounted
  <2>3. Cardinality(A) <= Cardinality(B)
    BY <2>1, <2>2, FS_Subset
  <2>4. Disp!CostsOf(s) = Cardinality(A)
    BY SameCount DEF Disp!CostsOf
  <2>5. Disp!CostsOf(s)' = Cardinality(B)
    BY SameCount DEF Disp!CostsOf
  <2> QED
    BY <2>2, <2>3, <2>4, <2>5
<1>5. Disp!CostsMine'
  <2> SUFFICES ASSUME NEW c \in Clients, answer[c].ok, answer[c].kind = "get_run_cost", answer[c].task # 0
               PROVE  \A s : s = answer[c].task => answer[c].n <= Disp!CostsOf(s)'
    BY <1>1 DEF Disp!CostsMine, Disp!CostsOf
  <2> SUFFICES ASSUME NEW s, s = answer[c].task PROVE answer[c].n <= Disp!CostsOf(s)'
    OBVIOUS
  <2>1. answer[c].n <= Disp!CostsOf(s) /\ answer[c].n \in Nat
    BY DEF DispatchInv, Disp!CostsMine, ServingOK, AnswerOK
  <2>2. Disp!CostsOf(s) \in Nat /\ Disp!CostsOf(s)' \in Nat /\ Disp!CostsOf(s) <= Disp!CostsOf(s)'
    BY <1>4
  <2>3. answer[c].n <= Disp!CostsOf(s)'
    BY <2>1, <2>2
  <2> QED
    BY <2>3
<1> QED
  BY <1>1, <1>3, <1>5 DEF DispatchInv, DispatchTypes, ServingOK, UmbrellasOK, DecisionOK

LEMMA DispatchStarts == ASSUME DispatchAssumptions, Disp!Init PROVE DispatchInv
<1>1. PICK g \in Nat, s \in Disp!TaskStates : tasks = <<Disp!NewTask(0, <<>>, s, g)>>
  BY DEF Disp!Init, Disp!TaskStates
<1> PICK x : x = Disp!NewTask(0, <<>>, s, g)
  OBVIOUS
<1>2. x \in TaskRows /\ x.parent = 0 /\ x.key = <<>>
  <2>1. <<>> \in VariantKeys
    BY DEF VariantKeys
  <2> QED
    BY <2>1 DEF Disp!NewTask, TaskRows
<1>3. tasks \in Seq(TaskRows) /\ Len(tasks) = 1 /\ tasks[1] = x /\ \A t \in 1..Len(tasks) : t = 1
  BY <1>1, <1>2
<1>4. KeysOK(tasks)
  BY <1>2, <1>3 DEF KeysOK
<1>5. /\ menu \in Menus /\ approval.state = "pending" /\ approval.by = {} /\ costs = <<>> /\ faults = 0
      /\ req = [c \in Clients |-> Disp!Idle] /\ answer = [c \in Clients |-> Disp!Silent]
      /\ pages = [c \in Clients |-> 0]
  BY DEF Disp!Init
<1>6. /\ req \in [Clients -> Requests] /\ answer = [c \in Clients |-> answer[c]] /\ pages \in [Clients -> 0..Output]
      /\ \A c \in Clients : req[c] = Disp!Idle /\ answer[c] = Disp!Silent
  BY <1>5, IdleBuilt DEF DispatchAssumptions
<1>7. DispatchTypes
  BY <1>3, <1>5, <1>6 DEF DispatchTypes
<1>8. ServingOK
  BY <1>6, IdleBuilt DEF ServingOK, RequestOK, AnswerOK
<1>9. UmbrellasOK
  <2>1. \A c \in Clients : Owned(req[c], answer[c]) = 0
    BY <1>6, IdleBuilt DEF Owned
  <2> QED
    BY <2>1 DEF UmbrellasOK
<1>10. DecisionOK
  BY <1>5 DEF DecisionOK
<1>11. Disp!CostsMine
  BY <1>6, IdleBuilt DEF Disp!CostsMine
<1> QED
  BY <1>4, <1>7, <1>8, <1>9, <1>10, <1>11 DEF DispatchInv

LEMMA DispatchSteps ==
  ASSUME DispatchAssumptions, DispatchInv, [Disp!Next]_(Disp!dispatchVars) PROVE DispatchInv'
<1>1. ASSUME NEW c \in Clients, NEW k \in menu, NEW t \in Named, NEW n \in Counts,
             k \in DOMAIN Disp!Lifecycle \cup {"get_task_events", "get_run_cost"} \/ t = 0, Disp!Ask(c, k, t, n)
      PROVE  DispatchInv'
  BY <1>1, AskStep
<1>2. ASSUME NEW c \in Clients,
             \/ Disp!Handle(c) \/ Disp!Fails(c) \/ Disp!Apply(c) \/ Disp!View(c) \/ Disp!Mint(c)
             \/ Disp!Umbrella(c) \/ Disp!SpawnVariant(c) \/ Disp!Spawned(c) \/ Disp!Resolve(c)
             \/ Disp!Exists(c) \/ Disp!Load(c) \/ Disp!RunCosts(c) \/ Disp!ReadOutputRef(c)
      PROVE  DispatchInv'
  BY <1>2, HandleStep, FailsStep, ApplyStep, ViewStep, MintStep, UmbrellaStep, SpawnStep, SpawnedStep, ResolveStep,
     ExistsStep, RunCostsStep, ReadOutputStep
<1>3. ASSUME NEW c \in Clients, NEW b \in BOOLEAN, Disp!Acquire(c, b) \/ Disp!CancelMinted(c, b) \/ Disp!Read(c, b)
      PROVE  DispatchInv'
  BY <1>3, AcquireStep, CancelStep, ReadStep
<1>4. ASSUME NEW t \in Disp!Ids, Disp!RecordCost(t) PROVE DispatchInv'
  BY <1>4, CostStep
<1>5. CASE UNCHANGED Disp!dispatchVars
  <2>1. UNCHANGED <<menu, tasks, approval, costs, req, answer, pages, asked, faults>>
    BY <1>5 DEF Disp!dispatchVars
  <2> QED
    BY <2>1 DEF DispatchInv, DispatchTypes, ServingOK, UmbrellasOK, DecisionOK, Disp!CostsMine, Disp!CostsOf
<1> QED
  BY <1>1, <1>2, <1>3, <1>4, <1>5 DEF Disp!Next

LEMMA DispatchServes == ASSUME DispatchAssumptions, DispatchInv PROVE Disp!DispatchSound
<1>1. \A c \in Clients : RequestOK(req[c], answer[c], tasks) /\ AnswerOK(answer[c], tasks, faults)
  BY DEF DispatchInv, ServingOK
<1>2. Disp!AnswersFit
  BY <1>1 DEF AnswerOK, Disp!AnswersFit
<1>3. Disp!ViewsCurrent
  <2> SUFFICES ASSUME NEW c \in Clients
               PROVE  /\ req[c].at = "view" => tasks[req[c].task].gen >= req[c].gen
                      /\ answer[c].ok /\ answer[c].task # 0 /\ answer[c].kind # "get_run_cost" =>
                           /\ answer[c].gen <= tasks[answer[c].task].gen
                           /\ answer[c].gen = tasks[answer[c].task].gen => answer[c].state = tasks[answer[c].task].state
                           /\ answer[c].gen >= answer[c].need
    BY DEF Disp!ViewsCurrent, Disp!At
  <2>1. req[c].at = "view" => req[c].gen <= tasks[req[c].task].gen
    BY <1>1 DEF RequestOK
  <2>2. req[c].at = "view" => tasks[req[c].task].gen >= req[c].gen
    BY <2>1
  <2> QED
    BY <1>1, <2>2 DEF AnswerOK
<1>4. Disp!OneDecision
  <2>1. approval.by = {} => Disp!Cardinality(approval.by) <= 1
    BY FS_EmptySet, SameCount
  <2>2. ASSUME NEW x, approval.by = {x} PROVE Disp!Cardinality(approval.by) <= 1 /\ approval.by # {}
    <3>1. Cardinality({x}) = 1
      BY FS_Singleton
    <3>2. Disp!Cardinality(approval.by) = 1
      BY <2>2, <3>1, SameCount
    <3> QED
      BY <2>2, <3>2
  <2> QED
    BY <2>1, <2>2 DEF DispatchInv, DecisionOK, Disp!OneDecision
<1>5. Disp!RefusedCreatesNothing
  BY <1>1 DEF AnswerOK, Disp!RefusedCreatesNothing, Settled, Disp!Terminal
<1>6. Disp!VariantsCounted
  <2> SUFFICES ASSUME NEW c \in Clients, NEW a, a = answer[c], NEW u, u = a.task,
                      a.has, a.kind = "run_variants", u # 0, a.ok => a.fields # {}
               PROVE  /\ Disp!Cardinality(Disp!ChildrenOf(u)) = a.i
                      /\ {tasks[t].key[2] : t \in Disp!ChildrenOf(u)} = 1..a.i
                      /\ a.ok => a.i = a.n
    BY DEF Disp!VariantsCounted
  <2>1. req[c].at = "idle" /\ req[c] = Disp!Idle
    BY <1>1, IdleBuilt DEF RequestOK
  <2>2. Owned(req[c], a) = u /\ Admitted(req[c], a) = a.i
    BY <2>1, IdleBuilt DEF Owned, Admitted
  <2>3. VariantsOf(tasks, u, a.i) /\ tasks \in Seq(TaskRows) /\ KeysOK(tasks)
    BY <2>2 DEF DispatchInv, UmbrellasOK, DispatchTypes
  <2>4. /\ Cardinality({t \in 1..Len(tasks) : tasks[t].parent = u}) = a.i
        /\ {tasks[t].key[2] : t \in {t \in 1..Len(tasks) : tasks[t].parent = u}} = 1..a.i
    BY <2>3, VariantCount
  <2>5. Disp!ChildrenOf(u) = {t \in 1..Len(tasks) : tasks[t].parent = u}
    BY DEF Disp!ChildrenOf, Disp!Ids
  <2>6. a.ok => a.i = a.n
    BY <1>1 DEF AnswerOK
  <2> QED
    BY <2>4, <2>5, <2>6, SameCount
<1>7. Disp!PagesJoin
  BY <1>1 DEF DispatchInv, DispatchTypes, DispatchAssumptions, AnswerOK, Disp!PagesJoin
<1> QED
  BY <1>2, <1>3, <1>4, <1>5, <1>6, <1>7 DEF DispatchInv, Disp!DispatchSound

\* CoreServices::handle and dispatch, for any clients, requests, page size and
\* limit on children, as their steps on the shared store interleave and store
\* calls fail: an answer carries the fields of its request, a task is shown
\* neither older than the command answered nor ahead of itself, of the decisions
\* on an approval one is answered with ok, a refused create_task leaves nothing
\* that could run, run_variants has admitted each variant once and exactly those
\* it counts, the pages of an output join up to it, and the costs answered are
\* of the task asked for.
THEOREM DispatchIsSound == DispatchAssumptions => (Disp!DispatchSpec => []Disp!DispatchSound)
<1> SUFFICES ASSUME DispatchAssumptions PROVE Disp!DispatchSpec => []Disp!DispatchSound
  OBVIOUS
<1>1. Disp!Init => DispatchInv
  BY DispatchStarts
<1>2. DispatchInv /\ [Disp!Next]_(Disp!dispatchVars) => DispatchInv'
  BY DispatchSteps
<1>3. DispatchInv => Disp!DispatchSound
  BY DispatchServes
<1> QED
  BY <1>1, <1>2, <1>3, PTL DEF Disp!DispatchSpec

-----------------------------------------------------------------------------
(***************************************************************************)
(* What the agent is told about its repository.  The language server may   *)
(* answer late, out of turn or never: a frame carries the id it answers,   *)
(* the session asks one thing at a time, and the two requests of a query   *)
(* have adjacent ids.                                                      *)
(***************************************************************************)
CONSTANTS Files, DefFile, Sizes, PackBudget, MaxEdits, MaxAsks

VARIABLES file, evidence, pack, lsp, server, ask, reply, surfaced, proposed

Desk == INSTANCE ContextDesk WITH Budget <- PackBudget

LspRequests == [id : Nat, kind : {"initialize", "definition", "references"}]
LspFrames == [id : Nat, kind : {"result", "error", "notification"}, answers : Nat]

ServerOK ==
  /\ server.inbox \in Seq(LspRequests) /\ server.outbox \in Seq(LspFrames)
  /\ \A i \in 1..Len(server.outbox) :
       server.outbox[i].kind = "notification" \/ server.outbox[i].answers = server.outbox[i].id

AskOK ==
  /\ lsp.next \in Nat
  /\ ask.at \in {"reading", "checking"} =>
       /\ ask.id \in Nat /\ ask.id + 1 = lsp.next
       /\ ask.wanted \in {"initialize", "definition", "references"}
       /\ ask.wanted = "references" => ask.defs + 1 = ask.id

ShownOK ==
  /\ evidence \subseteq surfaced
  /\ ask.at \in {"start", "packed"} => proposed = {}

DeskInv == ServerOK /\ AskOK /\ ShownOK /\ Desk!AnswersBelong

-----------------------------------------------------------------------------
LEMMA FrameTypes ==
  ASSUME ServerOK, server.outbox # <<>>, NEW f, f = Head(server.outbox)
  PROVE  f \in LspFrames /\ f.id \in Nat /\ f.answers \in Nat /\ (f.kind # "notification" => f.answers = f.id)
<1>1. server.outbox \in Seq(LspFrames) /\ f = server.outbox[1] /\ 1 \in 1..Len(server.outbox)
  BY DEF ServerOK
<1>2. f \in LspFrames
  BY <1>1
<1> QED
  BY <1>1, <1>2 DEF ServerOK, LspFrames

LEMMA OutboxRead ==
  ASSUME ServerOK, server.outbox # <<>>, server' = Desk!Server(server.up, server.inbox, Tail(server.outbox))
  PROVE  ServerOK'
<1> PICK o : o = server.outbox
  OBVIOUS
<1> PICK t : t = Tail(o)
  OBVIOUS
<1>1. server'.inbox = server.inbox /\ server'.outbox = t
  BY DEF Desk!Server
<1>2. o \in Seq(LspFrames) /\ t \in Seq(LspFrames) /\ Len(t) = Len(o) - 1 /\ Len(o) \in Nat
      /\ \A i \in 1..Len(t) : t[i] = o[i + 1]
  BY DEF ServerOK
<1>3. \A i \in 1..Len(t) : i + 1 \in 1..Len(o)
  BY <1>2
<1>4. \A i \in 1..Len(t) : t[i].kind = "notification" \/ t[i].answers = t[i].id
  BY <1>2, <1>3 DEF ServerOK
<1>5. server.inbox \in Seq(LspRequests)
  BY DEF ServerOK
<1> QED
  BY <1>1, <1>2, <1>4, <1>5 DEF ServerOK

\* A request goes out to a server srv that is in order.
LEMMA RequestSent ==
  ASSUME AskOK, NEW in \in Seq(LspRequests), NEW out \in Seq(LspFrames), NEW up,
         \A i \in 1..Len(out) : out[i].kind = "notification" \/ out[i].answers = out[i].id,
         NEW k \in {"initialize", "definition", "references"},
         server' = Desk!Sent(Desk!Server(up, in, out), k)
  PROVE  ServerOK'
<1> PICK r : r = [id |-> lsp.next, kind |-> k]
  OBVIOUS
<1>1. r \in LspRequests
  BY DEF AskOK, LspRequests
<1>2. server'.inbox = Append(in, r) /\ server'.outbox = out
  BY DEF Desk!Sent, Desk!Server
<1>3. Append(in, r) \in Seq(LspRequests)
  BY <1>1
<1> QED
  BY <1>2, <1>3 DEF ServerOK

LEMMA NothingUp == ASSUME server' = Desk!NoServer \/ server' = server, ServerOK PROVE ServerOK'
<1>1. CASE server' = Desk!NoServer
  <2>1. server'.inbox = <<>> /\ server'.outbox = <<>>
    BY <1>1 DEF Desk!NoServer
  <2> QED
    BY <2>1 DEF ServerOK
<1>2. CASE server' = server
  BY <1>2 DEF ServerOK
<1> QED
  BY <1>1, <1>2

LEMMA AskingFacts ==
  ASSUME NEW p, NEW i, NEW w, NEW d, NEW a, a = Desk!Asking(p, i, w, d)
  PROVE  a.at = p /\ a.id = i /\ a.wanted = w /\ a.defs = d
BY DEF Desk!Asking

LEMMA SessionFacts ==
  ASSUME NEW s, NEW n, NEW o, NEW l, l = Desk!Session(s, n, o) PROVE l.st = s /\ l.next = n /\ l.opened = o
BY DEF Desk!Session

LEMMA NoAskFacts == Desk!NoAsk.at = "idle" /\ Desk!NoReply.mixed = FALSE
BY DEF Desk!NoAsk, Desk!NoReply, Desk!Asking

\* Steps that leave the language server and its query alone.
LEMMA ToolStep ==
  ASSUME DeskInv, Desk!Idle, UNCHANGED <<lsp, server, ask, reply>>,
         evidence \subseteq evidence', surfaced \subseteq surfaced', evidence' \subseteq surfaced', proposed' \subseteq surfaced'
  PROVE  DeskInv'
<1>1. ask.at = "idle"
  BY DEF Desk!Idle
<1>2. ServerOK'
  BY DEF DeskInv, ServerOK
<1>3. AskOK'
  BY DEF DeskInv, AskOK
<1>4. ShownOK' /\ Desk!AnswersBelong'
  BY <1>1 DEF DeskInv, ShownOK, Desk!AnswersBelong
<1> QED
  BY <1>2, <1>3, <1>4 DEF DeskInv

LEMMA BuildStep ==
  ASSUME DeskInv, NEW b, NEW m, NEW h, NEW s, Desk!BuildContextPack(b, m, h, s) PROVE DeskInv'
<1>1. ask.at = "start" /\ ask' = Desk!AskAt("packed") /\ UNCHANGED <<file, evidence, lsp, server, reply, surfaced, proposed>>
  BY DEF Desk!BuildContextPack
<1>2. ask'.at = "packed"
  BY <1>1 DEF Desk!AskAt, Desk!Asking
<1>3. ServerOK' /\ AskOK'
  BY <1>1, <1>2 DEF DeskInv, ServerOK, AskOK
<1>4. ShownOK' /\ proposed' \subseteq surfaced'
  BY <1>1, <1>2 DEF DeskInv, ShownOK, Desk!AnswersBelong
<1> QED
  BY <1>1, <1>3, <1>4 DEF DeskInv, Desk!AnswersBelong

LEMMA ShippedStep == ASSUME DeskInv, Desk!PackShipped PROVE DeskInv'
<1>1. ask.at = "packed" /\ ask' = Desk!NoAsk /\ evidence' = surfaced' /\ UNCHANGED <<lsp, server, reply, proposed>>
  BY DEF Desk!PackShipped
<1>2. ask'.at = "idle"
  BY <1>1, NoAskFacts
<1>3. ServerOK' /\ AskOK'
  BY <1>1, <1>2 DEF DeskInv, ServerOK, AskOK
<1>4. proposed = {}
  BY <1>1 DEF DeskInv, ShownOK
<1>5. ShownOK' /\ proposed' \subseteq surfaced'
  BY <1>1, <1>2, <1>4 DEF ShownOK
<1> QED
  BY <1>1, <1>3, <1>5 DEF DeskInv, Desk!AnswersBelong

LEMMA SearchStep == ASSUME DeskInv, Desk!SearchSymbol PROVE DeskInv'
<1>1. ask.at = "idle" /\ evidence' = evidence \cup {DefFile} /\ surfaced' = surfaced \cup {DefFile} /\ proposed' = proposed
  BY DEF Desk!SearchSymbol, Desk!Seen, Desk!Idle
<1>2. evidence' \subseteq surfaced' /\ proposed' \subseteq surfaced'
  BY <1>1 DEF DeskInv, ShownOK, Desk!AnswersBelong
<1>3. CASE /\ server' = Desk!Spawned /\ lsp' = Desk!Session(lsp.st, lsp.next + 1, lsp.opened)
           /\ ask' = Desk!Asking("reading", lsp.next, "initialize", 0) /\ reply' = reply
  <2>1. ask'.at = "reading" /\ ask'.id = lsp.next /\ ask'.wanted = "initialize" /\ lsp'.next = lsp.next + 1
    BY <1>3, AskingFacts, SessionFacts
  <2>2. lsp.next \in Nat
    BY DEF DeskInv, AskOK
  <2>3. AskOK'
    BY <2>1, <2>2 DEF AskOK
  <2>4. ServerOK'
    <3> PICK r : r = [id |-> lsp.next, kind |-> "initialize"]
      OBVIOUS
    <3>1. r \in LspRequests
      BY <2>2 DEF LspRequests
    <3>2. server'.inbox = <<r>> /\ server'.outbox = <<>>
      BY <1>3 DEF Desk!Spawned, Desk!Server
    <3>3. <<r>> \in Seq(LspRequests)
      BY <3>1
    <3> QED
      BY <3>2, <3>3 DEF ServerOK
  <2> QED
    BY <1>2, <1>3, <2>1, <2>3, <2>4 DEF DeskInv, ShownOK, Desk!AnswersBelong
<1>4. CASE ask' = Desk!Asking("open", 0, "", 0) /\ UNCHANGED <<lsp, server, reply>>
  <2>1. ask'.at = "open"
    BY <1>4 DEF Desk!Asking
  <2>2. ServerOK' /\ AskOK'
    BY <1>4, <2>1 DEF DeskInv, ServerOK, AskOK
  <2> QED
    BY <1>2, <1>4, <2>1, <2>2 DEF DeskInv, ShownOK, Desk!AnswersBelong
<1>5. CASE reply' = Desk!NoReply /\ UNCHANGED <<lsp, server, ask>>
  <2>1. ServerOK' /\ AskOK'
    BY <1>5 DEF DeskInv, ServerOK, AskOK
  <2> QED
    BY <1>1, <1>2, <1>5, <2>1, NoAskFacts DEF DeskInv, ShownOK, Desk!AnswersBelong
<1> QED
  BY <1>3, <1>4, <1>5 DEF Desk!SearchSymbol

LEMMA OpenStep == ASSUME DeskInv, Desk!EnsureOpen PROVE DeskInv'
<1> PICK o : o = IF lsp.opened = <<>> THEN <<file[DefFile]>> ELSE lsp.opened
  OBVIOUS
<1>1. /\ ask.at = "open" /\ server' = Desk!Sent(server, "definition") /\ lsp' = Desk!Session(lsp.st, lsp.next + 1, o)
      /\ ask' = Desk!Asking("reading", lsp.next, "definition", ask.defs)
      /\ UNCHANGED <<evidence, reply, surfaced, proposed>>
  BY DEF Desk!EnsureOpen
<1>2. ask'.at = "reading" /\ ask'.id = lsp.next /\ ask'.wanted = "definition" /\ lsp'.next = lsp.next + 1
  BY <1>1, AskingFacts, SessionFacts
<1>3. AskOK'
  BY <1>2 DEF DeskInv, AskOK
<1>4. ServerOK'
  <2>1. Desk!Sent(server, "definition") = Desk!Sent(Desk!Server(server.up, server.inbox, server.outbox), "definition")
    BY DEF Desk!Sent, Desk!Server
  <2>2. server' = Desk!Sent(Desk!Server(server.up, server.inbox, server.outbox), "definition")
    BY <1>1, <2>1
  <2> QED
    BY <2>2, RequestSent DEF DeskInv, ServerOK
<1>5. ShownOK' /\ proposed' \subseteq surfaced'
  BY <1>1, <1>2 DEF DeskInv, ShownOK, Desk!AnswersBelong
<1> QED
  BY <1>1, <1>3, <1>4, <1>5 DEF DeskInv, Desk!AnswersBelong

\* A request that failed: the query is over.
LEMMA QueryOver ==
  ASSUME DeskInv, ask' = Desk!NoAsk, reply'.mixed = FALSE, ServerOK', lsp'.next = lsp.next,
         UNCHANGED <<evidence, surfaced, proposed>>
  PROVE  DeskInv'
<1>1. ask'.at = "idle"
  BY NoAskFacts
<1>2. AskOK'
  BY <1>1 DEF DeskInv, AskOK
<1>3. ShownOK' /\ proposed' \subseteq surfaced'
  BY <1>1 DEF DeskInv, ShownOK, Desk!AnswersBelong
<1> QED
  BY <1>2, <1>3 DEF DeskInv, Desk!AnswersBelong

LEMMA FailedStep ==
  ASSUME DeskInv, Desk!Failed, UNCHANGED <<evidence, surfaced, proposed>> PROVE DeskInv'
<1>1. /\ lsp' = (IF ask.wanted = "initialize" THEN Desk!Session("failed", lsp.next, lsp.opened) ELSE lsp)
      /\ server' = Desk!NoServer \/ server' = server
      /\ ask' = Desk!NoAsk /\ reply' = Desk!NoReply
  BY DEF Desk!Failed
<1>2. lsp'.next = lsp.next
  BY <1>1, SessionFacts
<1>3. ServerOK'
  BY <1>1, NothingUp DEF DeskInv
<1> QED
  BY <1>1, <1>2, <1>3, NoAskFacts, QueryOver

LEMMA ReadFrameStep == ASSUME DeskInv, Desk!ReadFrame PROVE DeskInv'
<1> PICK f : f = Head(server.outbox)
  OBVIOUS
<1> PICK rest : rest = Desk!Server(server.up, server.inbox, Tail(server.outbox))
  OBVIOUS
<1>1. ask.at = "reading" /\ server.outbox # <<>> /\ UNCHANGED <<file, evidence, pack, surfaced, proposed>>
  BY DEF Desk!ReadFrame
<1>2. f \in LspFrames /\ f.id \in Nat /\ f.answers \in Nat /\ (f.kind # "notification" => f.answers = f.id)
  BY <1>1, FrameTypes DEF DeskInv
<1>3. /\ ask.id \in Nat /\ ask.id + 1 = lsp.next /\ lsp.next \in Nat
      /\ ask.wanted \in {"initialize", "definition", "references"}
      /\ (ask.wanted = "references" => ask.defs + 1 = ask.id)
  BY <1>1 DEF DeskInv, AskOK
<1>4. CASE ~Desk!Matches(f) /\ server' = rest /\ ask' = Desk!AskAt("checking") /\ UNCHANGED <<lsp, reply>>
  <2>1. ask'.at = "checking" /\ ask'.id = ask.id /\ ask'.wanted = ask.wanted /\ ask'.defs = ask.defs
    BY <1>4 DEF Desk!AskAt, Desk!Asking
  <2>2. ServerOK'
    BY <1>1, <1>4, OutboxRead DEF DeskInv
  <2>3. AskOK'
    BY <1>3, <1>4, <2>1 DEF AskOK
  <2>4. ShownOK' /\ proposed' \subseteq surfaced'
    BY <1>1, <2>1 DEF DeskInv, ShownOK, Desk!AnswersBelong
  <2> QED
    BY <1>4, <2>2, <2>3, <2>4 DEF DeskInv, Desk!AnswersBelong
<1>5. CASE /\ lsp' = (IF ask.wanted = "initialize" THEN Desk!Session("failed", lsp.next, lsp.opened) ELSE lsp)
           /\ server' = (IF ask.wanted = "initialize" THEN Desk!NoServer ELSE rest)
           /\ ask' = Desk!NoAsk /\ reply' = Desk!NoReply
  <2>1. lsp'.next = lsp.next
    BY <1>5, SessionFacts
  <2>2. ServerOK'
    BY <1>1, <1>5, OutboxRead, NothingUp DEF DeskInv
  <2> QED
    BY <1>1, <1>5, <2>1, <2>2, NoAskFacts, QueryOver
<1>6. CASE lsp' = Desk!Session("live", lsp.next, lsp.opened) /\ server' = rest /\ ask' = Desk!AskAt("open") /\ reply' = reply
  <2>1. ask'.at = "open" /\ lsp'.next = lsp.next
    BY <1>6, SessionFacts DEF Desk!AskAt, Desk!Asking
  <2>2. ServerOK'
    BY <1>1, <1>6, OutboxRead DEF DeskInv
  <2>3. AskOK'
    BY <1>3, <2>1 DEF AskOK
  <2>4. ShownOK' /\ proposed' \subseteq surfaced'
    BY <1>1, <2>1 DEF DeskInv, ShownOK, Desk!AnswersBelong
  <2> QED
    BY <1>6, <2>2, <2>3, <2>4 DEF DeskInv, Desk!AnswersBelong
<1>7. CASE /\ Desk!Matches(f) /\ server' = Desk!Sent(rest, "references")
           /\ lsp' = Desk!Session(lsp.st, lsp.next + 1, lsp.opened)
           /\ ask' = Desk!Asking("reading", lsp.next, "references", f.answers) /\ reply' = reply
  <2>1. ask'.at = "reading" /\ ask'.id = lsp.next /\ ask'.wanted = "references" /\ ask'.defs = f.answers
        /\ lsp'.next = lsp.next + 1
    BY <1>7, AskingFacts, SessionFacts
  <2>2. f.answers = ask.id
    BY <1>2, <1>7 DEF Desk!Matches
  <2>3. AskOK'
    BY <1>3, <2>1, <2>2 DEF AskOK
  <2>4. ServerOK'
    <3> PICK t : t = Tail(server.outbox)
      OBVIOUS
    <3> PICK o : o = server.outbox
      OBVIOUS
    <3>1. o \in Seq(LspFrames) /\ t \in Seq(LspFrames) /\ Len(t) = Len(o) - 1 /\ Len(o) \in Nat
          /\ server.inbox \in Seq(LspRequests) /\ \A i \in 1..Len(t) : t[i] = o[i + 1]
      BY <1>1 DEF DeskInv, ServerOK
    <3>2. \A i \in 1..Len(t) : i + 1 \in 1..Len(o)
      BY <3>1
    <3>3. \A i \in 1..Len(t) : t[i].kind = "notification" \/ t[i].answers = t[i].id
      BY <3>1, <3>2 DEF DeskInv, ServerOK
    <3>4. AskOK /\ server' = Desk!Sent(Desk!Server(server.up, server.inbox, t), "references")
      BY <1>7 DEF DeskInv
    <3> QED
      BY <3>1, <3>3, <3>4, RequestSent
  <2>5. ShownOK' /\ proposed' \subseteq surfaced'
    BY <1>1, <2>1 DEF DeskInv, ShownOK, Desk!AnswersBelong
  <2> QED
    BY <1>7, <2>3, <2>4, <2>5 DEF DeskInv, Desk!AnswersBelong
<1>8. CASE /\ Desk!Matches(f) /\ ask.wanted = "references" /\ server' = rest /\ ask' = Desk!NoAsk /\ lsp' = lsp
           /\ reply' = [mixed |-> f.answers # ask.id \/ ask.defs + 1 # ask.id, behind |-> lsp.opened[1] < file[DefFile]]
  <2>1. f.answers = ask.id /\ ask.defs + 1 = ask.id
    BY <1>2, <1>3, <1>8 DEF Desk!Matches
  <2>2. reply'.mixed = FALSE
    BY <1>8, <2>1
  <2>3. ServerOK'
    BY <1>1, <1>8, OutboxRead DEF DeskInv
  <2> QED
    BY <1>1, <1>8, <2>2, <2>3, QueryOver
<1> QED
  BY <1>3, <1>4, <1>5, <1>6, <1>7, <1>8 DEF Desk!ReadFrame

LEMMA CheckStep == ASSUME DeskInv, NEW p \in BOOLEAN, Desk!CheckDeadline(p) PROVE DeskInv'
<1>1. ask.at = "checking" /\ UNCHANGED <<evidence, surfaced, proposed>>
  BY DEF Desk!CheckDeadline
<1>2. CASE Desk!Failed
  BY <1>1, <1>2, FailedStep
<1>3. CASE ask' = Desk!AskAt("reading") /\ UNCHANGED <<lsp, server, reply>>
  <2>1. ask'.at = "reading" /\ ask'.id = ask.id /\ ask'.wanted = ask.wanted /\ ask'.defs = ask.defs
    BY <1>3 DEF Desk!AskAt, Desk!Asking
  <2>2. ServerOK' /\ AskOK'
    BY <1>1, <1>3, <2>1 DEF DeskInv, ServerOK, AskOK
  <2>3. ShownOK' /\ proposed' \subseteq surfaced'
    BY <1>1, <2>1 DEF DeskInv, ShownOK, Desk!AnswersBelong
  <2> QED
    BY <1>3, <2>2, <2>3 DEF DeskInv, Desk!AnswersBelong
<1> QED
  BY <1>2, <1>3 DEF Desk!CheckDeadline

\* What the server does on its own.
LEMMA ServerActs ==
  ASSUME DeskInv, UNCHANGED <<evidence, lsp, ask, reply, surfaced, proposed>>, ServerOK' PROVE DeskInv'
BY DEF DeskInv, AskOK, ShownOK, Desk!AnswersBelong

LEMMA Removed == ASSUME NEW s \in Seq(LspRequests), NEW i \in 1..Len(s) PROVE Desk!RemoveAt(s, i) \in Seq(LspRequests)
<1>1. SubSeq(s, 1, i - 1) \in Seq(LspRequests) /\ SubSeq(s, i + 1, Len(s)) \in Seq(LspRequests)
  OBVIOUS
<1>2. SubSeq(s, 1, i - 1) \o SubSeq(s, i + 1, Len(s)) \in Seq(LspRequests)
  BY <1>1
<1> QED
  BY <1>2 DEF Desk!RemoveAt

LEMMA AnswersStep ==
  ASSUME DeskInv, NEW i \in DOMAIN server.inbox, NEW k \in {"result", "error"}, Desk!ServerAnswers(i, k) PROVE DeskInv'
<1> PICK o : o = server.outbox
  OBVIOUS
<1> PICK n : n = server.inbox[i].id
  OBVIOUS
<1> PICK x : x = [id |-> n, kind |-> k, answers |-> n]
  OBVIOUS
<1> PICK t : t = Append(o, x)
  OBVIOUS
<1>1. /\ server' = Desk!Server(TRUE, Desk!RemoveAt(server.inbox, i), t)
      /\ UNCHANGED <<evidence, lsp, ask, reply, surfaced, proposed>>
  BY DEF Desk!ServerAnswers
<1>2. server'.inbox = Desk!RemoveAt(server.inbox, i) /\ server'.outbox = t
  BY <1>1 DEF Desk!Server
<1>3. server.inbox \in Seq(LspRequests) /\ o \in Seq(LspFrames) /\ i \in 1..Len(server.inbox) /\ n \in Nat
  <2>1. server.inbox \in Seq(LspRequests) /\ o \in Seq(LspFrames) /\ i \in 1..Len(server.inbox)
    BY DEF DeskInv, ServerOK
  <2>2. server.inbox[i] \in LspRequests
    BY <2>1
  <2> QED
    BY <2>1, <2>2 DEF LspRequests
<1>4. x \in LspFrames /\ x.answers = x.id
  BY <1>3 DEF LspFrames
<1>5. /\ t \in Seq(LspFrames) /\ Len(t) = Len(o) + 1 /\ t[Len(o) + 1] = x /\ Len(o) \in Nat
      /\ \A j \in 1..Len(o) : t[j] = o[j]
  BY <1>3, <1>4
<1>6. \A j \in 1..Len(t) : j \in 1..Len(o) \/ j = Len(o) + 1
  BY <1>5
<1>7. \A j \in 1..Len(t) : t[j].kind = "notification" \/ t[j].answers = t[j].id
  BY <1>4, <1>5, <1>6 DEF DeskInv, ServerOK
<1>8. ServerOK'
  BY <1>2, <1>3, <1>5, <1>7, Removed DEF ServerOK
<1> QED
  BY <1>1, <1>8, ServerActs

LEMMA NotifiesStep == ASSUME DeskInv, Desk!ServerNotifies \/ Desk!ServerExits PROVE DeskInv'
<1>1. UNCHANGED <<evidence, lsp, ask, reply, surfaced, proposed>>
  BY DEF Desk!ServerNotifies, Desk!ServerExits
<1>2. CASE Desk!ServerNotifies
  <2> PICK x : x = [id |-> 0, kind |-> "notification", answers |-> 0]
    OBVIOUS
  <2>1. server'.inbox = server.inbox /\ server'.outbox = <<x>>
    BY <1>2 DEF Desk!ServerNotifies, Desk!Server
  <2>2. x \in LspFrames /\ x.kind = "notification"
    BY DEF LspFrames
  <2>3. <<x>> \in Seq(LspFrames) /\ Len(<<x>>) = 1 /\ <<x>>[1] = x /\ \A j \in 1..1 : j = 1
    BY <2>2
  <2>4. ServerOK'
    BY <2>1, <2>2, <2>3 DEF DeskInv, ServerOK
  <2> QED
    BY <1>1, <2>4, ServerActs
<1>3. CASE Desk!ServerExits
  <2>1. server'.inbox = server.inbox /\ server'.outbox = server.outbox
    BY <1>3 DEF Desk!ServerExits, Desk!Server
  <2>2. ServerOK'
    BY <2>1 DEF DeskInv, ServerOK
  <2> QED
    BY <1>1, <2>2, ServerActs
<1> QED
  BY <1>2, <1>3

LEMMA DeskSteps == ASSUME DeskInv, [Desk!Next]_(Desk!deskVars) PROVE DeskInv'
<1>1. ASSUME NEW f \in Files, Desk!Read(f) \/ Desk!Propose(f) PROVE DeskInv'
  <2>1. Desk!Idle /\ UNCHANGED <<lsp, server, ask, reply>>
    BY <1>1 DEF Desk!Read, Desk!Propose
  <2>2. CASE Desk!Read(f)
    <3>1. evidence' = evidence \cup {f} /\ surfaced' = surfaced \cup {f} /\ proposed' = proposed
      BY <2>2 DEF Desk!Read, Desk!Seen
    <3>2. evidence' \subseteq surfaced' /\ proposed' \subseteq surfaced'
      BY <3>1 DEF DeskInv, ShownOK, Desk!AnswersBelong
    <3> QED
      BY <2>1, <3>1, <3>2, ToolStep
  <2>3. CASE Desk!Propose(f)
    <3>1. evidence' = evidence /\ surfaced' = surfaced /\ proposed' = proposed \cup {f} /\ f \in evidence
      BY <2>3 DEF Desk!Propose
    <3>2. evidence' \subseteq surfaced' /\ proposed' \subseteq surfaced'
      BY <3>1 DEF DeskInv, ShownOK, Desk!AnswersBelong
    <3> QED
      BY <2>1, <3>1, <3>2, ToolStep
  <2> QED
    BY <1>1, <2>2, <2>3
<1>2. ASSUME NEW m, NEW hits, Desk!ContextQuery(m, hits) PROVE DeskInv'
  <2>1. /\ Desk!Idle /\ UNCHANGED <<lsp, server, ask, reply, proposed>>
        /\ evidence' = evidence \cup Desk!HitsOf(m, hits) /\ surfaced' = surfaced \cup hits
    BY <1>2 DEF Desk!ContextQuery
  <2>2. Desk!HitsOf(m, hits) \subseteq hits
    BY DEF Desk!HitsOf
  <2>3. evidence' \subseteq surfaced' /\ proposed' \subseteq surfaced' /\ evidence \subseteq evidence' /\ surfaced \subseteq surfaced'
    BY <2>1, <2>2 DEF DeskInv, ShownOK, Desk!AnswersBelong
  <2> QED
    BY <2>1, <2>3, ToolStep
<1>3. ASSUME NEW f, Desk!Edited(f) PROVE DeskInv'
  <2>1. UNCHANGED <<evidence, lsp, server, ask, reply, surfaced, proposed>>
    BY <1>3 DEF Desk!Edited
  <2>2. ServerOK'
    BY <2>1 DEF DeskInv, ServerOK
  <2> QED
    BY <2>1, <2>2, ServerActs
<1>4. CASE Desk!StreamEnds
  <2>1. Desk!Failed /\ UNCHANGED <<evidence, surfaced, proposed>>
    BY <1>4 DEF Desk!StreamEnds
  <2> QED
    BY <2>1, FailedStep
<1>5. CASE UNCHANGED Desk!deskVars
  <2>1. UNCHANGED <<evidence, lsp, server, ask, reply, surfaced, proposed>>
    BY <1>5 DEF Desk!deskVars
  <2>2. ServerOK'
    BY <2>1 DEF DeskInv, ServerOK
  <2> QED
    BY <2>1, <2>2, ServerActs
<1>6. CASE Desk!AgentNext
  <2>1. CASE \E b, m \in Sizes, h \in [Files -> Sizes], s \in [Files -> {0, 20}] : Desk!BuildContextPack(b, m, h, s)
    BY <2>1, BuildStep
  <2>2. CASE \E m \in Desk!Modes, hits \in SUBSET Files : Desk!ContextQuery(m, hits)
    BY <2>2, <1>2
  <2>3. CASE \E p \in BOOLEAN : Desk!CheckDeadline(p)
    BY <2>3, CheckStep
  <2>4. CASE \E f \in Files : Desk!Read(f) \/ Desk!Propose(f)
    BY <2>4, <1>1
  <2> QED
    BY <1>4, <1>6, <2>1, <2>2, <2>3, <2>4, ShippedStep, SearchStep, OpenStep, ReadFrameStep DEF Desk!AgentNext
<1>7. CASE \E i \in DOMAIN server.inbox, k \in {"result", "error"} : Desk!ServerAnswers(i, k)
  BY <1>7, AnswersStep
<1> QED
  BY <1>3, <1>5, <1>6, <1>7, NotifiesStep DEF Desk!Next

LEMMA DeskStarts == ASSUME Desk!Init PROVE DeskInv
<1>1. /\ lsp = [st |-> "none", next |-> 1, opened |-> <<>>] /\ server = Desk!NoServer
      /\ ask = Desk!Asking("start", 0, "", 0) /\ reply = Desk!NoReply /\ evidence = {} /\ surfaced = {} /\ proposed = {}
  BY DEF Desk!Init
<1>2. lsp.next = 1 /\ server.inbox = <<>> /\ server.outbox = <<>>
  BY <1>1 DEF Desk!NoServer
<1>3. ask.at = "start"
  BY <1>1 DEF Desk!Asking
<1>4. reply.mixed = FALSE
  BY <1>1, NoAskFacts
<1>5. ServerOK
  BY <1>2 DEF ServerOK
<1>6. AskOK
  BY <1>2, <1>3 DEF AskOK
<1>7. ShownOK /\ Desk!AnswersBelong
  BY <1>1, <1>4 DEF ShownOK, Desk!AnswersBelong
<1> QED
  BY <1>5, <1>6, <1>7 DEF DeskInv

\* diagnostics/lsp.rs and the search and change tools of scheduler.rs, for any
\* files, queries and edits and whatever the language server answers, in any
\* order or not at all: the answer shown for a symbol is the server's answer to
\* that very request, its two halves belong to one query, and a proposal passes
\* only for a file whose path or content the agent was shown.
THEOREM DeskAnswersBelong == Desk!DeskSpec => []Desk!AnswersBelong
<1>1. DeskInv => Desk!AnswersBelong
  BY DEF DeskInv
<1> QED
  BY <1>1, DeskStarts, DeskSteps, PTL DEF Desk!DeskSpec

=============================================================================
