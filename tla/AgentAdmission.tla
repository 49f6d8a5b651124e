--------------------------- MODULE AgentAdmission ---------------------------
(***************************************************************************)
(* Admission of tasks and child agents by the surface of crates/           *)
(* core-runtime: each connection has a thread, and a CreateTask or         *)
(* SpawnAgent request is a sequence of separate transactions (parent       *)
(* check, capacity check, minting the child, fleet node, write scopes,     *)
(* queue, start) that is undone by hand when a later one is refused.       *)
(* The fleet journal (agent_fleet.rs) and the write-scope table of the     *)
(* store (write_scopes.rs) are shared by all threads.                      *)
(***************************************************************************)
EXTENDS TaskLifecycle, FiniteSets

CONSTANTS
  Tasks, Handlers,   \* task ids; connection threads
  Existing,          \* plain tasks of an earlier life of the core
  Keys, NoKey,       \* idempotency keys of spawn requests
  Repos, Default,    \* registered repositories, and the bucket of the others
  Paths, Scopes,     \* paths as sequences of names; scopes clients declare
  NoTask, Idle,
  ClientEvents,      \* task events that clients and runs bring about
  Faults,            \* subset of {"journal", "scopes"}: writes that may fail
  MaxChildren,       \* MODBIT_MAX_CHILD_AGENTS
  MaxRequests,       \* bound: requests of clients
  MaxCrashes         \* bound: crashes of the core

ASSUME AdmissionBounds == {MaxChildren, MaxRequests, MaxCrashes} \subseteq Nat
ASSUME AdmissionFinite == IsFiniteSet(Tasks) /\ IsFiniteSet(Handlers)
ASSUME AdmissionIds ==
  /\ NoTask \notin Tasks /\ NoKey \notin Keys /\ Default \notin Repos
  /\ Existing \subseteq Tasks /\ Scopes \subseteq SUBSET Paths /\ ClientEvents \subseteq TaskEvents

VARIABLES
  state,    \* durable: tasks.state, None before the task is minted
  parent,   \* durable: tasks.parent_task_id
  repo,     \* durable: repo_id of task_created
  held,     \* durable: task_write_scopes, the repo key and paths of a task
  journal,  \* durable: the last line of a child's node in the fleet journal
  node,     \* memory: AgentFleet.nodes
  index,    \* memory: AgentFleet.idempotency
  fleet,    \* memory: the fleet's mutex, "ok" or "poisoned"
  job,      \* memory: the request a thread is working on
  refused,  \* tasks whose admission was answered with an error and undone
  waited,   \* tasks that were waiting at some time
  raced,    \* parents for which two threads were past the capacity check at once
  requests, crashes

tables   == <<state, parent, repo, held>>
agents   == <<journal, node, index, fleet>>
marks    == <<refused, waited, raced, crashes>>
history  == <<marks, requests>>
vars     == <<tables, agents, job, history>>

NoNode == [status |-> "none", key |-> NoKey]
Nodes  == [status : {"none", "foreground", "parked"}, key : Keys \cup {NoKey}]
Keyed  == Repos \cup {Default}

Places == {"check", "capacity", "mint", "node", "acquire", "queue", "start",
           "release", "cancel", "park", "resume"}
Jobs   == [at : Places, task : Tasks \cup {NoTask}, parent : Tasks \cup {NoTask},
           key : Keys \cup {NoKey}, scope : SUBSET Paths, repo : Keyed]

TypeOK ==
  /\ state \in [Tasks -> TaskStates \cup {None}]
  /\ parent \in [Tasks -> Tasks \cup {NoTask}]
  /\ repo \in [Tasks -> Keyed]
  /\ held \in [Tasks -> [repo : Keyed, paths : SUBSET Paths]]
  /\ journal \in [Tasks -> Nodes] /\ node \in [Tasks -> Nodes]
  /\ index \in [Keys -> Tasks \cup {NoTask}]
  /\ fleet \in {"ok", "poisoned"}
  /\ job \in [Handlers -> Jobs \cup {Idle}]
  /\ refused \subseteq Tasks /\ waited \subseteq Tasks /\ raced \subseteq Tasks
  /\ requests \in 0..MaxRequests /\ crashes \in 0..MaxCrashes

Init ==
  /\ state = [t \in Tasks |-> IF t \in Existing THEN "created" ELSE None]
  /\ parent = [t \in Tasks |-> NoTask]
  /\ repo = [t \in Tasks |-> Default]
  /\ held = [t \in Tasks |-> [repo |-> Default, paths |-> {}]]
  /\ journal = [t \in Tasks |-> NoNode] /\ node = journal
  /\ index = [k \in Keys |-> NoTask]
  /\ fleet = "ok"
  /\ job = [h \in Handlers |-> Idle]
  /\ refused = {} /\ waited = {} /\ raced = {} /\ requests = 0 /\ crashes = 0

-----------------------------------------------------------------------------
(***************************************************************************)
(* write_scopes.rs                                                         *)
(***************************************************************************)
Covers(p, q) == Len(p) <= Len(q) /\ SubSeq(q, 1, Len(p)) = p

\* Mutant: only a declared parent directory conflicts.
OverlapsDown(p, q) == Covers(p, q)

Overlaps(p, q) == Covers(p, q) \/ Covers(q, p)

ActiveStates == {"created", "queued", "running", "ready_for_review"}

\* release_terminal: the sweep at the start of an acquisition.
Swept == [t \in Tasks |-> IF state[t] \in Terminal THEN [held[t] EXCEPT !.paths = {}]
                          ELSE held[t]]

Conflict(key, paths) ==
  \E t \in Tasks : /\ state[t] \in ActiveStates /\ Swept[t].repo = key
                   /\ \E p \in paths, q \in Swept[t].paths : Overlaps(q, p)

-----------------------------------------------------------------------------
(***************************************************************************)
(* The steps of a request.                                                 *)
(***************************************************************************)
\* A request arrives on an idle connection.
Asked(h) ==
  /\ job[h] = Idle
  /\ requests < MaxRequests /\ requests' = requests + 1
  /\ UNCHANGED marks

At(h, place) == job[h] # Idle /\ job[h].at = place

Goto(h, place) == job' = [job EXCEPT ![h].at = place]
Done(h)        == job' = [job EXCEPT ![h] = Idle]

Accepts(t, ev) == state[t] \in AcceptedFrom(ev)
Apply(t, ev)   == state' = [state EXCEPT ![t] = StateAfter(@, ev)]

Mint(t, p, r) ==
  /\ state[t] = None
  /\ state' = [state EXCEPT ![t] = "created"]
  /\ parent' = [parent EXCEPT ![t] = p]
  /\ repo' = [repo EXCEPT ![t] = r]

\* CreateTask of a client: the task is minted first, its scope acquired next.
CreateTask(h, t, r, scope) ==
  /\ Asked(h)
  /\ Mint(t, NoTask, r)
  /\ job' = [job EXCEPT ![h] = [at |-> "acquire", task |-> t, parent |-> NoTask,
                                key |-> NoKey, scope |-> scope, repo |-> r]]
  /\ UNCHANGED <<held, agents>>

\* spawn_agent: a replayed key returns the child it names; a poisoned fleet is an
\* error as soon as a key is looked up.
SpawnAgent(h, p, k, scope) ==
  /\ Asked(h) /\ state[p] # None
  /\ k # NoKey => fleet = "ok"
  /\ k # NoKey /\ index[k] # NoTask => node[index[k]] = NoNode
  /\ job' = [job EXCEPT ![h] = [at |-> "check", task |-> NoTask, parent |-> p,
                                key |-> k, scope |-> scope, repo |-> Default]]
  /\ UNCHANGED <<tables, agents>>

\* (a) the parent is active.  (A client may also name the generation it saw; a
\* mismatch ends the request here, before it had any effect.)
CheckParent(h) ==
  /\ At(h, "check")
  /\ IF state[job[h].parent] \in Terminal THEN Done(h) ELSE Goto(h, "capacity")
  /\ UNCHANGED <<tables, agents, history>>

ActiveChildren(p) ==
  {t \in Tasks : parent[t] = p /\ state[t] \notin Terminal \cup {None, "created"}}

\* Mutant: off by one.
RoomForOneMore(p) == Cardinality(ActiveChildren(p)) <= MaxChildren

HasRoom(p) == Cardinality(ActiveChildren(p)) < MaxChildren

\* Threads that have passed the check and not yet queued their child.
Admitting(p) ==
  {h \in Handlers : /\ job[h] # Idle /\ job[h].parent = p
                    /\ job[h].at \in {"mint", "node", "acquire", "queue"}}

\* (b) the capacity ticket.
CheckCapacity(h) ==
  LET p == job[h].parent
  IN  /\ At(h, "capacity")
      /\ IF HasRoom(p) THEN Goto(h, "mint") ELSE Done(h)
      /\ raced' = IF HasRoom(p) /\ Admitting(p) # {} THEN raced \cup {p} ELSE raced
      /\ UNCHANGED <<tables, agents, refused, waited, requests, crashes>>

MintChild(h, t) ==
  /\ At(h, "mint")
  /\ Mint(t, job[h].parent, Default)
  /\ job' = [job EXCEPT ![h] = [@ EXCEPT !.at = "node", !.task = t]]
  /\ UNCHANGED <<held, agents, history>>

BindKey(k, t) == index' = IF k = NoKey THEN index ELSE [index EXCEPT ![k] = t]

KeyTaken(k) == k # NoKey /\ index[k] # NoTask

(***************************************************************************)
(* (7) spawn_child under the fleet's mutex.  A key that is taken yields    *)
(* the node it names and no new one; if that node was never stored, the    *)
(* lookup panics, which poisons the mutex and ends the thread.  The key    *)
(* is entered before the node is written to the journal.                   *)
(***************************************************************************)
\* Mutant: the node is written without asking who has the key.
AttachNodeBlind(h) ==
  LET t == job[h].task
      k == job[h].key
  IN  /\ At(h, "node") /\ fleet = "ok"
      /\ BindKey(k, t)
      /\ journal' = [journal EXCEPT ![t] = [status |-> "foreground", key |-> k]]
      /\ node' = [node EXCEPT ![t] = [status |-> "foreground", key |-> k]]
      /\ Goto(h, "acquire")
      /\ UNCHANGED <<tables, fleet, history>>

AttachNode(h) ==
  LET t == job[h].task
      k == job[h].key
      new == [status |-> "foreground", key |-> k]
  IN  /\ At(h, "node")
      /\ \/ /\ fleet = "poisoned"
            /\ Goto(h, "release")
            /\ UNCHANGED agents
         \/ /\ fleet = "ok" /\ KeyTaken(k) /\ node[index[k]] # NoNode
            /\ Goto(h, "acquire")
            /\ UNCHANGED agents
         \/ /\ fleet = "ok" /\ KeyTaken(k) /\ node[index[k]] = NoNode
            /\ fleet' = "poisoned"
            /\ Done(h)
            /\ UNCHANGED <<journal, node, index>>
         \/ /\ fleet = "ok" /\ ~KeyTaken(k)
            /\ BindKey(k, t)
            /\ journal' = [journal EXCEPT ![t] = new]
            /\ node' = [node EXCEPT ![t] = new]
            /\ Goto(h, "acquire")
            /\ UNCHANGED fleet
         \/ /\ fleet = "ok" /\ ~KeyTaken(k) /\ "journal" \in Faults
            /\ BindKey(k, t)
            /\ Goto(h, "release")
            /\ UNCHANGED <<journal, node, fleet>>
      /\ UNCHANGED <<tables, history>>

\* The repo key of a child is that of its parent.
ScopeKey(j) == IF j.parent = NoTask THEN j.repo ELSE repo[j.parent]

(***************************************************************************)
(* write_scopes::acquire.  No declaration acquires nothing; a denial of a  *)
(* plain task cancels it, a denial of a child is compensated.  The rows    *)
(* are separate statements, so an error may leave some of them; it cancels *)
(* a plain task and ends the request of a child without compensation.      *)
(***************************************************************************)
AcquireScope(h) ==
  LET j == job[h]
      key == ScopeKey(j)
  IN  /\ At(h, "acquire")
      /\ \/ /\ j.scope = {} \/ ~Conflict(key, j.scope)
            /\ held' = IF j.scope = {} THEN held
                       ELSE [Swept EXCEPT ![j.task] = [repo |-> key, paths |-> j.scope]]
            /\ IF j.parent = NoTask THEN Done(h) ELSE Goto(h, "queue")
         \/ /\ j.scope # {} /\ Conflict(key, j.scope)
            /\ held' = Swept
            /\ Goto(h, IF j.parent = NoTask THEN "cancel" ELSE "release")
         \/ /\ j.scope # {} /\ ~Conflict(key, j.scope) /\ "scopes" \in Faults
            /\ \E some \in SUBSET j.scope :
                 held' = [Swept EXCEPT ![j.task] = [repo |-> key, paths |-> some]]
            /\ IF j.parent = NoTask THEN Goto(h, "cancel") ELSE Done(h)
      /\ UNCHANGED <<state, parent, repo, agents, history>>

\* QueueTask, then StartTask; a rejection is compensated.
QueueChild(h) ==
  /\ At(h, "queue")
  /\ IF Accepts(job[h].task, "task_queued")
     THEN Apply(job[h].task, "task_queued") /\ Goto(h, "start")
     ELSE Goto(h, "release") /\ UNCHANGED state
  /\ UNCHANGED <<parent, repo, held, agents, history>>

StartChild(h) ==
  /\ At(h, "start")
  /\ IF Accepts(job[h].task, "task_started")
     THEN Apply(job[h].task, "task_started") /\ Done(h)
     ELSE Goto(h, "release") /\ UNCHANGED state
  /\ UNCHANGED <<parent, repo, held, agents, history>>

\* Mutant: compensation forgets the write scope.
ReleaseNothing(h) ==
  /\ At(h, "release")
  /\ Goto(h, "cancel")
  /\ UNCHANGED <<tables, agents, history>>

\* compensate: release the scope, then cancel the child, then answer the error.
ReleaseScope(h) ==
  /\ At(h, "release")
  /\ held' = [held EXCEPT ![job[h].task].paths = {}]
  /\ Goto(h, "cancel")
  /\ UNCHANGED <<state, parent, repo, agents, history>>

CancelMinted(h) ==
  /\ At(h, "cancel")
  /\ IF Accepts(job[h].task, "task_cancelled")
     THEN Apply(job[h].task, "task_cancelled") ELSE UNCHANGED state
  /\ refused' = refused \cup {job[h].task}
  /\ Done(h)
  /\ UNCHANGED <<parent, repo, held, agents, waited, raced, requests, crashes>>

-----------------------------------------------------------------------------
(***************************************************************************)
(* park_agent and resume_agent: the fleet node first, the task second.     *)
(***************************************************************************)
\* AgentFleet::transition, then the task command unless the journal failed.
SetStatus(h, t, status, next) ==
  /\ node' = [node EXCEPT ![t].status = status]
  /\ \/ /\ journal' = [journal EXCEPT ![t] = node'[t]]
        /\ job' = [job EXCEPT ![h] = [at |-> next, task |-> t, parent |-> NoTask, key |-> NoKey,
                                      scope |-> {}, repo |-> Default]]
     \/ "journal" \in Faults /\ UNCHANGED <<journal, job>>

Wait(t) == waited' = IF Accepts(t, "task_waiting") THEN waited \cup {t} ELSE waited

ParkAgent(h, t) ==
  /\ Asked(h) /\ fleet = "ok" /\ node[t] # NoNode
  /\ SetStatus(h, t, "parked", "park")
  /\ UNCHANGED <<tables, index, fleet>>

ParkTask(h) ==
  /\ At(h, "park")
  /\ Wait(job[h].task)
  /\ IF Accepts(job[h].task, "task_waiting") THEN Apply(job[h].task, "task_waiting")
     ELSE UNCHANGED state
  /\ Done(h)
  /\ UNCHANGED <<parent, repo, held, agents, refused, raced, requests, crashes>>

ResumeAgent(h, t) ==
  /\ Asked(h) /\ fleet = "ok" /\ node[t].status = "parked"
  /\ SetStatus(h, t, "foreground", "resume")
  /\ UNCHANGED <<tables, index, fleet>>

ResumeTask(h) ==
  /\ At(h, "resume")
  /\ IF Accepts(job[h].task, "task_started") THEN Apply(job[h].task, "task_started")
     ELSE UNCHANGED state
  /\ Done(h)
  /\ UNCHANGED <<parent, repo, held, agents, history>>

(***************************************************************************)
(* What clients and runs do to tasks meanwhile; they queue plain tasks     *)
(* only, a child is queued by its admission.                               *)
(***************************************************************************)
TaskEvent(t, ev) ==
  /\ Accepts(t, ev)
  /\ ev = "task_queued" => parent[t] = NoTask
  /\ Apply(t, ev)
  /\ waited' = IF ev = "task_waiting" THEN waited \cup {t} ELSE waited
  /\ UNCHANGED <<parent, repo, held, agents, job, refused, raced, requests, crashes>>

\* The core dies and comes back: AgentFleet::load replays the journal.
Crash ==
  /\ crashes < MaxCrashes /\ crashes' = crashes + 1
  /\ node' = journal
  /\ index' = [k \in Keys |->
                 IF \E t \in Tasks : journal[t] # NoNode /\ journal[t].key = k
                 THEN CHOOSE t \in Tasks : journal[t] # NoNode /\ journal[t].key = k
                 ELSE NoTask]
  /\ fleet' = "ok"
  /\ job' = [h \in Handlers |-> Idle]
  /\ UNCHANGED <<tables, journal, refused, waited, raced, requests>>

Step(h) ==
  \/ CheckParent(h) \/ CheckCapacity(h) \/ AttachNode(h) \/ AcquireScope(h)
  \/ QueueChild(h) \/ StartChild(h) \/ ReleaseScope(h) \/ CancelMinted(h)
  \/ ParkTask(h) \/ ResumeTask(h)
  \/ \E t \in Tasks : MintChild(h, t)

Request(h) ==
  \E t \in Tasks :
    \/ \E r \in Keyed, s \in Scopes : CreateTask(h, t, r, s)
    \/ \E k \in Keys \cup {NoKey}, s \in Scopes : SpawnAgent(h, t, k, s)
    \/ ParkAgent(h, t) \/ ResumeAgent(h, t)

Next ==
  \/ \E h \in Handlers : Step(h) \/ Request(h)
  \/ \E t \in Tasks, ev \in ClientEvents : TaskEvent(t, ev)
  \/ Crash

Spec == Init /\ [][Next]_vars

-----------------------------------------------------------------------------
(***************************************************************************)
(* Properties.                                                             *)
(***************************************************************************)
Disjoint(t, u) ==
  held[t].repo = held[u].repo =>
    \A p \in held[t].paths, q \in held[u].paths : ~Overlaps(p, q)

\* Two live tasks never hold overlapping write scopes in one repo bucket, however
\* their admissions interleave, fail or crash, as long as neither was parked.
WriteScopesDisjoint ==
  \A t, u \in Tasks :
    /\ t # u /\ {state[t], state[u]} \subseteq ActiveStates
    /\ {t, u} \cap waited = {}
    => Disjoint(t, u)

\* "No partial reservation": a child whose admission was undone holds no scope, also
\* if a client stopped it half-way, and no refused task can run again.  It is over,
\* unless clients brought it to review meanwhile, where no cancellation is accepted.
RefusedHoldsNothing ==
  \A t \in refused :
    /\ state[t] \in Terminal \cup {"ready_for_review"}
    /\ parent[t] # NoTask => held[t].paths = {}

\* A parent never has more than MaxChildren active children, except that threads
\* which pass the check together may add one each: the check and the queueing of
\* the child are steps apart.
ChildrenBounded ==
  \A p \in Tasks :
    Cardinality(ActiveChildren(p)) <=
      MaxChildren + IF p \in raced THEN Cardinality(Handlers) - 1 ELSE 0

\* "Exactly one child exists per key" in the fleet: across retries, concurrent
\* retries, journal errors and restarts no two nodes carry one key.
OneNodePerKey ==
  \A t, u \in Tasks :
    node[t].key # NoKey /\ node[t].key = node[u].key => t = u
=============================================================================
