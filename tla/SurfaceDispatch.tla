-------------------------- MODULE SurfaceDispatch --------------------------
(***************************************************************************)
(* The dispatch of surface requests (core-runtime/surface.rs: handle and   *)
(* dispatch): one request in, one response out, for clients served at the  *)
(* same time by threads that share the store.                              *)
(*                                                                         *)
(* Every command and every query takes the store's lock for itself, so a   *)
(* request is a sequence of steps between which other clients' steps fall. *)
(* The signals of SteerTask, PauseTask and StopTask are in Scheduler, the  *)
(* steps inside spawn_agent and the write scopes in AgentAdmission, and    *)
(* the review, browser, settings and checkpoint requests in the modules    *)
(* of those parts; here each of them is one step.                          *)
(***************************************************************************)
EXTENDS TaskLifecycle, FiniteSets

CONSTANTS Clients,      \* connections being served
          Menus,        \* bound: sets of requests that are tried with each other
          Output,       \* length of a stored tool output
          MaxPage,      \* MAX_PAGE of read_output_ref
          MaxChildren,  \* MODBIT_MAX_CHILD_AGENTS
          MaxTasks,     \* bound: tasks minted
          Named,        \* bound: task ids asked for
          Counts,       \* bound: variants or bytes asked for
          MaxRequests,  \* bound: requests
          MaxCosts,     \* bound: costs recorded
          MaxFaults     \* bound: failing store calls

VARIABLES menu,     \* the requests of this behaviour
          tasks,    \* the tasks projection; the index is the task id
          approval, \* state of the one approval
          costs,    \* run_cost_recorded events: tasks they name
          req,      \* per client: the request being served
          answer,   \* per client: the last response
          pages,    \* per client: bytes of the output it has read
          asked,    \* requests so far
          faults    \* store calls that failed

dispatchVars == <<menu, tasks, approval, costs, req, answer, pages, asked, faults>>

-----------------------------------------------------------------------------
(* Requests and the field of the response that answers each                *)

Lifecycle == [queue_task |-> "task_queued", start_task |-> "task_started",
              task_ready_for_review |-> "task_ready_for_review",
              complete_task |-> "task_completed", stop_task |-> "task_cancelled"]

\* The requests that a query answers ...
Reads == [get_code_view |-> {"code_view"}, get_fleet |-> {"fleet"},
          list_recent_repos |-> {"recent_repos"}, get_run_detail |-> {"run_detail"},
          get_diff |-> {"diff"}, list_pending_approvals |-> {"pending_approvals"},
          list_automations |-> {"automations"}]

\* ... and those that are one call of another part, whose result they carry.
Calls == [spawn_agent |-> {"task"}, park_agent |-> {"task"}, resume_agent |-> {"task"},
          agent_result |-> {"agent_result"}, create_automation |-> {},
          add_review_comment |-> {}, get_review_checklist |-> {"review_checklist"},
          get_browser_view |-> {"browser_view"}, set_browser_lease |-> {"browser_view"},
          import_checkpoint |-> {"checkpoint_attach"}, register_repo |-> {"repo"},
          get_settings |-> {"settings"}, update_settings |-> {"settings"},
          get_diff_hunks |-> {"diff_hunks"}, resolve_review_hunk |-> {}]

Field ==
  [k \in DOMAIN Lifecycle \cup DOMAIN Reads \cup DOMAIN Calls \cup
         {"create_task", "run_variants", "approve_effect", "deny_effect", "get_task_events",
          "get_run_cost", "read_output_ref", "none"} |->
     CASE k \in DOMAIN Reads -> Reads[k]
       [] k \in DOMAIN Calls -> Calls[k]
       [] k \in {"approve_effect", "deny_effect"} -> {}
       [] k = "get_task_events" -> {"task_events"}
       [] k = "get_run_cost" -> {"run_costs"}
       [] k = "read_output_ref" -> {"output_chunk"}
       [] OTHER -> {"task"}]

Idle == [at |-> "idle", kind |-> "none", task |-> 0, n |-> 0, i |-> 0, gen |-> 0]
Silent == [has |-> FALSE, ok |-> FALSE, kind |-> "none", fields |-> {}, task |-> 0, gen |-> 0,
           need |-> 0, state |-> "none", n |-> 0, i |-> 0]

Ids == 1..Len(tasks)
ChildrenOf(u) == {t \in Ids : tasks[t].parent = u}
Live == {"queued", "running", "ready_for_review", "waiting"}

NewTask(parent, key, state, generation) ==
  [state |-> state, gen |-> generation, parent |-> parent, key |-> key]

\* An event on the task's stream, and its row.
Moved(x, ev) == NewTask(x.parent, x.key, StateAfter(x.state, ev), x.gen + 1)

Init ==
  /\ menu \in Menus
  /\ \E first \in {NewTask(0, <<>>, "created", 1), NewTask(0, <<>>, "running", 3)} : tasks = <<first>>
  /\ approval = [state |-> "pending", by |-> {}]
  /\ costs = <<>>
  /\ req = [c \in Clients |-> Idle]
  /\ answer = [c \in Clients |-> Silent]
  /\ pages = [c \in Clients |-> 0]
  /\ asked = 0 /\ faults = 0

\* A frame arrives.  One that does not decode, or carries no request, is "none".
Ask(c, kind, t, n) ==
  /\ req[c].at = "idle" /\ asked < MaxRequests
  /\ asked' = asked + 1
  /\ req' = [req EXCEPT ![c] = [at |-> "start", kind |-> kind, task |-> t, n |-> n, i |-> 0, gen |-> 0]]
  /\ answer' = [answer EXCEPT ![c] = Silent]
  /\ UNCHANGED <<menu, tasks, approval, costs, pages, faults>>

Respond(c, a) ==
  /\ req' = [req EXCEPT ![c] = Idle]
  /\ answer' = [answer EXCEPT ![c] = a]

Ok(c)      == [Silent EXCEPT !.has = TRUE, !.ok = TRUE, !.kind = req[c].kind,
                             !.fields = Field[req[c].kind], !.n = req[c].n, !.i = req[c].i,
                             !.need = req[c].gen]
Refused(c) == [Silent EXCEPT !.has = TRUE, !.kind = req[c].kind, !.task = req[c].task,
                             !.n = req[c].n, !.i = req[c].i]

\* The request goes on, at a place, with what it knows by now.
GoOn(c, place, t, i, g) ==
  req' = [req EXCEPT ![c] = [at |-> place, kind |-> req[c].kind, task |-> t, n |-> req[c].n, i |-> i, gen |-> g]]

At(c, place) == req[c].at = place
Starts(c, kinds) == At(c, "start") /\ req[c].kind \in kinds

\* A frame that is no request.
Handle(c) ==
  /\ Starts(c, {"none"})
  /\ Respond(c, Refused(c))
  /\ UNCHANGED <<menu, tasks, approval, costs, pages, asked, faults>>

\* A store call of the request fails: its error is the answer.  What the request
\* did before stays.  run_costs has no error: its failed query answers nothing.
Fails(c) ==
  /\ faults < MaxFaults /\ ~At(c, "idle") /\ ~At(c, "undo") /\ ~Starts(c, {"none"})
  /\ faults' = faults + 1
  /\ IF Starts(c, {"get_run_cost"}) THEN Respond(c, Ok(c))
     ELSE IF At(c, "view") THEN Respond(c, [Ok(c) EXCEPT !.fields = {}])
     ELSE Respond(c, Refused(c))
  /\ UNCHANGED <<menu, tasks, approval, costs, pages, asked>>

-----------------------------------------------------------------------------
(* Lifecycle commands                                                      *)

\* The command of one event; its refusal is the answer.  An id that does not
\* parse becomes a fresh one, which names no task.
Apply(c) ==
  /\ Starts(c, DOMAIN Lifecycle)
  /\ LET t  == req[c].task
         ev == Lifecycle[req[c].kind]
     IN  IF t \in Ids /\ tasks[t].state \in AcceptedFrom(ev)
         THEN /\ tasks' = [tasks EXCEPT ![t] = Moved(tasks[t], ev)]
              /\ GoOn(c, "view", t, 0, tasks[t].gen + 1)
              /\ UNCHANGED answer
         ELSE Respond(c, Refused(c)) /\ UNCHANGED tasks
  /\ UNCHANGED <<menu, approval, costs, pages, asked, faults>>

\* lifecycle_response, create_task and run_variants end with task_view.
View(c) ==
  /\ At(c, "view")
  /\ LET t == req[c].task
     IN  Respond(c, [Ok(c) EXCEPT !.task = t, !.gen = tasks[t].gen, !.state = tasks[t].state])
  /\ UNCHANGED <<menu, tasks, approval, costs, pages, asked, faults>>

-----------------------------------------------------------------------------
(* CreateTask                                                              *)

Mint(c) ==
  /\ Starts(c, {"create_task"}) /\ Len(tasks) < MaxTasks
  /\ tasks' = Append(tasks, NewTask(0, <<>>, "created", 1))
  /\ GoOn(c, "acquire", Len(tasks) + 1, 0, 1)
  /\ UNCHANGED <<menu, approval, costs, answer, pages, asked, faults>>

\* The write scope: granted, or denied, or the coordinator fails.
Acquire(c, granted) ==
  /\ At(c, "acquire")
  /\ GoOn(c, IF granted THEN "view" ELSE "undo", req[c].task, 0, req[c].gen)
  /\ UNCHANGED <<menu, tasks, approval, costs, answer, pages, asked, faults>>

\* Mutant: a denied scope is answered without cancelling the task.
CancelMintedNot(c, works) ==
  /\ At(c, "undo") /\ works
  /\ Respond(c, Refused(c))
  /\ UNCHANGED <<menu, tasks, approval, costs, pages, asked, faults>>

\* A denied scope cancels the minted task; an error of that command is dropped.
CancelMinted(c, works) ==
  /\ At(c, "undo")
  /\ works \/ faults < MaxFaults
  /\ LET t == req[c].task IN
     tasks' = IF works /\ tasks[t].state \in AcceptedFrom("task_cancelled")
              THEN [tasks EXCEPT ![t] = Moved(tasks[t], "task_cancelled")] ELSE tasks
  /\ faults' = IF works THEN faults ELSE faults + 1
  /\ Respond(c, Refused(c))
  /\ UNCHANGED <<menu, approval, costs, pages, asked>>

-----------------------------------------------------------------------------
(* RunVariants                                                             *)

\* The objective and the count are checked, then the umbrella task is minted.
Umbrella(c) ==
  /\ Starts(c, {"run_variants"})
  /\ IF req[c].n < 2 \/ req[c].n > 4
     THEN Respond(c, Refused(c)) /\ UNCHANGED tasks
     ELSE /\ Len(tasks) < MaxTasks
          /\ tasks' = Append(tasks, NewTask(0, <<>>, "created", 1))
          /\ GoOn(c, "spawn", Len(tasks) + 1, 0, 1)
          /\ UNCHANGED answer
  /\ UNCHANGED <<menu, approval, costs, pages, asked, faults>>

\* spawn_agent of a parent: the child admitted under the key, or a new one,
\* unless the parent ended or has its number of active children.
Admits(u) ==
  /\ tasks[u].state \notin Terminal
  /\ Cardinality({t \in ChildrenOf(u) : tasks[t].state \in Live}) < MaxChildren

\* The idempotency key of variant i.
VariantKey(u, i) == <<u, i>>

SpawnVariant(c) ==
  /\ At(c, "spawn") /\ req[c].i < req[c].n
  /\ LET u    == req[c].task
         key  == VariantKey(u, req[c].i + 1)
         same == {t \in Ids : tasks[t].key = key}
     IN  \/ /\ same # {} \/ (Admits(u) /\ Len(tasks) < MaxTasks)
            /\ tasks' = IF same # {} THEN tasks
                        ELSE Append(tasks, NewTask(u, key, "running", 3))
            /\ GoOn(c, "spawn", u, req[c].i + 1, req[c].gen)
            /\ UNCHANGED answer
         \/ /\ same = {} /\ ~Admits(u)
            /\ Respond(c, Refused(c))
            /\ UNCHANGED tasks
  /\ UNCHANGED <<menu, approval, costs, pages, asked, faults>>

Spawned(c) ==
  /\ At(c, "spawn") /\ req[c].i = req[c].n
  /\ GoOn(c, "view", req[c].task, req[c].i, req[c].gen)
  /\ UNCHANGED <<menu, tasks, approval, costs, answer, pages, asked, faults>>

-----------------------------------------------------------------------------
(* ApproveEffect and DenyEffect                                            *)

\* approvals::resolve touches a pending row only; the history keeps who did.
Resolve(c) ==
  /\ Starts(c, {"approve_effect", "deny_effect"})
  /\ IF approval.state = "pending"
     THEN /\ approval' = [state |-> req[c].kind, by |-> approval.by \cup {asked}]
          /\ Respond(c, Ok(c))
     ELSE Respond(c, Refused(c)) /\ UNCHANGED approval
  /\ UNCHANGED <<menu, tasks, costs, pages, asked, faults>>

-----------------------------------------------------------------------------
(* Reads                                                                   *)

\* A query or a call: what it found, or its refusal.
Read(c, found) ==
  /\ Starts(c, DOMAIN Reads \cup DOMAIN Calls)
  /\ Respond(c, IF found THEN Ok(c) ELSE Refused(c))
  /\ UNCHANGED <<menu, tasks, approval, costs, pages, asked, faults>>

\* task_events: a stream without events is an unknown task, and then the stream
\* is loaded, by another query.
Exists(c) ==
  /\ Starts(c, {"get_task_events"})
  /\ IF req[c].task \in Ids
     THEN /\ GoOn(c, "load", req[c].task, 0, tasks[req[c].task].gen)
          /\ UNCHANGED answer
     ELSE Respond(c, Refused(c))
  /\ UNCHANGED <<menu, tasks, approval, costs, pages, asked, faults>>

\* The envelopes of the stream; the last is of the task's generation.
Load(c) ==
  /\ At(c, "load")
  /\ Respond(c, [Ok(c) EXCEPT !.task = req[c].task, !.gen = tasks[req[c].task].gen,
                              !.state = tasks[req[c].task].state])
  /\ UNCHANGED <<menu, tasks, approval, costs, pages, asked, faults>>

\* A run records its cost.
RecordCost(t) ==
  /\ t \in Ids /\ Len(costs) < MaxCosts
  /\ costs' = Append(costs, t)
  /\ UNCHANGED <<menu, tasks, approval, req, answer, pages, asked, faults>>

\* run_costs: the records that name the task.
CostsOf(t) == Cardinality({i \in DOMAIN costs : costs[i] = t})

RunCosts(c) ==
  /\ Starts(c, {"get_run_cost"})
  /\ Respond(c, [Ok(c) EXCEPT !.task = req[c].task, !.n = CostsOf(req[c].task)])
  /\ UNCHANGED <<menu, tasks, approval, costs, pages, asked, faults>>

\* read_output_range, the page cut at MAX_PAGE.
Range(offset, max) ==
  LET least(a, b) == IF a < b THEN a ELSE b
  IN  [from |-> least(offset, Output), to |-> least(offset + least(max, MaxPage), Output)]

\* A client asks for the page after what it has and appends what it gets.
ReadOutputRef(c) ==
  /\ Starts(c, {"read_output_ref"})
  /\ LET page == Range(pages[c], req[c].n)
     IN  /\ pages' = [pages EXCEPT ![c] = IF page.from = pages[c] THEN page.to ELSE pages[c]]
         /\ Respond(c, [Ok(c) EXCEPT !.n = page.to, !.i = page.from])
  /\ UNCHANGED <<menu, tasks, approval, costs, asked, faults>>

-----------------------------------------------------------------------------

Next ==
  \/ \E c \in Clients, k \in menu, t \in Named, n \in Counts :
       /\ k \in {"run_variants", "read_output_ref"} \/ n = 1
       /\ k \in DOMAIN Lifecycle \cup {"get_task_events", "get_run_cost"} \/ t = 0
       /\ Ask(c, k, t, n)
  \/ \E c \in Clients :
       \/ Handle(c) \/ Fails(c) \/ Apply(c) \/ View(c) \/ Mint(c)
       \/ Umbrella(c) \/ SpawnVariant(c) \/ Spawned(c) \/ Resolve(c)
       \/ Exists(c) \/ Load(c) \/ RunCosts(c) \/ ReadOutputRef(c)
       \/ \E b \in BOOLEAN : Acquire(c, b) \/ CancelMinted(c, b) \/ Read(c, b)
  \/ \E t \in Ids : "get_run_cost" \in menu /\ RecordCost(t)

DispatchSpec == Init /\ [][Next]_dispatchVars

-----------------------------------------------------------------------------
(* Properties                                                              *)

\* An answer fits its request: an ok one carries the fields of its kind (the
\* view alone may be missing, when its query failed), a refusal carries none.
AnswersFit ==
  \A c \in Clients :
    LET a == answer[c] IN
    a.has => a.fields = (IF a.ok THEN Field[a.kind] ELSE {}) \/ (faults > 0 /\ a.fields = {})

\* A task is never shown older than the command that is answered, nor in a
\* generation or a state it does not have yet.
ViewsCurrent ==
  \A c \in Clients :
    /\ At(c, "view") => tasks[req[c].task].gen >= req[c].gen
    /\ answer[c].ok /\ answer[c].task # 0 /\ answer[c].kind # "get_run_cost" =>
         LET a == answer[c] IN
         /\ a.gen <= tasks[a.task].gen
         /\ a.gen = tasks[a.task].gen => a.state = tasks[a.task].state
         /\ a.gen >= a.need

\* Of decisions on one approval only one is answered with ok.
OneDecision ==
  /\ Cardinality(approval.by) <= 1
  /\ approval.state = "pending" <=> approval.by = {}

\* A refused create_task leaves no task that could still run, unless a store
\* call failed or somebody else drove it beyond cancelling.
RefusedCreatesNothing ==
  \A c \in Clients :
    LET a == answer[c] IN
    a.has /\ a.kind = "create_task" /\ ~a.ok /\ faults = 0 =>
      tasks[a.task].state \in Terminal \cup {"ready_for_review"}

\* A run_variants answered with ok has admitted each of its variants once; one
\* that was refused at a variant has admitted exactly the ones before it.
VariantsCounted ==
  \A c \in Clients :
    LET a == answer[c]
        u == a.task
    IN  a.has /\ a.kind = "run_variants" /\ u # 0 /\ (a.ok => a.fields # {}) =>
          /\ Cardinality(ChildrenOf(u)) = a.i
          /\ {tasks[t].key[2] : t \in ChildrenOf(u)} = 1..a.i
          /\ a.ok => a.i = a.n

\* The pages a client reads join up to the output, and none is empty before its
\* end.
PagesJoin ==
  \A c \in Clients :
    /\ pages[c] <= Output
    /\ answer[c].ok /\ answer[c].kind = "read_output_ref" =>
         answer[c].i < answer[c].n \/ answer[c].n = Output

\* The costs answered are those recorded for the task, however many came since.
CostsMine ==
  \A c \in Clients :
    LET a == answer[c] IN
    a.ok /\ a.kind = "get_run_cost" /\ a.task # 0 =>
      a.n <= CostsOf(a.task)

\* All of it together, about CoreServices::handle and dispatch.
DispatchSound ==
  AnswersFit /\ ViewsCurrent /\ OneDecision /\ RefusedCreatesNothing /\ VariantsCounted
    /\ PagesJoin /\ CostsMine

\* surface.rs, run_variants: "a replayed run_variants re-attaches the
\* already-admitted variants instead of doubling".  A client whose answer was
\* lost repeats its request; there is one objective here, so all are the same.
ReplayReattaches ==
  \A t, u \in Ids : tasks[t].key # <<>> /\ tasks[u].key # <<>> /\ t # u =>
    tasks[t].key[2] # tasks[u].key[2]

=============================================================================
