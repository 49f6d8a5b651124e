----------------------------- MODULE Scheduler -----------------------------
(***************************************************************************)
(* The run scheduler of crates/core-runtime: a core boots, resumes the     *)
(* tasks it finds running, then tails the store for task_started and runs  *)
(* each task once, turn by turn (one_agent.rs), while clients of the       *)
(* surface start, stop, pause and steer tasks, providers and worktree      *)
(* allocations fail, cores crash, and a second core may work on the same   *)
(* store.                                                                  *)
(*                                                                         *)
(* The store is seen through the commands a core sends it: a command is    *)
(* one transaction and is applied exactly when the task state machine      *)
(* accepts its event (EventStore).  All tasks belong to one session, so    *)
(* all runs compete for one lease.  Prompts, tool arguments, costs and the *)
(* context pack are left out.                                              *)
(***************************************************************************)
EXTENDS TaskLifecycle, FiniteSets

CONSTANTS
  Tasks, Cores,
  Requests,     \* what clients ask for
  Faults,       \* what may go wrong: see FaultKinds
  NoRun,
  MaxTurns,     \* max_turns of the configuration
  MaxRequests,  \* bound: client requests
  MaxStarts,    \* bound: task_started events of a task
  MaxCrashes    \* bound: crashes of a core

RequestKinds == {"start", "stop", "pause", "steer", "review"}
FaultKinds   == {"allocation",  \* of a worktree, for a run of the tail loop
                 "resume",      \* the same, for a run of the boot scan
                 "lease", "provider"}

ASSUME SchedulerBounds ==
  /\ MaxTurns \in Nat \ {0} /\ MaxRequests \in Nat
  /\ MaxStarts \in Nat /\ MaxCrashes \in Nat
ASSUME SchedulerKinds == Requests \subseteq RequestKinds /\ Faults \subseteq FaultKinds

VARIABLES
  state,     \* durable: the state of each task
  started,   \* durable: the task_started rows of the events table, in order
  runLog,    \* durable: run_started, run_completed and run_failed of a task's runs
  leaseGen,  \* durable: generation of the session lease
  core,      \* per core: "down", "boot" (resuming) or "tail"
  todo,      \* per core: interrupted tasks still to resume
  offset,    \* per core: task_started rows already handled
  run,       \* per core: the run its scheduler thread executes
  notes,     \* per core: tasks with a steer note in the outbox
  handlers,  \* per core: requests that signalled a run, command still to come
  requests, crashes

durable == <<state, started, runLog, leaseGen>>
bounds  == <<requests, crashes>>
vars    == <<durable, core, todo, offset, run, notes, handlers, bounds>>

\* Where a run is, from the claim to the transition of its task.
Registered == {"registered", "leased", "boundary", "prepared", "checked",
               "streaming", "tools", "ended"}
Places     == Registered \cup {"claimed", "finished", "errored"}
Outcomes   == {"none", "completed", "exhausted", "cancelled", "paused", "error"}
RunEvents  == {"fresh_started", "resume_started", "completed", "failed"}

\* in_flight and the control registry are read off the run: a core has at most
\* one, it is claimed while it exists and registered while at a Registered place.
\* `late' counts the turns begun after a stop or after the lease was lost.
Run == [task : Tasks, path : {"boot", "tail"}, at : Places, turn : 0..MaxTurns,
        cancelled : BOOLEAN, paused : BOOLEAN, gen : Nat, outcome : Outcomes,
        late : Nat]

ASSUME SchedulerIds == NoRun \notin Run

TypeOK ==
  /\ state \in [Tasks -> TaskStates]
  /\ started \in Seq(Tasks)
  /\ runLog \in [Tasks -> Seq(RunEvents)]
  /\ leaseGen \in Nat
  /\ core \in [Cores -> {"down", "boot", "tail"}]
  /\ todo \in [Cores -> SUBSET Tasks]
  /\ offset \in [Cores -> 0..Len(started)]
  /\ run \in [Cores -> Run \cup {NoRun}]
  /\ notes \in [Cores -> SUBSET Tasks]
  /\ handlers \in [Cores -> SUBSET ({"stop", "pause", "steer"} \X Tasks)]
  /\ requests \in 0..MaxRequests /\ crashes \in 0..MaxCrashes

Init ==
  /\ state = [t \in Tasks |-> "queued"]
  /\ started = <<>>
  /\ runLog = [t \in Tasks |-> <<>>]
  /\ leaseGen = 0
  /\ core = [c \in Cores |-> "down"]
  /\ todo = [c \in Cores |-> {}]
  /\ offset = [c \in Cores |-> 0]
  /\ run = [c \in Cores |-> NoRun]
  /\ notes = [c \in Cores |-> {}]
  /\ handlers = [c \in Cores |-> {}]
  /\ requests = 0 /\ crashes = 0

-----------------------------------------------------------------------------
(***************************************************************************)
(* Commands and run-plane appends.                                         *)
(***************************************************************************)
Accepts(t, ev) == state[t] \in AcceptedFrom(ev)

Apply(t, ev) ==
  state' = IF Accepts(t, ev) THEN [state EXCEPT ![t] = StateAfter(@, ev)] ELSE state

\* Mutant: only a run that ended counts.
HasEndedRun(t) == \E i \in DOMAIN runLog[t] : runLog[t][i] \in {"completed", "failed"}

HasRun(t) ==
  \E i \in DOMAIN runLog[t] : runLog[t][i] \in {"fresh_started", "resume_started"}

\* gen 0: the lease could not be acquired and the run writes unfenced.
Stale(r) == r.gen # 0 /\ r.gen # leaseGen

\* Mutant: a refused row does not cancel the run.
AppendRunOn(c, evs, r) ==
  /\ runLog' = IF Stale(r) THEN runLog ELSE [runLog EXCEPT ![r.task] = @ \o evs]
  /\ run' = [run EXCEPT ![c] = r]

\* append_fenced: a stale lease refuses the rows and flips the run's cancel token.
AppendRun(c, evs, r) ==
  /\ runLog' = IF Stale(r) THEN runLog ELSE [runLog EXCEPT ![r.task] = @ \o evs]
  /\ run' = [run EXCEPT ![c] = [r EXCEPT !.cancelled = @ \/ Stale(r)]]

At(c, place) == run[c] # NoRun /\ run[c].at = place

-----------------------------------------------------------------------------
(***************************************************************************)
(* The scheduler thread of a core.                                         *)
(***************************************************************************)
Claim(c, t, path) ==
  run' = [run EXCEPT ![c] =
            [task |-> t, path |-> path, at |-> "claimed", turn |-> 0,
             cancelled |-> FALSE, paused |-> FALSE, gen |-> 0,
             outcome |-> "none", late |-> 0]]

\* Mutant: no boot scan.
BootBlind(c) ==
  /\ core[c] = "down"
  /\ core' = [core EXCEPT ![c] = "boot"]
  /\ offset' = [offset EXCEPT ![c] = 0]
  /\ UNCHANGED <<durable, todo, run, notes, handlers, bounds>>

\* Scheduler::spawn: nothing in memory survives; interrupted_tasks is read once.
Boot(c) ==
  /\ core[c] = "down"
  /\ core' = [core EXCEPT ![c] = "boot"]
  /\ todo' = [todo EXCEPT ![c] = {t \in Tasks : state[t] = "running"}]
  /\ offset' = [offset EXCEPT ![c] = 0]
  /\ UNCHANGED <<durable, run, notes, handlers, bounds>>

ResumeTask(c, t) ==
  /\ core[c] = "boot" /\ run[c] = NoRun /\ t \in todo[c]
  /\ todo' = [todo EXCEPT ![c] = @ \ {t}]
  /\ Claim(c, t, "boot")
  /\ UNCHANGED <<durable, core, offset, notes, handlers, bounds>>

StartTailing(c) ==
  /\ core[c] = "boot" /\ run[c] = NoRun /\ todo[c] = {}
  /\ core' = [core EXCEPT ![c] = "tail"]
  /\ UNCHANGED <<durable, todo, offset, run, notes, handlers, bounds>>

\* run_task for the next task_started row: skipped when the task has a run.
RunTask(c) ==
  /\ core[c] = "tail" /\ run[c] = NoRun /\ offset[c] < Len(started)
  /\ offset' = [offset EXCEPT ![c] = @ + 1]
  /\ LET t == started[offset[c] + 1]
     IN  IF HasRun(t) THEN UNCHANGED run ELSE Claim(c, t, "tail")
  /\ UNCHANGED <<durable, core, todo, notes, handlers, bounds>>

\* An Err of run_task_inner releases the claim.  The tail loop answers it with
\* FailTask; the boot loop only logs it.
Abort(c) ==
  run' = [run EXCEPT ![c] = IF @.path = "tail" THEN [@ EXCEPT !.at = "errored"] ELSE NoRun]

AllocationFails(c) ==
  /\ At(c, "claimed")
  /\ (IF run[c].path = "tail" THEN "allocation" ELSE "resume") \in Faults
  /\ Abort(c)
  /\ UNCHANGED <<durable, core, todo, offset, notes, handlers, bounds>>

FailAllocation(c) ==
  /\ At(c, "errored")
  /\ Apply(run[c].task, "task_failed")
  /\ run' = [run EXCEPT ![c] = NoRun]
  /\ UNCHANGED <<started, runLog, leaseGen, core, todo, offset, notes, handlers, bounds>>

\* From here on a stop or a pause finds the run's signal in the registry.
Register(c) ==
  /\ At(c, "claimed")
  /\ run' = [run EXCEPT ![c].at = "registered"]
  /\ UNCHANGED <<durable, core, todo, offset, notes, handlers, bounds>>

AcquireLease(c) ==
  /\ At(c, "registered")
  /\ \/ /\ leaseGen' = leaseGen + 1
        /\ run' = [run EXCEPT ![c] = [@ EXCEPT !.at = "leased", !.gen = leaseGen + 1]]
     \/ /\ "lease" \in Faults
        /\ run' = [run EXCEPT ![c].at = "leased"]
        /\ UNCHANGED leaseGen
  /\ UNCHANGED <<state, started, runLog, core, todo, offset, notes, handlers, bounds>>

RunStarted(c) ==
  /\ At(c, "leased")
  /\ AppendRun(c, <<IF run[c].path = "tail" THEN "fresh_started" ELSE "resume_started">>,
            [run[c] EXCEPT !.at = "boundary"])
  /\ UNCHANGED <<state, started, leaseGen, core, todo, offset, notes, handlers, bounds>>

-----------------------------------------------------------------------------
(***************************************************************************)
(* The turns of OneAgentRuntime::run.                                      *)
(***************************************************************************)
quiet == <<state, started, leaseGen, core, todo, offset, handlers, bounds>>

End(c, evs, outcome) ==
  AppendRun(c, evs, [run[c] EXCEPT !.at = "ended", !.outcome = outcome])

\* Mutant: the turn limit is off by one.
PrepareTurnOneMore(c) ==
  /\ At(c, "boundary")
  /\ IF run[c].turn > MaxTurns
     THEN End(c, <<"failed">>, "exhausted")
     ELSE AppendRun(c, <<>>, [run[c] EXCEPT !.at = "prepared", !.turn = @ + 1])
  /\ UNCHANGED <<quiet, notes>>

\* The top of the loop: out of turns, or turn_prepared.
PrepareTurn(c) ==
  /\ At(c, "boundary")
  /\ IF run[c].turn >= MaxTurns
     THEN End(c, <<"failed">>, "exhausted")
     ELSE AppendRun(c, <<>>, [run[c] EXCEPT !.at = "prepared", !.turn = @ + 1])
  /\ UNCHANGED <<quiet, notes>>

\* The control boundary: drain the notes, then stop before pause.
CheckControl(c) ==
  /\ At(c, "prepared")
  /\ notes' = [notes EXCEPT ![c] = @ \ {run[c].task}]
  /\ IF run[c].cancelled THEN End(c, <<"failed">>, "cancelled")
     ELSE IF run[c].paused THEN End(c, <<"failed">>, "paused")
     ELSE run' = [run EXCEPT ![c].at = "checked"] /\ UNCHANGED runLog
  /\ UNCHANGED quiet

\* After a possible compaction: model_invoke_started, then the stream.
InvokeModel(c) ==
  /\ At(c, "checked")
  /\ LET over == run[c].cancelled \/ Stale(run[c])
     IN  AppendRun(c, <<>>, [run[c] EXCEPT !.at = "streaming",
                                        !.late = IF over THEN @ + 1 ELSE @])
  /\ UNCHANGED <<quiet, notes>>

\* The stream fails: the error carries no event.
ProviderFails(c) ==
  /\ At(c, "streaming") /\ "provider" \in Faults
  /\ run' = [run EXCEPT ![c] = [@ EXCEPT !.at = "ended", !.outcome = "error"]]
  /\ UNCHANGED <<quiet, runLog, notes>>

\* Mutant: the transport polls the wrong flag.
StreamAbortedOnPause(c) ==
  /\ At(c, "streaming") /\ run[c].paused
  /\ run' = [run EXCEPT ![c] = [@ EXCEPT !.at = "ended", !.outcome = "error"]]
  /\ UNCHANGED <<quiet, runLog, notes>>

\* The transport polls the cancel token while it waits, and gives the stream up.
StreamAborted(c) ==
  /\ At(c, "streaming") /\ run[c].cancelled
  /\ run' = [run EXCEPT ![c] = [@ EXCEPT !.at = "ended", !.outcome = "error"]]
  /\ UNCHANGED <<quiet, runLog, notes>>

ModelAnswers(c) ==
  /\ At(c, "streaming")
  /\ End(c, <<"completed">>, "completed")
  /\ UNCHANGED <<quiet, notes>>

ModelCallsTools(c) ==
  /\ At(c, "streaming")
  /\ AppendRun(c, <<>>, [run[c] EXCEPT !.at = "tools"])
  /\ UNCHANGED <<quiet, notes>>

\* Every call of the turn is answered, then the conversation is checkpointed.
ExecuteTools(c) ==
  /\ At(c, "tools")
  /\ AppendRun(c, <<>>, [run[c] EXCEPT !.at = "boundary"])
  /\ UNCHANGED <<quiet, notes>>

\* RunControls::finish, before the task is transitioned.
FinishRun(c) ==
  /\ At(c, "ended")
  /\ run' = [run EXCEPT ![c].at = "finished"]
  /\ UNCHANGED <<quiet, runLog, notes>>

\* Mutant: running out of turns counts as completion.
OutcomeEventLenient(r) ==
  CASE r.outcome \in {"completed", "exhausted"} -> "task_ready_for_review"
    [] r.outcome = "error" /\ ~r.cancelled -> "task_waiting"
    [] OTHER -> None

\* The event the outcome of a run calls for, if any.
OutcomeEvent(r) ==
  CASE r.outcome = "completed" -> "task_ready_for_review"
    [] r.outcome = "exhausted" -> "task_failed"
    [] r.outcome = "error" /\ ~r.cancelled -> "task_waiting"
    [] OTHER -> None

TransitionTask(c) ==
  /\ At(c, "finished")
  /\ LET t == run[c].task
         ev == OutcomeEvent(run[c])
     IN  IF ev = None
         THEN run' = [run EXCEPT ![c] = NoRun] /\ UNCHANGED state
         ELSE /\ Apply(t, ev)
              /\ IF Accepts(t, ev) THEN run' = [run EXCEPT ![c] = NoRun] ELSE Abort(c)
  /\ UNCHANGED <<started, runLog, leaseGen, core, todo, offset, notes, handlers, bounds>>

-----------------------------------------------------------------------------
(***************************************************************************)
(* The surface.  Stop, pause and steer first touch the memory of the core  *)
(* they arrive at, then send their command; start sends only a command.    *)
(***************************************************************************)
Signal(c, t, field) ==
  IF run[c] # NoRun /\ run[c].task = t /\ run[c].at \in Registered
  THEN run' = [run EXCEPT ![c] = [run[c] EXCEPT !.cancelled = @ \/ field = "stop",
                                                !.paused = @ \/ field = "pause"]]
  ELSE UNCHANGED run

Request(c, kind) ==
  /\ core[c] # "down" /\ kind \in Requests
  /\ requests < MaxRequests /\ requests' = requests + 1

Ask(c, t, kind) ==
  /\ Request(c, kind)
  /\ <<kind, t>> \notin handlers[c]
  /\ handlers' = [handlers EXCEPT ![c] = @ \cup {<<kind, t>>}]
  /\ UNCHANGED <<durable, core, todo, offset, crashes>>

StopTask(c, t)  == Ask(c, t, "stop") /\ Signal(c, t, "stop") /\ UNCHANGED notes
PauseTask(c, t) == Ask(c, t, "pause") /\ Signal(c, t, "pause") /\ UNCHANGED notes
SteerTask(c, t) ==
  /\ Ask(c, t, "steer")
  /\ notes' = [notes EXCEPT ![c] = @ \cup {t}]
  /\ UNCHANGED run

CommandOf(kind) ==
  CASE kind = "stop"  -> "task_cancelled"
    [] kind = "pause" -> "task_waiting"
    [] kind = "steer" -> "task_steered"

SendCommand(c, kind, t) ==
  /\ <<kind, t>> \in handlers[c]
  /\ handlers' = [handlers EXCEPT ![c] = @ \ {<<kind, t>>}]
  /\ Apply(t, CommandOf(kind))
  /\ UNCHANGED <<started, runLog, leaseGen, core, todo, offset, run, notes, bounds>>

\* Start a queued task, or resume a waiting one.
StartTask(c, t) ==
  /\ Request(c, "start")
  /\ Cardinality({i \in DOMAIN started : started[i] = t}) < MaxStarts
  /\ Accepts(t, "task_started")
  /\ Apply(t, "task_started")
  /\ started' = Append(started, t)
  /\ UNCHANGED <<runLog, leaseGen, core, todo, offset, run, notes, handlers, crashes>>

\* A client hands the task to review itself.
ReadyForReview(c, t) ==
  /\ Request(c, "review")
  /\ Apply(t, "task_ready_for_review")
  /\ UNCHANGED <<started, runLog, leaseGen, core, todo, offset, run, notes, handlers, crashes>>

\* The process dies between any two steps, its connections with it.
Crash(c) ==
  /\ core[c] # "down" /\ crashes < MaxCrashes
  /\ crashes' = crashes + 1
  /\ core' = [core EXCEPT ![c] = "down"]
  /\ todo' = [todo EXCEPT ![c] = {}]
  /\ run' = [run EXCEPT ![c] = NoRun]
  /\ notes' = [notes EXCEPT ![c] = {}]
  /\ handlers' = [handlers EXCEPT ![c] = {}]
  /\ UNCHANGED <<durable, offset, requests>>

\* What the provider decides, and what the scheduler thread does by itself.
ProviderStep(c) == ProviderFails(c) \/ ModelAnswers(c) \/ ModelCallsTools(c)

ThreadStep(c) ==
  \/ StartTailing(c) \/ RunTask(c) \/ AllocationFails(c) \/ FailAllocation(c)
  \/ Register(c) \/ AcquireLease(c) \/ RunStarted(c) \/ PrepareTurn(c)
  \/ CheckControl(c) \/ InvokeModel(c) \/ StreamAborted(c)
  \/ ExecuteTools(c) \/ FinishRun(c) \/ TransitionTask(c)
  \/ \E t \in Tasks : ResumeTask(c, t)

Handler(c) == \E t \in Tasks, kind \in {"stop", "pause", "steer"} : SendCommand(c, kind, t)

Next ==
  \E c \in Cores :
    \/ Boot(c) \/ Crash(c) \/ ThreadStep(c) \/ ProviderStep(c) \/ Handler(c)
    \/ \E t \in Tasks : \/ StartTask(c, t) \/ StopTask(c, t) \/ PauseTask(c, t)
                         \/ SteerTask(c, t) \/ ReadyForReview(c, t)

Spec == Init /\ [][Next]_vars

(***************************************************************************)
(* Fairness.  A core that died is started again; the scheduler thread      *)
(* keeps going, because tools and approval waits have timeouts; a handler  *)
(* sends its command.  Clients owe nothing, and nor does the provider:     *)
(* StreamsEnd, which the request timeout gives, is an assumption of the    *)
(* properties that need it.                                                *)
(***************************************************************************)
FairSpec ==
  /\ Spec
  /\ \A c \in Cores : WF_vars(Boot(c)) /\ WF_vars(ThreadStep(c)) /\ WF_vars(Handler(c))

StreamsEnd == \A c \in Cores : WF_vars(ThreadStep(c) \/ ProviderStep(c))

-----------------------------------------------------------------------------
(***************************************************************************)
(* Properties.                                                             *)
(***************************************************************************)

\* "A task that already has a run is never re-run": whatever is replayed from the
\* start of the log after a crash, a fresh run is the first run of its task.
FreshRunIsFirst ==
  \A t \in Tasks : \A i, j \in DOMAIN runLog[t] :
    /\ j < i /\ runLog[t][j] \in {"fresh_started", "resume_started"}
    => runLog[t][i] # "fresh_started"

\* A scheduler hands a task to review only on a completion its run recorded, also
\* when the task was stopped, paused or resumed meanwhile.
ReviewFollowsCompletion ==
  [][\A c \in Cores, t \in Tasks :
       /\ At(c, "finished") /\ run'[c] # run[c]
       /\ state[t] # "ready_for_review" /\ state'[t] = "ready_for_review"
       => /\ run[c].task = t /\ runLog[t] # <<>>
          /\ runLog[t][Len(runLog[t])] = "completed"]_vars

\* A run that was stopped, or whose session another core took over, begins at most
\* the one turn whose boundary it had already passed.
StoppedRunIsBounded == \A c \in Cores : run[c] # NoRun => run[c].late <= 1

\* Every task that is running eventually leaves that state: its run ends and
\* transitions it, and a run that a crash cut short is resumed at boot.  Violated
\* with "resume" among the faults: the boot loop only logs the error.
RunningIsLeft ==
  StreamsEnd => \A t \in Tasks : state[t] = "running" ~> state[t] # "running"

\* A stop that reached a run ends it even if the provider stalls for good, so the
\* thread gets to its next task.
StopEndsRun ==
  \A c \in Cores : (run[c] # NoRun /\ run[c].cancelled) ~> run[c] = NoRun

\* "Abort the in-flight run at or before the next turn boundary" and otherwise "the
\* durable CancelTask command still applies": no run passes the control boundary
\* of a turn after its task was cancelled.
CancelledTaskGetsNoTurn ==
  [][\A c \in Cores : At(c, "prepared") /\ state[run[c].task] = "cancelled"
       => run'[c] = NoRun \/ run'[c].at # "checked"]_vars

\* "The task re-enters the scheduler via StartTask": a task that is running again
\* is executed by some core, or leaves the state.
ResumedTaskRuns ==
  StreamsEnd => \A t \in Tasks : state[t] = "running" ~>
    \/ state[t] # "running"
    \/ \E c \in Cores : run[c] # NoRun /\ run[c].task = t
=============================================================================
