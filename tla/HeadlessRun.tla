----------------------------- MODULE HeadlessRun -----------------------------
(***************************************************************************)
(* The command line of the headless core (core-runtime/bin/modbit.rs): one *)
(* `modbit run` that boots a core, or uses the daemon of MODBIT_DAEMON,    *)
(* drives a task to a state it takes for final and exits; and `modbit      *)
(* report` processes that write a diagnostics bundle from the same store   *)
(* (diagnostics.rs) while the core goes on committing.                     *)
(***************************************************************************)
EXTENDS Naturals

CONSTANTS Owned,        \* FALSE: MODBIT_DAEMON names a running daemon
          Reporters,    \* `modbit report` processes
          MaxEvents,    \* bound: events in the store
          Seconds,      \* times at which a report may start, the names of its directory
          MaxBad        \* bound: requests that fail or are answered with an error

VARIABLES cli,      \* the run command
          child,    \* the core it spawned
          task,     \* the state of its task in the store
          late,     \* the deadline of the run has passed
          events,   \* events committed
          rep,      \* per report process
          dirs,     \* per second: the bundle directory of that name
          bad,      \* requests that went wrong
          lives     \* history: tasks the command created, and whether its task started, was ready

cliVars == <<cli, child, task, late, events, rep, dirs, bad, lives>>

Statuses == {"none", "created", "queued", "running", "waiting", "ready", "completed",
             "failed", "cancelled"}
\* What the poll loop takes for the end of a run; `completed` is not among them.
Final == {"ready", "failed", "cancelled", "waiting"}
NoDir == [report |-> 0, recent |-> 0, sums |-> 0, problem |-> 0, users |-> 0]
Empty == [at |-> "start", second |-> 0, counted |-> 0, sha |-> 0, alone |-> TRUE]

Init ==
  /\ cli = [at |-> "boot", state |-> "none", code |-> 0]
  /\ child = IF Owned THEN "none" ELSE "serving"
  /\ task = "none" /\ late = FALSE
  /\ events = 0 /\ bad = 0
  /\ rep = [r \in Reporters |-> Empty]
  /\ dirs = [s \in Seconds |-> NoDir]
  /\ lives = [tasks |-> 0, started |-> FALSE, ready |-> FALSE]

-----------------------------------------------------------------------------
(* modbit run                                                              *)

\* main, spawn_core: a repository that is not there or a core that cannot be
\* started ends the command.
Spawn(works) ==
  /\ cli.at = "boot"
  /\ IF ~Owned THEN cli' = [cli EXCEPT !.at = "create"] /\ UNCHANGED child
     ELSE IF works THEN cli' = [cli EXCEPT !.at = "await"] /\ child' = "booting"
     ELSE cli' = [cli EXCEPT !.at = "exited", !.code = 1] /\ UNCHANGED child
  /\ UNCHANGED <<task, late, events, rep, dirs, bad, lives>>

\* The core comes up and prints its address and `ready`, or dies in its boot.
ChildBoots(works) ==
  /\ child = "booting"
  /\ child' = IF works THEN "serving" ELSE "dead"
  /\ UNCHANGED <<cli, task, late, events, rep, dirs, bad, lives>>

\* wait_for_daemon: `ready` or the end of stdout, then the address on stderr.
WaitForDaemon ==
  /\ cli.at = "await" /\ child \in {"serving", "dead"}
  /\ cli' = IF child = "serving" THEN [cli EXCEPT !.at = "create"]
            ELSE [cli EXCEPT !.at = "exited", !.code = 1]
  /\ UNCHANGED <<child, task, late, events, rep, dirs, bad, lives>>

\* finish_unreachable kills the core the command spawned.
Unreachable ==
  /\ cli' = [cli EXCEPT !.at = "exited", !.code = 1]
  /\ child' = IF Owned THEN "dead" ELSE child
  /\ UNCHANGED lives

\* An answer with ok = false exits without that kill.
Refused == cli' = [cli EXCEPT !.at = "exited", !.code = 1] /\ UNCHANGED <<child, lives>>

TaskIs(s) ==
  /\ task' = s
  /\ events' = IF events < MaxEvents THEN events + 1 ELSE events
  /\ lives' = [lives EXCEPT !.ready = lives.ready \/ s = "ready"]

\* run_task: one of create, queue, start.  The daemon does it or refuses it, and
\* the request may fail (timeout, status, unreadable answer) in either case.
Command(step, from, to, next, done, heard) ==
  /\ cli.at = step
  /\ (~done \/ ~heard) => bad < MaxBad /\ bad' = bad + 1
  /\ (done /\ heard) => UNCHANGED bad
  /\ IF done /\ task = from
     THEN /\ task' = to
          /\ events' = IF events < MaxEvents THEN events + 1 ELSE events
     ELSE UNCHANGED <<task, events>>
  /\ LET did == done /\ task = from
     IN  IF ~heard THEN Unreachable
         ELSE IF ~did THEN Refused
         ELSE /\ cli' = [cli EXCEPT !.at = next]
              /\ lives' = [tasks   |-> lives.tasks + (IF step = "create" THEN 1 ELSE 0),
                           started |-> lives.started \/ to = "running",
                           ready   |-> lives.ready]
              /\ UNCHANGED child
  /\ UNCHANGED <<late, rep, dirs>>

CreateTask(done, heard) == Command("create", "none", "created", "queue", done, heard)
QueueTask(done, heard)  == Command("queue", "created", "queued", "start", done, heard)
StartTask(done, heard)  == Command("start", "queued", "running", "poll", done, heard)

\* The scheduler, and any other surface of the same daemon, move the task.
Moves(from) ==
  CASE from = "running" -> {"waiting", "ready", "failed", "cancelled"}
    [] from = "waiting" -> {"running", "cancelled"}
    [] from = "ready"   -> {"completed", "running"}
    [] OTHER            -> {"cancelled"}

TaskMoves(s) ==
  /\ child = "serving" /\ task \notin {"none", "completed", "failed", "cancelled"}
  /\ events < MaxEvents /\ s \in Moves(task)
  /\ TaskIs(s)
  /\ UNCHANGED <<cli, child, late, rep, dirs, bad>>

\* Mutant: the loop leaves only on a final state.
PollStops(s) == s \in Final

\* A state seen in the fleet ends the loop when it is final or time is up.
PollEnds(s) == s \in Final \/ late

\* One GetFleet: unanswered ends the command, an error answer carries no fleet
\* and is polled again, deadline or not.
Poll(answer) ==
  /\ cli.at = "poll"
  /\ IF answer = "fleet" THEN UNCHANGED bad ELSE bad < MaxBad /\ bad' = bad + 1
  /\ CASE answer = "none"  -> Unreachable
       [] answer = "error" -> UNCHANGED <<cli, child, lives>>
       [] answer = "fleet" ->
            /\ cli' = IF PollEnds(task) THEN [cli EXCEPT !.at = "print", !.state = task]
                      ELSE [cli EXCEPT !.state = task]
            /\ UNCHANGED <<child, lives>>
  /\ UNCHANGED <<task, late, events, rep, dirs>>

\* Mutant: the exit code is read off a second look at the task.
OutcomeNow ==
  /\ cli.at = "print"
  /\ cli' = [cli EXCEPT !.at = "exited", !.code = IF task = "ready" THEN 0 ELSE 2]
  /\ child' = IF Owned THEN "dead" ELSE child
  /\ UNCHANGED <<task, late, events, rep, dirs, bad, lives>>

\* The outcome is printed, the spawned core killed, and 0 means ready for review.
Outcome ==
  /\ cli.at = "print"
  /\ cli' = [cli EXCEPT !.at = "exited", !.code = IF cli.state = "ready" THEN 0 ELSE 2]
  /\ child' = IF Owned THEN "dead" ELSE child
  /\ UNCHANGED <<task, late, events, rep, dirs, bad, lives>>

Deadline ==
  /\ cli.at = "poll" /\ ~late /\ late' = TRUE
  /\ UNCHANGED <<cli, child, task, events, rep, dirs, bad, lives>>

-----------------------------------------------------------------------------
(* modbit report                                                           *)

\* collect: the directory is named by the second and may exist; the counts are
\* read under one lock of the connection ...
Collect(r, second) ==
  /\ rep[r].at = "start"
  /\ rep' = [rep EXCEPT ![r] = [at |-> "write", second |-> second, counted |-> events, sha |-> 0,
                                 alone |-> TRUE]]
  /\ dirs' = [dirs EXCEPT ![second].users = dirs[second].users + 1]
  /\ UNCHANGED <<cli, child, task, late, events, bad, lives>>

\* ... and the recent events under another; report.json replaces an earlier one.
WriteReport(r) ==
  /\ rep[r].at = "write"
  /\ LET s == rep[r].second
     IN  dirs' = [dirs EXCEPT ![s] = [dirs[s] EXCEPT !.report = rep[r].counted, !.recent = events]]
  /\ rep' = [rep EXCEPT ![r].at = "hash"]
  /\ UNCHANGED <<cli, child, task, late, events, bad, lives>>

\* hash_dir covers every file that is in the directory by then.
Hash(d) == 1 + d.report + (MaxEvents + 1) * d.recent
             + (MaxEvents + 1) * (MaxEvents + 1) * (d.sums + d.problem)

HashDir(r) ==
  /\ rep[r].at = "hash"
  /\ LET sha == Hash(dirs[rep[r].second])
     IN  /\ dirs' = [dirs EXCEPT ![rep[r].second].sums = sha]
         /\ rep' = [rep EXCEPT ![r] = [rep[r] EXCEPT !.at = "problem", !.sha = sha]]
  /\ UNCHANGED <<cli, child, task, late, events, bad, lives>>

\* report_a_problem: PROBLEM.md quotes the hash.
Problem(r) ==
  /\ rep[r].at = "problem"
  /\ dirs' = [dirs EXCEPT ![rep[r].second].problem = rep[r].sha]
  /\ rep' = [rep EXCEPT ![r] = [rep[r] EXCEPT !.at = "done", !.alone = dirs[rep[r].second].users = 1]]
  /\ UNCHANGED <<cli, child, task, late, events, bad, lives>>

-----------------------------------------------------------------------------

CliStep ==
  \/ \E w \in BOOLEAN : Spawn(w)
  \/ WaitForDaemon \/ Outcome
  \/ \E d, h \in BOOLEAN : CreateTask(d, h) \/ QueueTask(d, h) \/ StartTask(d, h)
  \/ \E a \in {"fleet", "error", "none"} : Poll(a)

ReportStep == \E r \in Reporters :
  (\E s \in Seconds : Collect(r, s)) \/ WriteReport(r) \/ HashDir(r) \/ Problem(r)

Next ==
  \/ CliStep \/ Deadline \/ ReportStep
  \/ \E w \in BOOLEAN : ChildBoots(w)
  \/ \E s \in Statuses : TaskMoves(s)

\* The command is a process of its own, the clock goes on and a core that boots
\* says so or dies; nothing is assumed of the task.
CliFairness ==
  /\ WF_cliVars(CliStep) /\ WF_cliVars(Deadline)
  /\ WF_cliVars(\E w \in BOOLEAN : ChildBoots(w))

CliSpec == Init /\ [][Next]_cliVars /\ CliFairness

-----------------------------------------------------------------------------
(* Properties                                                              *)

\* Exit code 0 is given for a task that was ready for review when it was polled,
\* 2 for one that was started, and never for a second task.
ExitCodeTrue ==
  /\ cli.at = "exited" /\ cli.code = 0 => cli.state = "ready" /\ lives.ready
  /\ cli.at = "exited" /\ cli.code = 2 => cli.state # "ready" /\ lives.started
  /\ lives.tasks <= 1

\* A run that got as far as a started task never leaves its core behind.
NoCoreLeftBehind ==
  cli.at = "exited" /\ lives.started /\ Owned
    => child = "dead"

\* A bundle nobody else wrote into is the one its report quotes: the hash is
\* that of its report, whose events are no older than its counts.
BundleTraceable ==
  \A r \in Reporters : rep[r].at = "done" /\ rep[r].alone =>
    LET d == dirs[rep[r].second]
    IN  d.users = 1 =>
          /\ d.problem = Hash([d EXCEPT !.sums = 0, !.problem = 0])
          /\ d.report <= d.recent

\* The three together, about modbit.rs and diagnostics.rs.
HeadlessSound == ExitCodeTrue /\ NoCoreLeftBehind /\ BundleTraceable

\* The command ends, even if its task never does: by its deadline, also when the
\* task was completed by somebody else, a state the loop does not take for final.
HeadlessEnds == <>(cli.at = "exited")

=============================================================================
