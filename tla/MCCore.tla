------------------------------- MODULE MCCore -------------------------------
(***************************************************************************)
(* The parts of the core process, one at a time: what a part needs of      *)
(* another is modelled in its own module, so `side' picks the part that a  *)
(* behaviour is about, and each part keeps its variables in the same slots. *)
(* Steered and Clocks are second instances: a conversation with a steering *)
(* note, and two cores that run the same automations.                      *)
(***************************************************************************)
EXTENDS Naturals, Sequences, FiniteSets

CONSTANTS NoPlan   \* model values

VARIABLES side, v1, v2, v3, v4, v5, v6, v7, v8, v9, v10, v11, v12, v13, v14


\* Requests of the surface that are tried with each other.
Menus == {{"queue_task", "start_task", "task_ready_for_review", "complete_task", "stop_task",
           "create_task", "get_task_events"},
          {"run_variants", "stop_task"},
          {"approve_effect", "deny_effect", "get_run_cost"},
          {"spawn_agent", "park_agent", "resume_agent", "agent_result", "create_automation",
           "add_review_comment", "get_review_checklist", "get_browser_view",
           "set_browser_lease", "import_checkpoint", "register_repo", "get_settings",
           "update_settings", "get_diff_hunks", "resolve_review_hunk"},
          {"get_code_view", "get_fleet", "list_recent_repos", "get_run_detail", "get_diff",
           "list_pending_approvals", "list_automations", "read_output_ref", "none"}}

\* An insertion above, a change and a deletion in one file.
Edits == {[path |-> "f", at |-> 2, del |-> 0, add |-> 2],
          [path |-> "f", at |-> 5, del |-> 1, add |-> 1],
          [path |-> "f", at |-> 8, del |-> 1, add |-> 0]}

\* Automations by time, by event, and one that is refused.
Requests == {[cron |-> "even", event |-> "", objective |-> TRUE],
             [cron |-> "", event |-> "task_created", objective |-> TRUE],
             [cron |-> "", event |-> "", objective |-> TRUE]}
Fires(cron, m) == cron = "even" /\ m % 2 = 0

\* Days around the epoch, 2000 (a leap year) and 2100 (not one), and cron fields.
Day(n, y, m, d, w) == [days |-> n, y |-> y, m |-> m, d |-> d, dow |-> w]
Part(lo, hi, s) == [lo |-> lo, hi |-> hi, step |-> s]
Anchors == {Day(0, 1970, 1, 1, 4), Day(10956, 1999, 12, 31, 5), Day(47480, 2099, 12, 30, 3)}
DaySpecs == {{Part(1, 31, 1)}, {Part(13, 13, 1)}, {Part(1, 31, 7)},
             {Part(31, 31, 1), Part(1, 2, 1)}, {Part(0, 3, 1)}}
WeekSpecs == {{Part(0, 7, 1)}, {Part(1, 7, 1)}, {Part(1, 5, 1)}, {Part(7, 7, 1)}, {Part(5, 3, 1)}}
MonthSpecs == {{Part(1, 12, 1)}, {Part(2, 2, 1)}, {Part(1, 12, 5)}}

-----------------------------------------------------------------------------
Turns == INSTANCE AgentTurns WITH
  Budget <- 9, FullSize <- 4, ShortSize <- 2, SummarySize <- 2, MaxTurns <- 4,
  MaxCalls <- 2, MaxNotes <- 0, MaxWorkers <- 1, MaxCrashes <- 1, MaxBlocks <- 3,
  MaxErrors <- 1,
  conv <- v1, at <- v2, turn <- v3, todo <- v4, sepoch <- v5, slot <- v6,
  workers <- v7, ckpt <- v8, steps <- v9, newest <- v10, notes <- v11, crashes <- v12,
  errors <- v13, blocks <- v14

Steered == INSTANCE AgentTurns WITH
  Budget <- 9, FullSize <- 4, ShortSize <- 2, SummarySize <- 2, MaxTurns <- 4,
  MaxCalls <- 2, MaxNotes <- 1, MaxWorkers <- 1, MaxCrashes <- 1, MaxBlocks <- 2,
  MaxErrors <- 1,
  conv <- v1, at <- v2, turn <- v3, todo <- v4, sepoch <- v5, slot <- v6,
  workers <- v7, ckpt <- v8, steps <- v9, newest <- v10, notes <- v11, crashes <- v12,
  errors <- v13, blocks <- v14

Model == INSTANCE ModelStream WITH
  MaxAttempts <- 2, MaxFrames <- 3, MaxCalls <- 2,
  provider <- v1, io <- v2, sent <- v3, inbox <- v4, sup <- v5, token <- v6,
  outbox <- v7, events <- v8, answer <- v9, stop <- v10

Tools == INSTANCE RunTools WITH
  Contents <- {1, 2}, PipeCap <- 1, MaxOutput <- 2, MaxHandles <- 1, MaxCalls <- 2,
  MaxCrashes <- 1, MaxRevokes <- 1,
  grants <- v1, call <- v2, proc <- v3, late <- v4, report <- v5, file <- v6,
  objects <- v7, refs <- v8, journal <- v9, stored <- v10, epoch <- v11, done <- v12,
  count <- v13

Receipts == INSTANCE EffectReceipts WITH
  Runs <- {"a", "b", "c"}, MaxCalls <- 2, MaxSlips <- 1,
  book <- v1, run <- v2, calls <- v3, slips <- v4, clouded <- v5

Desk == INSTANCE ContextDesk WITH
  Files <- {"f", "g"}, DefFile <- "f", Sizes <- {1, 3, 5}, Budget <- 4, MaxEdits <- 2,
  MaxAsks <- 5,
  file <- v1, evidence <- v2, pack <- v3, lsp <- v4, server <- v5, ask <- v6,
  reply <- v7, surfaced <- v8, proposed <- v9

Journal == INSTANCE RunJournal WITH
  MaxRuns <- 1, MaxTurns <- 2, MaxLosses <- 1,
  rows <- v1, cache <- v2, emitted <- v3, run <- v4, row <- v5, losses <- v6,
  client <- v7

Daemon == INSTANCE EventDaemon WITH
  Keepers <- {"k"}, Named <- {"n"}, Batch <- 1, MaxLog <- 2, MaxFaults <- 2,
  log <- v1, feed <- v2, pipe <- v3, got <- v4, lines <- v5, mem <- v6, faults <- v7,
  sent <- v8, spilled <- v9

Surface == INSTANCE SurfaceDispatch WITH
  Clients <- {"a", "b"}, Output <- 3, MaxPage <- 2, MaxChildren <- 2, MaxTasks <- 5,
  Named <- 0..2, Counts <- 1..4, MaxRequests <- 3, MaxCosts <- 2, MaxFaults <- 1,
  menu <- v1, tasks <- v2, approval <- v3, costs <- v4, req <- v5, answer <- v6,
  pages <- v7, asked <- v8, faults <- v9

Bench == INSTANCE Workbench WITH
  Conns <- {"c", "d"}, Urls <- {"u", "v"}, DirOf <- [u \in {"u", "v"} |-> "x"],
  Secrets <- {"k"}, MaxAsks <- 3, MaxDeaths <- 1,
  doc <- v1, keychain <- v2, disk <- v3, repos <- v4, sessions <- v5, jobs <- v6,
  call <- v7, asked <- v8, want <- v9, filed <- v10, crowded <- v11

Wire == INSTANCE SurfaceTransport WITH
  Clients <- {"ui"}, Major <- [c \in {"ui"} |-> 1], ServerMajor <- 1, Pinned <- FALSE,
  Sizes <- {1, 3}, MaxFrame <- 2, MaxBoots <- 2, MaxCalls <- 2, MaxConns <- 2,
  core <- v1, path <- v2, boot <- v3, conn <- v4, asked <- v5, got <- v6, calls <- v7,
  done <- v8, nonces <- v9

Review == INSTANCE ReviewDesk WITH
  Reviewers <- {"r1", "r2"}, MaxEdits <- 1, MaxActs <- 2, MaxBase <- 2,
  worktree <- v1, upstream <- v2, base <- v3, task <- v4, journal <- v5, view <- v6,
  req <- v7, list <- v8, reversed <- v9, effort <- v10

Clock == INSTANCE AutomationClock WITH
  Engines <- {"e1"}, MaxRows <- 2, MaxMinute <- 3, MaxEvents <- 4, MaxSlips <- 1,
  minute <- v1, events <- v2, autos <- v3, eng <- v4, tasks <- v5, slips <- v6,
  excused <- v7

Clocks == INSTANCE AutomationClock WITH
  Engines <- {"e1", "e2"}, MaxRows <- 1, MaxMinute <- 4, MaxEvents <- 4, MaxSlips <- 1,
  minute <- v1, events <- v2, autos <- v3, eng <- v4, tasks <- v5, slips <- v6,
  excused <- v7

Cron == INSTANCE CronCalendar WITH
  Span <- 800, Seconds <- {0, 3599, 3600, 86399},
  today <- v1, walked <- v2

-----------------------------------------------------------------------------
\* The slots behind the k-th: a part that has no use for them leaves them at 0.
Spare13 == <<v14>>
Zero13 == v14 = 0
Spare11 == <<v12, v13, Spare13>>
Zero11 == v12 = 0 /\ v13 = 0 /\ Zero13
Spare10 == <<v11, Spare11>>
Zero10 == v11 = 0 /\ Zero11
Spare9 == <<v10, Spare10>>
Zero9 == v10 = 0 /\ Zero10
Spare7 == <<v8, v9, Spare9>>
Zero7 == v8 = 0 /\ v9 = 0 /\ Zero9
Spare5 == <<v6, v7, Spare7>>
Zero5 == v6 = 0 /\ v7 = 0 /\ Zero7
Spare2 == <<v3, v4, v5, Spare5>>
Zero2 == v3 = 0 /\ v4 = 0 /\ v5 = 0 /\ Zero5

Init ==
  \/ side = "turns" /\ Turns!Init
  \/ side = "steered" /\ Steered!Init
  \/ side = "stream" /\ Model!Init /\ Zero10
  \/ side = "tools" /\ Tools!Init /\ Zero13
  \/ side = "receipts" /\ Receipts!Init /\ Zero5
  \/ side = "desk" /\ Desk!Init /\ Zero9
  \/ side = "journal" /\ Journal!Init /\ Zero7
  \/ side = "daemon" /\ Daemon!Init /\ Zero9
  \/ side = "dispatch" /\ Surface!Init /\ Zero9
  \/ side = "bench" /\ Bench!Init /\ Zero11
  \/ side = "wire" /\ Wire!Init /\ Zero9
  \/ side = "review" /\ Review!Init /\ Zero10
  \/ side = "clock" /\ Clock!Init /\ Zero7
  \/ side = "clocks" /\ Clocks!Init /\ Zero7
  \/ side = "cron" /\ Cron!Init /\ Zero2

Next ==
  \/ side = "turns" /\ Turns!Next /\ UNCHANGED side
  \/ side = "steered" /\ Steered!Next /\ UNCHANGED side
  \/ side = "stream" /\ Model!Next /\ UNCHANGED <<side, Spare10>>
  \/ side = "tools" /\ Tools!Next /\ UNCHANGED <<side, Spare13>>
  \/ side = "receipts" /\ Receipts!Next /\ UNCHANGED <<side, Spare5>>
  \/ side = "desk" /\ Desk!Next /\ UNCHANGED <<side, Spare9>>
  \/ side = "journal" /\ Journal!Next /\ UNCHANGED <<side, Spare7>>
  \/ side = "daemon" /\ Daemon!Next /\ UNCHANGED <<side, Spare9>>
  \/ side = "dispatch" /\ Surface!Next /\ UNCHANGED <<side, Spare9>>
  \/ side = "bench" /\ Bench!Next /\ UNCHANGED <<side, Spare11>>
  \/ side = "wire" /\ Wire!Next /\ UNCHANGED <<side, Spare9>>
  \/ side = "review" /\ Review!Next /\ UNCHANGED <<side, Spare10>>
  \/ side = "clock" /\ Clock!Next /\ UNCHANGED <<side, Spare7>>
  \/ side = "clocks" /\ Clocks!Next /\ UNCHANGED <<side, Spare7>>
  \/ side = "cron" /\ Cron!Next /\ UNCHANGED <<side, Spare2>>

vars == <<side, v1, v2, v3, v4, v5, v6, v7, v8, v9, v10, v11, v12, v13, v14>>
Spec == Init /\ [][Next]_vars

-----------------------------------------------------------------------------
\* A run's conversation: after any crash, error or stop it is one the provider
\* accepts, compacted by a plan made for it; and what the model streamed is in it
\* once and in order, whatever was retried (one_agent.rs, gateway.rs).
RunExact == /\ side = "turns" => Turns!TurnsExact
            /\ side = "steered" => Steered!TurnsExact
            /\ side = "stream" => Model!StreamExact

\* What the tools did is what the run was told and what was recorded of it: calls
\* and runners end, stored content is the content that was put, the ledger holds
\* the receipts of the calls that were made, and an answer of the language server
\* is the one to the question (tools, effects, mcp, diagnostics, context).
ToolsAccounted == /\ side = "tools" => Tools!ToolsSound
                  /\ side = "receipts" => Receipts!ReceiptsAccounted
                  /\ side = "desk" => Desk!DeskAnswersRight

\* A reader of the run's journal and a client of the event stream see every event,
\* once and in order, but for what is known to be lost (scheduler.rs, daemon.rs).
EventsReachReaders == /\ side = "journal" => Journal!JournalSound
                      /\ side = "daemon" => Daemon!StreamAccounted

\* A request is answered as it was carried out, by a core the client has verified,
\* and leaves settings, sessions and repositories as asked (surface.rs, transport.rs).
SurfaceSound == /\ side = "dispatch" => Surface!DispatchSound
                /\ side = "bench" => Bench!BenchSound
                /\ side = "wire" => Wire!TransportSound

\* Decisions of a reviewer and what they did to the worktree (core-runtime/review.rs).
ReviewAccounted == side = "review" => Review!ReviewAccounted

\* Automations fire when they should and once, but for what a crash explains, by a
\* calendar that is the civil one (automation.rs, automations.rs).
AutomationsSound == /\ side = "clock" => Clock!AutomationsSound
                    /\ side = "clocks" => Clocks!AutomationsSound
                    /\ side = "cron" => Cron!CalendarExact
=============================================================================
