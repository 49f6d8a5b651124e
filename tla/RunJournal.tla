----------------------------- MODULE RunJournal -----------------------------
(***************************************************************************)
(* The run plane of one task: the events a run writes on its run, turn and *)
(* step streams (scheduler.rs: EventStoreObserver, RunPlaneShared and the  *)
(* output sink) and what the surface reads back (surface.rs: run_detail,   *)
(* fleet, agent_result).                                                   *)
(*                                                                         *)
(* A writer takes its sequence number from a cache and goes on when the    *)
(* append fails; a reader makes several queries while the run goes on.     *)
(***************************************************************************)
EXTENDS Naturals, Sequences, FiniteSets, SequencesExt, TLC

CONSTANTS MaxRuns,      \* bound: attempts at the task
          MaxTurns,     \* max_turns of a run
          MaxLosses     \* bound: appends that fail (a busy or full database, a lost lease)

VARIABLES rows,     \* events table in rowid order: [agg, seq, kind]
          cache,    \* RunPlaneShared.sequences
          emitted,  \* history: what the run wanted to write, in order
          run,      \* the run loop: [no, turn, at]
          row,      \* the task's row: its state
          losses,   \* appends that failed
          client    \* a client's inquiry: fleet and run_detail, or agent_result;
                    \* reads change nothing, so one that may begin any time is enough

journalVars == <<rows, cache, emitted, run, row, losses, client>>

RunAgg(r) == <<"run", r>>
TurnAgg(r, t) == <<"turn", r, t>>
StepAgg(r, t, s) == <<"step", r, t, s>>

Stream(agg) == SelectSeq(rows, LAMBDA e : e.agg = agg)
Kinds(agg) == {rows[i].kind : i \in {j \in DOMAIN rows : rows[j].agg = agg}}
Finished == {"completed", "failed", "over"}  \* over: a tool step, refused or not

Idle == [at |-> "idle"]

Init ==
  /\ rows = <<>> /\ cache = <<>> /\ emitted = <<>>
  /\ run = [no |-> 0, turn |-> 0, at |-> "ended"]
  /\ row = "running"
  /\ losses = 0
  /\ client = Idle

-----------------------------------------------------------------------------
(* Writing                                                                 *)

\* Mutant: the store takes any number beyond the last one.
AcceptsBeyond(agg, n) == n > Len(Stream(agg))

\* EventStore::append: the number must be the next of the stream.
Accepts(agg, n) == n = Len(Stream(agg)) + 1

\* EventStoreObserver::append: the number is reserved whether or not the event
\* lands, and a failure is only logged.
Emit(agg, kind, next) ==
  LET n == IF agg \in DOMAIN cache THEN cache[agg] ELSE 1
  IN  /\ run.at # "ended"
      /\ cache' = [a \in DOMAIN cache \cup {agg} |-> IF a = agg THEN n + 1 ELSE cache[a]]
      /\ emitted' = Append(emitted, [agg |-> agg, kind |-> kind])
      /\ \/ /\ losses < MaxLosses /\ losses' = losses + 1
            /\ UNCHANGED rows
         \/ /\ rows' = IF Accepts(agg, n)
                       THEN Append(rows, [agg |-> agg, seq |-> n, kind |-> kind]) ELSE rows
            /\ UNCHANGED losses
      /\ run' = next
      /\ UNCHANGED <<row, client>>

At(pc) == [run EXCEPT !.at = pc]

\* A claim of the task starts a run with streams of its own.
RunStarts ==
  /\ run.at = "ended" /\ row = "running" /\ run.no < MaxRuns
  /\ run' = [no |-> run.no + 1, turn |-> 1, at |-> "start"]
  /\ cache' = <<>>
  /\ UNCHANGED <<rows, emitted, row, losses, client>>

RunStarted == run.at = "start" /\ Emit(RunAgg(run.no), "started", At("turn"))

TurnPrepared ==
  run.at = "turn" /\ run.turn <= MaxTurns /\ Emit(TurnAgg(run.no, run.turn), "prepared", At("gate"))

\* A stop or a pause is seen at the turn boundary.
TurnFailed ==
  run.at = "gate" /\ Emit(TurnAgg(run.no, run.turn), "failed", At("stop"))
RunStops == run.at = "stop" /\ Emit(RunAgg(run.no), "failed", At("ended"))

ModelInvokeStarted ==
  run.at = "gate" /\ Emit(StepAgg(run.no, run.turn, 1), "prepared", At("stream"))
ModelInvokeFinished ==
  run.at = "stream" /\ Emit(StepAgg(run.no, run.turn, 1), "completed", At("answer"))

ToolStepStarted ==
  run.at = "answer" /\ Emit(StepAgg(run.no, run.turn, 2), "prepared", At("tool"))
Chunk == run.at = "tool" /\ Emit(RunAgg(run.no), "chunk", At("tool ends"))
ToolStepFinished ==
  /\ run.at \in {"tool", "tool ends"}
  /\ Emit(StepAgg(run.no, run.turn, 2), "over", At("boundary"))
ConversationCheckpointed ==
  run.at = "boundary"
  /\ Emit(RunAgg(run.no), "checkpoint", [run EXCEPT !.turn = @ + 1, !.at = "turn"])

TurnCompleted ==
  run.at = "answer" /\ Emit(TurnAgg(run.no, run.turn), "completed", At("finish"))
RunCompleted == run.at = "finish" /\ Emit(RunAgg(run.no), "completed", At("cost"))
RunExhausted ==
  run.at = "turn" /\ run.turn > MaxTurns /\ Emit(RunAgg(run.no), "failed", At("cost of failure"))
RunCostRecorded ==
  /\ run.at \in {"cost", "cost of failure"}
  /\ Emit(RunAgg(run.no), "cost", At(IF run.at = "cost" THEN "review" ELSE "fail"))

\* The task follows the run; a provider outage ends the run without an event.
Transition ==
  /\ \/ run.at = "review" /\ row' = IF row = "running" THEN "ready_for_review" ELSE row
     \/ run.at = "fail" /\ row' = IF row = "running" THEN "failed" ELSE row
     \/ run.at = "stream" /\ row' = IF row = "running" THEN "waiting_provider" ELSE row
  /\ run' = At("ended")
  /\ UNCHANGED <<rows, cache, emitted, losses, client>>

\* The core dies; the restarted one may resume the task with a new run.
Crash ==
  /\ run.at # "ended"
  /\ run' = At("ended")
  /\ UNCHANGED <<rows, cache, emitted, row, losses, client>>

\* Commands of the user.
UserMoves ==
  /\ \/ row = "ready_for_review" /\ row' \in {"completed", "running"}
     \/ row = "waiting_provider" /\ row' \in {"running", "cancelled"}
     \/ row = "running" /\ row' = "cancelled"
  /\ UNCHANGED <<rows, cache, emitted, run, losses, client>>

-----------------------------------------------------------------------------
(* Reading                                                                 *)

Writer == <<rows, cache, emitted, run, row, losses>>

\* map_state of the tasks projection, one query.
MapState(state) ==
  IF state = "running" THEN "started"
  ELSE IF state = "waiting_provider" THEN "waiting" ELSE state
Begun == {r \in 1..MaxRuns : "started" \in Kinds(RunAgg(r))}
Latest == IF Begun = {} THEN 0 ELSE CHOOSE r \in Begun : \A q \in Begun : q <= r

Fleet ==
  /\ client = Idle
  /\ client' = [at |-> "fleet", status |-> MapState(row), latest |-> Latest]
  /\ UNCHANGED Writer

Asked(at, fields) == client' = [client EXCEPT !.at = at] @@ fields

\* run_detail: the latest run and its state ...
DetailRun ==
  /\ client.at = "fleet" /\ Begun # {}
  /\ LET over == Kinds(RunAgg(Latest)) \cap Finished
     IN  Asked("turns", [run |-> Latest,
                         state |-> IF over = {} THEN "running" ELSE CHOOSE k \in over : TRUE])
  /\ UNCHANGED Writer

\* ... then its turns, then the steps of those turns, last the turns' states.
DetailTurns ==
  /\ client.at = "turns"
  /\ Asked("steps", [turns |-> {t \in 1..MaxTurns : Kinds(TurnAgg(client.run, t)) # {}}])
  /\ UNCHANGED Writer

DetailSteps ==
  /\ client.at = "steps"
  /\ LET seen == {x \in client.turns \X {1, 2} : Kinds(StepAgg(client.run, x[1], x[2])) # {}}
     IN  Asked("states",
           [open |-> {x \in seen : Kinds(StepAgg(client.run, x[1], x[2])) \cap Finished = {}}])
  /\ UNCHANGED Writer

DetailStates ==
  /\ client.at = "states"
  /\ Asked("shown", [over |-> {t \in client.turns : Kinds(TurnAgg(client.run, t)) \cap Finished # {}}])
  /\ UNCHANGED Writer

\* agent_result polls until the task is over or the deadline has passed, then
\* reads what it ended with.
Terminal == {"completed", "failed", "cancelled"}
ResultPoll(expired) ==
  /\ client = Idle /\ (row \in Terminal \/ expired)
  /\ client' = [at |-> "result", state |-> row]
  /\ UNCHANGED Writer
ResultDetail ==
  /\ client.at = "result"
  /\ Asked("answered", [summary |-> row = "completed", failure |-> row = "failed"])
  /\ UNCHANGED Writer

Next ==
  \/ RunStarts \/ RunStarted \/ TurnPrepared \/ TurnFailed \/ RunStops
  \/ ModelInvokeStarted \/ ModelInvokeFinished \/ ToolStepStarted \/ Chunk
  \/ ToolStepFinished \/ ConversationCheckpointed \/ TurnCompleted \/ RunCompleted
  \/ RunExhausted \/ RunCostRecorded \/ Transition \/ Crash \/ UserMoves
  \/ Fleet \/ DetailRun \/ DetailTurns \/ DetailSteps \/ DetailStates
  \/ \E expired \in BOOLEAN : ResultPoll(expired)
  \/ ResultDetail

-----------------------------------------------------------------------------
\* After a failed append a stream stays silent: it never has a hole, nor an
\* event out of order (the cached number and the store's check together).
JournalHasNoHoles ==
  \A agg \in {emitted[i].agg : i \in DOMAIN emitted} :
    IsPrefix([i \in DOMAIN Stream(agg) |-> Stream(agg)[i].kind],
             LET e == SelectSeq(emitted, LAMBDA x : x.agg = agg)
             IN  [i \in DOMAIN e |-> e[i].kind])

Whole == losses = 0

\* A run that is shown completed is shown whole: no step is open, its last
\* turn is over and no turn is missing, though four queries made the view.
CompletedIsWhole ==
  (client.at = "shown" /\ Whole /\ client.state = "completed") =>
    /\ client.open = {}
    /\ client.turns = 1..Cardinality(client.turns)
    /\ Cardinality(client.turns) \in client.over

\* A task that the fleet showed ready for review is not shown running after.
ReadyMeansCompleted ==
  (client.at = "shown" /\ Whole /\ client.status = "ready_for_review"
     /\ client.run = client.latest) => client.state = "completed"

\* A result that says how the task ended carries that end (agent_result).
ResultsMatch ==
  client.at = "answered" =>
    /\ client.state = "completed" => client.summary /\ ~client.failure
    /\ client.state = "failed" => client.failure /\ ~client.summary
    /\ client.state = "cancelled" => ~client.failure /\ ~client.summary

JournalSound == JournalHasNoHoles /\ CompletedIsWhole /\ ReadyMeansCompleted /\ ResultsMatch

=============================================================================
