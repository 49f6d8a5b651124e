-------------------------- MODULE SchedulerProofs --------------------------
(***************************************************************************)
(* The run scheduler, for any number of tasks, turns, requests, starts and *)
(* crashes and every set of faults: types, and that a stopped run begins   *)
(* at most one more turn, for any number of cores; for one core, that a    *)
(* task has one fresh run and is handed to review on a recorded completion *)
(* only.                                                                   *)
(*                                                                         *)
(* And what one run of it drives, each by INSTANCE and with an invariant   *)
(* of its own: the stored output, the receipts of external calls,          *)
(* terminals, the capture of a command, the command line, the worktree     *)
(* with its ledger, index and checkpoint, and the stream of a model        *)
(* invocation.                                                             *)
(***************************************************************************)
EXTENDS Scheduler, SequenceTheorems, TLAPS

LEMMA Machine ==
  ASSUME NEW s \in TaskStates, NEW ev \in TaskEvents \cup {None}
  PROVE  StateAfter(s, ev) \in TaskStates
BY DEF StateAfter, TaskStates, TaskEvents, None

LEMMA ApplyType ==
  ASSUME state \in [Tasks -> TaskStates], NEW t, NEW ev \in TaskEvents, Apply(t, ev)
  PROVE  state' \in [Tasks -> TaskStates]
<1>1. CASE t \in Tasks
  BY <1>1, Machine DEF Apply
<1>2. CASE t \notin Tasks
  BY <1>2 DEF Apply
<1> QED
  BY <1>1, <1>2

LEMMA CommandsAreEvents ==
  /\ \A kind \in {"stop", "pause", "steer"} : CommandOf(kind) \in TaskEvents
  /\ \A r \in Run : OutcomeEvent(r) # None => OutcomeEvent(r) \in TaskEvents
  /\ {"task_failed", "task_started", "task_ready_for_review"} \subseteq TaskEvents
BY DEF CommandOf, OutcomeEvent, TaskEvents, None

-----------------------------------------------------------------------------
(***************************************************************************)
(* The runs.  A turn begun after a stop, or after the lease was lost,      *)
(* leaves the run cancelled (the refused row saw to that), and a cancelled *)
(* run does not pass the next control boundary.                            *)
(***************************************************************************)
Bounded(r) == r.late = 0 \/ (r.late = 1 /\ r.cancelled /\ r.at # "checked")

Sound(r) == r \in Run /\ Bounded(r)

SoundRuns == \A c \in Cores : run[c] # NoRun => Sound(run[c])

LEMMA SetRun ==
  ASSUME TypeOK, SoundRuns, NEW c \in Cores, NEW r, r = NoRun \/ Sound(r),
         run' = [run EXCEPT ![c] = r]
  PROVE  run' \in [Cores -> Run \cup {NoRun}] /\ SoundRuns'
BY DEF TypeOK, SoundRuns, Sound

LEMMA AppendRunSets ==
  ASSUME TypeOK, SoundRuns, NEW c \in Cores, NEW r \in Run, Bounded(r), NEW evs \in Seq(RunEvents),
         AppendRun(c, evs, r)
  PROVE  run' \in [Cores -> Run \cup {NoRun}] /\ SoundRuns' /\ runLog' \in [Tasks -> Seq(RunEvents)]
<1> DEFINE n == [r EXCEPT !.cancelled = r.cancelled \/ Stale(r)]
<1>1. n \in Run
  BY DEF Run, Stale
<1>2. Bounded(n)
  BY DEF Bounded, Run
<1>3. run' = [run EXCEPT ![c] = n]
  BY DEF AppendRun
<1>4. runLog' \in [Tasks -> Seq(RunEvents)]
  <2>1. r.task \in Tasks
    BY DEF Run
  <2>2. runLog[r.task] \o evs \in Seq(RunEvents)
    BY <2>1 DEF TypeOK
  <2> QED
    BY <2>1, <2>2 DEF AppendRun, TypeOK
<1> HIDE DEF n
<1> QED
  BY <1>1, <1>2, <1>3, <1>4, SetRun DEF Sound

RunsKept == /\ run' \in [Cores -> Run \cup {NoRun}] /\ SoundRuns'
            /\ runLog' \in [Tasks -> Seq(RunEvents)]

\* Steps that move the run of a core along, and write to its log.
LEMMA TurnStep ==
  ASSUME TypeOK, SoundRuns, NEW c \in Cores,
         \/ RunStarted(c) \/ PrepareTurn(c) \/ CheckControl(c) \/ InvokeModel(c)
         \/ ModelAnswers(c) \/ ModelCallsTools(c) \/ ExecuteTools(c)
  PROVE  RunsKept
<1> DEFINE r == run[c]
<1>1. r \in Run /\ Bounded(r)
  BY DEF RunStarted, PrepareTurn, CheckControl, InvokeModel, ModelAnswers, ModelCallsTools,
         ExecuteTools, At, SoundRuns, Sound
<1>2. ASSUME NEW n \in Run, Bounded(n), NEW evs \in Seq(RunEvents), AppendRun(c, evs, n)
      PROVE  RunsKept
  BY <1>2, AppendRunSets DEF RunsKept
<1>3. ASSUME NEW place \in Places, place # "checked"
      PROVE  [r EXCEPT !.at = place] \in Run /\ Bounded([r EXCEPT !.at = place])
  BY <1>1, <1>3 DEF Run, Bounded
<1>4. ASSUME NEW o \in Outcomes, NEW e \in RunEvents, End(c, <<e>>, o) PROVE RunsKept
  <2>1. [r EXCEPT !.at = "ended", !.outcome = o] \in Run
    BY <1>1 DEF Run, Places, Registered
  <2>2. Bounded([r EXCEPT !.at = "ended", !.outcome = o])
    BY <1>1 DEF Run, Bounded
  <2>3. <<e>> \in Seq(RunEvents)
    OBVIOUS
  <2> QED
    BY <1>2, <1>4, <2>1, <2>2, <2>3 DEF End
<1>5. \A e \in RunEvents : <<e>> \in Seq(RunEvents)
  OBVIOUS
<1>6. <<>> \in Seq(RunEvents)
  OBVIOUS
<1>7. {"completed", "failed", "fresh_started", "resume_started"} \subseteq RunEvents
  BY DEF RunEvents
<1>8. {"completed", "exhausted", "cancelled", "paused"} \subseteq Outcomes
  BY DEF Outcomes
<1>9. {"boundary", "prepared", "streaming", "tools"} \subseteq Places
  BY DEF Places, Registered
<1>10. CASE RunStarted(c)
  BY <1>2, <1>3, <1>5, <1>7, <1>9, <1>10 DEF RunStarted
<1>11. CASE PrepareTurn(c)
  <2>1. CASE r.turn >= MaxTurns
    BY <1>4, <1>7, <1>8, <1>11, <2>1 DEF PrepareTurn
  <2>2. CASE ~(r.turn >= MaxTurns)
    <3> DEFINE n == [r EXCEPT !.at = "prepared", !.turn = r.turn + 1]
    <3>1. r.turn \in 0..MaxTurns
      BY <1>1 DEF Run
    <3>2. r.turn + 1 \in 0..MaxTurns
      BY <2>2, <3>1, SchedulerBounds
    <3>3. n \in Run
      BY <1>1, <1>9, <3>2 DEF Run
    <3>4. Bounded(n)
      BY <1>1 DEF Run, Bounded
    <3>5. AppendRun(c, <<>>, n)
      BY <1>11, <2>2 DEF PrepareTurn
    <3> QED
      BY <1>2, <1>6, <3>3, <3>4, <3>5
  <2> QED
    BY <2>1, <2>2
<1>12. CASE CheckControl(c)
  <2>1. CASE r.cancelled \/ r.paused
    BY <1>4, <1>7, <1>8, <1>12, <2>1 DEF CheckControl
  <2>2. CASE ~r.cancelled /\ ~r.paused
    <3> DEFINE n == [r EXCEPT !.at = "checked"]
    <3>1. run' = [run EXCEPT ![c] = n] /\ runLog' = runLog
      BY <1>12, <2>2 DEF CheckControl
    <3>2. n \in Run
      BY <1>1 DEF Run, Places, Registered
    <3>3. Bounded(n)
      BY <1>1, <2>2 DEF Run, Bounded
    <3> HIDE DEF n
    <3>4. run' \in [Cores -> Run \cup {NoRun}] /\ SoundRuns'
      BY <3>1, <3>2, <3>3, SetRun DEF Sound
    <3> QED
      BY <3>1, <3>4 DEF RunsKept, TypeOK
  <2> QED
    BY <2>1, <2>2
<1>13. CASE InvokeModel(c)
  <2> DEFINE over == r.cancelled \/ Stale(r)
             late == IF over THEN r.late + 1 ELSE r.late
             n == [r EXCEPT !.at = "streaming", !.late = late]
  <2>1. late \in Nat /\ (late = 0 \/ (over /\ late = 1))
    <3>1. r.late = 0
      BY <1>1, <1>13 DEF InvokeModel, At, Bounded
    <3> QED
      BY <3>1
  <2>2. AppendRun(c, <<>>, n)
    BY <1>13 DEF InvokeModel
  <2>3. over => n.cancelled \/ Stale(n)
    <3> HIDE DEF late
    <3> QED
      BY <1>1 DEF Run, Stale
  <2> HIDE DEF late, over
  <2>4. n \in Run
    BY <1>1, <1>9, <2>1 DEF Run
  <2>5. CASE late = 0
    <3>1. Bounded(n)
      BY <1>1, <2>5 DEF Run, Bounded
    <3> QED
      BY <1>2, <1>6, <2>2, <2>4, <3>1
  <2>6. CASE over /\ late = 1
    <3> DEFINE m == [n EXCEPT !.cancelled = TRUE]
    <3>1. n.at = "streaming" /\ n.late = 1 /\ n.task \in Tasks
      BY <1>1, <2>4, <2>6 DEF Run
    <3>2. run' = [run EXCEPT ![c] = [n EXCEPT !.cancelled = n.cancelled \/ Stale(n)]]
      BY <2>2 DEF AppendRun
    <3>3. n.cancelled \/ Stale(n) <=> TRUE
      BY <2>3, <2>6
    <3>4. runLog' \in [Tasks -> Seq(RunEvents)]
      <4>1. runLog[n.task] \o <<>> \in Seq(RunEvents)
        BY <3>1 DEF TypeOK
      <4> HIDE DEF n
      <4> QED
        BY <2>2, <3>1, <4>1 DEF AppendRun, TypeOK
    <3> HIDE DEF n
    <3>5. (n.cancelled \/ Stale(n)) = TRUE
      BY <3>3 DEF Stale
    <3>6. run' = [run EXCEPT ![c] = m]
      BY <3>2, <3>5
    <3>7. m \in Run /\ m.cancelled = TRUE /\ m.late = 1 /\ m.at = "streaming"
      BY <2>4, <3>1 DEF Run
    <3>8. Bounded(m)
      BY <3>7 DEF Bounded
    <3> HIDE DEF m
    <3> QED
      BY <3>4, <3>6, <3>7, <3>8, SetRun DEF Sound, RunsKept
  <2> QED
    BY <2>1, <2>5, <2>6
<1>14. CASE ModelAnswers(c)
  BY <1>4, <1>7, <1>8, <1>14 DEF ModelAnswers
<1>15. CASE ModelCallsTools(c)
  BY <1>2, <1>3, <1>6, <1>9, <1>15 DEF ModelCallsTools
<1>16. CASE ExecuteTools(c)
  BY <1>2, <1>3, <1>6, <1>9, <1>16 DEF ExecuteTools
<1> QED
  BY <1>10, <1>11, <1>12, <1>13, <1>14, <1>15, <1>16

LEMMA ClaimSound ==
  ASSUME TypeOK, SoundRuns, NEW c \in Cores, NEW t \in Tasks, NEW path \in {"boot", "tail"},
         Claim(c, t, path), UNCHANGED runLog
  PROVE  RunsKept
<1> DEFINE n == [task |-> t, path |-> path, at |-> "claimed", turn |-> 0, cancelled |-> FALSE,
                 paused |-> FALSE, gen |-> 0, outcome |-> "none", late |-> 0]
<1>1. 0 \in 0..MaxTurns
  BY SchedulerBounds
<1>2. n \in Run
  BY <1>1 DEF Run, Places, Outcomes
<1>3. Bounded(n)
  BY DEF Bounded
<1>4. run' = [run EXCEPT ![c] = n]
  BY DEF Claim
<1> HIDE DEF n
<1> QED
  BY <1>2, <1>3, <1>4, SetRun DEF Sound, RunsKept, TypeOK

\* Steps that only change where the run of a core is, or drop it.
LEMMA PlaceStep ==
  ASSUME TypeOK, SoundRuns, NEW c \in Cores, run[c] # NoRun, UNCHANGED runLog
  PROVE  /\ run' = [run EXCEPT ![c] = NoRun] => RunsKept
         /\ \A place \in Places \ {"checked"}, g \in Nat, o \in Outcomes :
              \/ run' = [run EXCEPT ![c].at = place]
              \/ run' = [run EXCEPT ![c] = [run[c] EXCEPT !.at = place, !.outcome = o]]
              \/ run' = [run EXCEPT ![c] = [run[c] EXCEPT !.at = place, !.gen = g]]
              => RunsKept
<1>1. ASSUME run' = [run EXCEPT ![c] = NoRun] PROVE RunsKept
  BY <1>1, SetRun DEF RunsKept, TypeOK
<1>2. run[c] \in Run /\ Bounded(run[c])
  BY DEF SoundRuns, Sound
<1>3. ASSUME NEW n \in Run, n.late = run[c].late, n.cancelled = run[c].cancelled,
             n.at # "checked", run' = [run EXCEPT ![c] = n]
      PROVE  RunsKept
  <2>1. Bounded(n)
    BY <1>2, <1>3 DEF Bounded
  <2> QED
    BY <1>3, <2>1, SetRun DEF Sound, RunsKept, TypeOK
<1>4. ASSUME NEW place \in Places \ {"checked"}, run' = [run EXCEPT ![c].at = place]
      PROVE  RunsKept
  <2> DEFINE n == [run[c] EXCEPT !.at = place]
  <2>1. /\ n \in Run /\ n.late = run[c].late /\ n.cancelled = run[c].cancelled
        /\ n.at # "checked"
    BY <1>2 DEF Run
  <2>2. run' = [run EXCEPT ![c] = n]
    BY <1>4
  <2> QED
    BY <1>3, <2>1, <2>2
<1>5. ASSUME NEW place \in Places \ {"checked"}, NEW o \in Outcomes,
             run' = [run EXCEPT ![c] = [run[c] EXCEPT !.at = place, !.outcome = o]]
      PROVE  RunsKept
  <2> DEFINE n == [run[c] EXCEPT !.at = place, !.outcome = o]
  <2>1. /\ n \in Run /\ n.late = run[c].late /\ n.cancelled = run[c].cancelled
        /\ n.at # "checked"
    BY <1>2 DEF Run
  <2> QED
    BY <1>3, <1>5, <2>1
<1>6. ASSUME NEW place \in Places \ {"checked"}, NEW g \in Nat,
             run' = [run EXCEPT ![c] = [run[c] EXCEPT !.at = place, !.gen = g]]
      PROVE  RunsKept
  <2> DEFINE n == [run[c] EXCEPT !.at = place, !.gen = g]
  <2>1. /\ n \in Run /\ n.late = run[c].late /\ n.cancelled = run[c].cancelled
        /\ n.at # "checked"
    BY <1>2 DEF Run
  <2> QED
    BY <1>3, <1>6, <2>1
<1> QED
  BY <1>1, <1>4, <1>5, <1>6

LEMMA ThreadKeepsRuns ==
  ASSUME TypeOK, SoundRuns, NEW c \in Cores, ThreadStep(c) \/ ProviderStep(c)
  PROVE  RunsKept
<1>2. Abort(c) => \/ run' = [run EXCEPT ![c] = NoRun]
                  \/ run' = [run EXCEPT ![c].at = "errored"]
  BY DEF Abort
<1>3. {"errored", "registered", "leased", "ended", "finished"} \subseteq Places \ {"checked"}
  BY DEF Places, Registered
<1>4. "error" \in Outcomes
  BY DEF Outcomes
<1>5. CASE \/ AllocationFails(c) \/ FailAllocation(c) \/ Register(c) \/ FinishRun(c)
           \/ TransitionTask(c)
  <2>1. 0 \in Nat /\ "error" \in Outcomes
    BY <1>4
  <2>2. run[c] # NoRun /\ runLog' = runLog
    BY <1>5 DEF AllocationFails, FailAllocation, Register, FinishRun, TransitionTask, At, durable
  <2>3. \/ run' = [run EXCEPT ![c] = NoRun]
        \/ \E place \in Places \ {"checked"} : run' = [run EXCEPT ![c].at = place]
    BY <1>2, <1>3, <1>5
       DEF AllocationFails, FailAllocation, Register, FinishRun, TransitionTask, At, durable
  <2> QED
    BY <2>1, <2>2, <2>3, PlaceStep
<1>6. CASE StreamAborted(c) \/ ProviderFails(c)
  <2>1. /\ run[c] # NoRun /\ runLog' = runLog
        /\ run' = [run EXCEPT ![c] = [run[c] EXCEPT !.at = "ended", !.outcome = "error"]]
    BY <1>6 DEF StreamAborted, ProviderFails, At
  <2> QED
    BY <1>3, <1>4, <2>1, 0 \in Nat, PlaceStep
<1>7. CASE AcquireLease(c)
  <2>1. leaseGen + 1 \in Nat
    BY DEF TypeOK
  <2>2. /\ run[c] # NoRun /\ runLog' = runLog
        /\ \/ run' = [run EXCEPT ![c].at = "leased"]
           \/ run' = [run EXCEPT ![c] = [run[c] EXCEPT !.at = "leased", !.gen = leaseGen + 1]]
    BY <1>7 DEF AcquireLease, At
  <2> QED
    BY <1>3, <1>4, <2>1, <2>2, PlaceStep
<1>8. CASE StartTailing(c)
  BY <1>8 DEF StartTailing, durable, RunsKept, TypeOK, SoundRuns
<1>9. CASE RunTask(c)
  <2>1. offset[c] \in 0..Len(started) /\ started \in Seq(Tasks) /\ offset[c] < Len(started)
    BY <1>9 DEF RunTask, TypeOK
  <2>2. started[offset[c] + 1] \in Tasks
    BY <2>1
  <2> QED
    BY <1>9, <2>2, ClaimSound DEF RunTask, durable, RunsKept, TypeOK, SoundRuns
<1>10. ASSUME NEW t \in Tasks, ResumeTask(c, t) PROVE RunsKept
  BY <1>10, ClaimSound DEF ResumeTask, durable
<1> QED
  BY <1>5, <1>6, <1>7, <1>8, <1>9, <1>10, TurnStep DEF ThreadStep, ProviderStep

LEMMA RunsStep ==
  ASSUME TypeOK, SoundRuns, [Next]_vars
  PROVE  RunsKept
<1>1. CASE UNCHANGED <<run, runLog>>
  BY <1>1 DEF RunsKept, TypeOK, SoundRuns
<1>2. ASSUME NEW c \in Cores, NEW t \in Tasks, NEW field, Signal(c, t, field), UNCHANGED runLog
      PROVE  RunsKept
  <2>1. CASE run[c] # NoRun /\ run[c].task = t /\ run[c].at \in Registered
    <3> DEFINE n == [run[c] EXCEPT !.cancelled = run[c].cancelled \/ field = "stop",
                                   !.paused = run[c].paused \/ field = "pause"]
    <3>1. run[c] \in Run /\ Bounded(run[c])
      BY <2>1 DEF SoundRuns, Sound
    <3>2. n \in Run
      BY <3>1 DEF Run
    <3>3. Bounded(n)
      BY <3>1 DEF Run, Bounded
    <3>4. run' = [run EXCEPT ![c] = n]
      BY <1>2, <2>1 DEF Signal
    <3> HIDE DEF n
    <3> QED
      BY <1>2, <3>2, <3>3, <3>4, SetRun DEF Sound, RunsKept, TypeOK
  <2> QED
    BY <1>1, <1>2, <2>1 DEF Signal
<1>3. ASSUME NEW c \in Cores, NEW t \in Tasks, StopTask(c, t) \/ PauseTask(c, t) PROVE RunsKept
  BY <1>2, <1>3 DEF StopTask, PauseTask, Ask, durable
<1>4. ASSUME NEW c \in Cores, NEW t \in Tasks,
             SteerTask(c, t) \/ StartTask(c, t) \/ ReadyForReview(c, t)
      PROVE  RunsKept
  BY <1>1, <1>4 DEF SteerTask, Ask, StartTask, ReadyForReview, durable
<1>5. ASSUME NEW c \in Cores, Crash(c) PROVE RunsKept
  BY <1>5, SetRun DEF Crash, durable, RunsKept, TypeOK
<1>6. ASSUME NEW c \in Cores, Boot(c) \/ Handler(c) PROVE RunsKept
  BY <1>1, <1>6 DEF Boot, Handler, SendCommand, durable
<1>7. CASE UNCHANGED vars
  BY <1>1, <1>7 DEF vars, durable
<1> QED
  BY <1>3, <1>4, <1>5, <1>6, <1>7, ThreadKeepsRuns DEF Next

-----------------------------------------------------------------------------
LEMMA TasksTyped ==
  ASSUME TypeOK, [Next]_vars
  PROVE  state' \in [Tasks -> TaskStates]
<1>1. CASE UNCHANGED state
  BY <1>1 DEF TypeOK
<1>2. ASSUME NEW t, NEW ev \in TaskEvents, Apply(t, ev) PROVE state' \in [Tasks -> TaskStates]
  BY <1>2, ApplyType DEF TypeOK
<1>3. ASSUME NEW c \in Cores, TransitionTask(c) PROVE state' \in [Tasks -> TaskStates]
  <2>1. run[c] \in Run
    BY <1>3 DEF TransitionTask, At, TypeOK
  <2> QED
    BY <1>1, <1>2, <1>3, <2>1, CommandsAreEvents DEF TransitionTask
<1>4. ASSUME NEW c \in Cores, ThreadStep(c) \/ ProviderStep(c), ~TransitionTask(c)
      PROVE  state' \in [Tasks -> TaskStates]
  BY <1>1, <1>2, <1>4, CommandsAreEvents
     DEF ThreadStep, ProviderStep, StartTailing, RunTask, AllocationFails, FailAllocation, Register,
         AcquireLease, RunStarted, PrepareTurn, CheckControl, InvokeModel, StreamAborted,
         ExecuteTools, FinishRun, ResumeTask, ProviderFails, ModelAnswers, ModelCallsTools, quiet,
         durable
<1>5. ASSUME NEW c \in Cores, Boot(c) \/ Crash(c) \/ Handler(c)
      PROVE  state' \in [Tasks -> TaskStates]
  BY <1>1, <1>2, <1>5, CommandsAreEvents DEF Boot, Crash, Handler, SendCommand, durable
<1>6. ASSUME NEW c \in Cores, NEW t \in Tasks,
             \/ StartTask(c, t) \/ StopTask(c, t) \/ PauseTask(c, t) \/ SteerTask(c, t)
             \/ ReadyForReview(c, t)
      PROVE  state' \in [Tasks -> TaskStates]
  BY <1>1, <1>2, <1>6, CommandsAreEvents
     DEF StartTask, StopTask, PauseTask, SteerTask, ReadyForReview, Ask, durable
<1>7. CASE UNCHANGED vars
  BY <1>1, <1>7 DEF vars, durable
<1> QED
  BY <1>3, <1>4, <1>5, <1>6, <1>7 DEF Next

LEMMA TypeStep ==
  ASSUME TypeOK, SoundRuns, [Next]_vars
  PROVE  TypeOK' /\ SoundRuns'
<1> DEFINE Rest == <<started, leaseGen, core, todo, offset, notes, handlers, requests, crashes>>
           RestTyped ==
             /\ started' \in Seq(Tasks) /\ leaseGen' \in Nat
             /\ core' \in [Cores -> {"down", "boot", "tail"}]
             /\ todo' \in [Cores -> SUBSET Tasks]
             /\ offset' \in [Cores -> 0..Len(started')]
             /\ notes' \in [Cores -> SUBSET Tasks]
             /\ handlers' \in [Cores -> SUBSET ({"stop", "pause", "steer"} \X Tasks)]
             /\ requests' \in 0..MaxRequests /\ crashes' \in 0..MaxCrashes
<1>1. state' \in [Tasks -> TaskStates]
  BY TasksTyped
<1>2. RunsKept
  BY RunsStep
<1>3. ASSUME UNCHANGED Rest PROVE RestTyped
  BY <1>3 DEF TypeOK
<1>4. ASSUME NEW c \in Cores, ThreadStep(c) \/ ProviderStep(c) PROVE RestTyped
  <2>1. ASSUME StartTailing(c) PROVE RestTyped
    BY <2>1 DEF StartTailing, durable, bounds, TypeOK
  <2>2. ASSUME RunTask(c) PROVE RestTyped
    <3>1. offset[c] \in 0..Len(started) /\ offset[c] < Len(started) /\ Len(started) \in Nat
      BY <2>2 DEF RunTask, TypeOK
    <3>2. offset[c] + 1 \in 0..Len(started)
      BY <3>1
    <3> QED
      BY <2>2, <3>2 DEF RunTask, durable, bounds, TypeOK
  <2>3. ASSUME AcquireLease(c) PROVE RestTyped
    BY <2>3 DEF AcquireLease, bounds, TypeOK
  <2>4. ASSUME CheckControl(c) PROVE RestTyped
    BY <2>4 DEF CheckControl, quiet, bounds, TypeOK
  <2>5. ASSUME NEW t \in Tasks, ResumeTask(c, t) PROVE RestTyped
    BY <2>5 DEF ResumeTask, durable, bounds, TypeOK
  <2>6. ASSUME ~\E t \in Tasks : ResumeTask(c, t), ~StartTailing(c), ~RunTask(c), ~AcquireLease(c),
               ~CheckControl(c)
        PROVE  UNCHANGED Rest
    BY <1>4, <2>6
       DEF ThreadStep, ProviderStep, AllocationFails, FailAllocation, Register, RunStarted,
           PrepareTurn, InvokeModel, StreamAborted, ExecuteTools, FinishRun, TransitionTask,
           ProviderFails, ModelAnswers, ModelCallsTools, quiet, durable, bounds
  <2> HIDE DEF Rest, RestTyped
  <2> QED
    BY <1>3, <2>1, <2>2, <2>3, <2>4, <2>5, <2>6
<1>5. ASSUME NEW c \in Cores, Boot(c) PROVE RestTyped
  <2>1. 0 \in 0..Len(started)
    BY DEF TypeOK
  <2> QED
    BY <1>5, <2>1 DEF Boot, durable, bounds, TypeOK
<1>6. ASSUME NEW c \in Cores, Crash(c) PROVE RestTyped
  <2>1. crashes' \in 0..MaxCrashes
    BY <1>6, SchedulerBounds DEF Crash, TypeOK
  <2> QED
    BY <1>6, <2>1 DEF Crash, durable, TypeOK
<1>7. ASSUME NEW c \in Cores, Handler(c) PROVE RestTyped
  BY <1>7 DEF Handler, SendCommand, bounds, TypeOK
<1>8. ASSUME NEW c \in Cores, NEW kind, Request(c, kind) PROVE requests' \in 0..MaxRequests
  BY <1>8, SchedulerBounds DEF Request, TypeOK
<1>9. ASSUME NEW c \in Cores, NEW t \in Tasks, StartTask(c, t) PROVE RestTyped
  <2>1. started' \in Seq(Tasks) /\ Len(started') = Len(started) + 1 /\ Len(started) \in Nat
    BY <1>9 DEF StartTask, TypeOK
  <2>2. 0..Len(started) \subseteq 0..Len(started')
    BY <2>1
  <2>3. offset' \in [Cores -> 0..Len(started')]
    <3>1. offset' = offset /\ offset \in [Cores -> 0..Len(started)]
      BY <1>9 DEF StartTask, TypeOK
    <3> QED
      BY <2>2, <3>1
  <2> QED
    BY <1>8, <1>9, <2>1, <2>3 DEF StartTask, TypeOK
<1>10. ASSUME NEW c \in Cores, NEW t \in Tasks, ReadyForReview(c, t) PROVE RestTyped
  BY <1>8, <1>10 DEF ReadyForReview, TypeOK
<1>11. ASSUME NEW c \in Cores, NEW t \in Tasks, NEW kind \in {"stop", "pause", "steer"}, Ask(c, t, kind)
       PROVE  /\ handlers' \in [Cores -> SUBSET ({"stop", "pause", "steer"} \X Tasks)]
              /\ requests' \in 0..MaxRequests
              /\ UNCHANGED <<started, leaseGen, core, todo, offset, crashes>>
  BY <1>8, <1>11 DEF Ask, TypeOK, durable
<1>12. ASSUME NEW c \in Cores, NEW t \in Tasks, StopTask(c, t) \/ PauseTask(c, t) \/ SteerTask(c, t)
       PROVE  RestTyped
  <2>1. notes' \in [Cores -> SUBSET Tasks]
    <3>1. notes \in [Cores -> SUBSET Tasks]
      BY DEF TypeOK
    <3>2. notes[c] \cup {t} \in SUBSET Tasks
      BY <3>1
    <3>3. notes' = notes \/ notes' = [notes EXCEPT ![c] = notes[c] \cup {t}]
      BY <1>12 DEF StopTask, PauseTask, SteerTask
    <3> QED
      BY <3>1, <3>2, <3>3
  <2> QED
    BY <1>11, <1>12, <2>1 DEF StopTask, PauseTask, SteerTask, TypeOK
<1>13. ASSUME UNCHANGED vars PROVE RestTyped
  <2>1. UNCHANGED Rest
    BY <1>13 DEF vars, durable, bounds
  <2> HIDE DEF Rest, RestTyped
  <2> QED
    BY <1>3, <2>1
<1>14. RestTyped
  <2> HIDE DEF RestTyped
  <2> QED
    BY <1>4, <1>5, <1>6, <1>7, <1>9, <1>10, <1>12, <1>13 DEF Next
<1> QED
  BY <1>1, <1>2, <1>14 DEF RunsKept, TypeOK

LEMMA SchedulerAlways == Spec => [](TypeOK /\ SoundRuns)
<1>1. Init => TypeOK /\ SoundRuns
  <2> SUFFICES ASSUME Init PROVE TypeOK /\ SoundRuns
    OBVIOUS
  <2>1. "queued" \in TaskStates
    BY DEF TaskStates
  <2>2. requests \in 0..MaxRequests /\ crashes \in 0..MaxCrashes
    BY SchedulerBounds DEF Init
  <2>3. offset \in [Cores -> 0..Len(started)] /\ started \in Seq(Tasks)
    BY DEF Init
  <2> QED
    BY <2>1, <2>2, <2>3 DEF Init, TypeOK, SoundRuns
<1>2. (TypeOK /\ SoundRuns) /\ [Next]_vars => (TypeOK /\ SoundRuns)'
  BY TypeStep
<1> QED
  BY <1>1, <1>2, PTL DEF Spec

\* Every reachable state of the scheduler is well typed; above all, no run has more
\* turns than the configuration allows and no core reads past the log.
THEOREM SchedulerTypes == Spec => []TypeOK
BY SchedulerAlways, PTL

\* A run begins at most one turn after it was stopped or its lease was lost, for any
\* number of cores that take the session from each other.
THEOREM StopsAreHeard == Spec => []StoppedRunIsBounded
<1>1. TypeOK /\ SoundRuns => StoppedRunIsBounded
  BY DEF SoundRuns, Sound, Bounded, StoppedRunIsBounded
<1> QED
  BY <1>1, SchedulerAlways, PTL

-----------------------------------------------------------------------------
(***************************************************************************)
(* One core.  Nobody takes its lease, so none of its rows is refused; a    *)
(* run of the tail loop that has not recorded its start is the first of    *)
(* its task, and one that ended as completed recorded that last.  With a   *)
(* second core none of this holds.                                         *)
(***************************************************************************)
OneCore == \A c, d \in Cores : c = d

Starts == {"fresh_started", "resume_started"}

Begun(l) == \E i \in DOMAIN l : l[i] \in Starts

FirstFresh(l) == \A i, j \in DOMAIN l : j < i /\ l[j] \in Starts => l[i] # "fresh_started"

EndsIn(l, e) == l # <<>> /\ l[Len(l)] = e

Unstarted == {"claimed", "registered", "leased"}

Recorded(r, log, g) ==
  /\ r.gen \in {0, g}
  /\ r.path = "tail" /\ r.at \in Unstarted => ~Begun(log[r.task])
  /\ r.at \in {"ended", "finished"} /\ r.outcome = "completed" => EndsIn(log[r.task], "completed")

RunsRecorded == \A c \in Cores : run[c] # NoRun => Recorded(run[c], runLog, leaseGen)

LogInv == RunsRecorded /\ FreshRunIsFirst

LEMMA FreshMeans == FreshRunIsFirst <=> \A t \in Tasks : FirstFresh(runLog[t])
BY DEF FreshRunIsFirst, FirstFresh, Starts

LEMMA LogGrows ==
  ASSUME NEW l \in Seq(RunEvents), NEW e \in RunEvents, FirstFresh(l),
         e = "fresh_started" => ~Begun(l)
  PROVE  FirstFresh(l \o <<e>>) /\ EndsIn(l \o <<e>>, e)
<1>1. /\ Len(l) \in Nat /\ Len(l \o <<e>>) = Len(l) + 1 /\ l \o <<e>> \in Seq(RunEvents)
      /\ DOMAIN l = 1..Len(l) /\ DOMAIN (l \o <<e>>) = 1..Len(l) + 1
      /\ \A i \in 1..Len(l) : (l \o <<e>>)[i] = l[i]
      /\ (l \o <<e>>)[Len(l) + 1] = e
  OBVIOUS
<1> DEFINE m == l \o <<e>>
<1> HIDE DEF m
<1>2. FirstFresh(m)
  BY <1>1 DEF FirstFresh, Begun, m
<1>3. EndsIn(m, e)
  BY <1>1 DEF EndsIn, m
<1> QED
  BY <1>2, <1>3 DEF m

\* A row the run of the core writes.
LEMMA OneAppend ==
  ASSUME OneCore, TypeOK, LogInv, NEW c \in Cores, run[c] # NoRun, UNCHANGED leaseGen,
         NEW n \in Run, n.task = run[c].task, n.gen = run[c].gen, n.at \notin Unstarted,
         NEW evs, AppendRun(c, evs, n),
         \/ evs = <<>> /\ n.at \notin {"ended", "finished"}
         \/ \E e \in RunEvents :
              /\ evs = <<e>>
              /\ e = "fresh_started" => ~Begun(runLog[n.task])
              /\ n.at \in {"ended", "finished"} /\ n.outcome = "completed" => e = "completed"
  PROVE  LogInv'
<1> DEFINE m == [n EXCEPT !.cancelled = n.cancelled \/ Stale(n)]
<1>1. ~Stale(n) /\ n.task \in Tasks
  BY DEF LogInv, RunsRecorded, Recorded, Stale, Run
<1>2. run' = [run EXCEPT ![c] = m] /\ runLog' = [runLog EXCEPT ![n.task] = runLog[n.task] \o evs]
  BY <1>1 DEF AppendRun
<1>3. /\ m.task = n.task /\ m.gen = n.gen /\ m.at = n.at /\ m.path = n.path
      /\ m.outcome = n.outcome
  BY DEF Run
<1>4. runLog[n.task] \in Seq(RunEvents) /\ FirstFresh(runLog[n.task])
  BY <1>1, FreshMeans DEF TypeOK, LogInv
<1> HIDE DEF m
<1>5. run'[c] = m /\ \A d \in Cores : d = c
  BY <1>2 DEF TypeOK, OneCore
<1>6. FirstFresh(runLog'[n.task])
  <2>1. runLog'[n.task] = runLog[n.task] \o evs
    BY <1>1, <1>2 DEF TypeOK
  <2>2. CASE evs = <<>>
    <3>1. runLog[n.task] \o evs = runLog[n.task]
      BY <1>4, <2>2
    <3> QED
      BY <1>4, <2>1, <3>1
  <2> QED
    BY <1>4, <2>1, <2>2, LogGrows
<1>7. n.at \in {"ended", "finished"} /\ n.outcome = "completed" => EndsIn(runLog'[n.task], "completed")
  <2>1. runLog'[n.task] = runLog[n.task] \o evs
    BY <1>1, <1>2 DEF TypeOK
  <2> QED
    BY <1>4, <2>1, LogGrows
<1>8. \A t \in Tasks : FirstFresh(runLog'[t])
  BY <1>2, <1>6, FreshMeans DEF LogInv, TypeOK
<1>9. FreshRunIsFirst'
  BY <1>8 DEF FreshRunIsFirst, FirstFresh, Starts
<1>10. Recorded(m, runLog', leaseGen')
  BY <1>3, <1>7 DEF Recorded, LogInv, RunsRecorded
<1>11. RunsRecorded'
  BY <1>5, <1>10 DEF RunsRecorded
<1> QED
  BY <1>9, <1>11 DEF LogInv

\* A move of the run that writes nothing.
LEMMA OneMove ==
  ASSUME OneCore, TypeOK, LogInv, NEW c \in Cores, UNCHANGED runLog, NEW n,
         run' = [run EXCEPT ![c] = n], n # NoRun => Recorded(n, runLog, leaseGen')
  PROVE  LogInv'
<1>1. run'[c] = n /\ \A d \in Cores : d = c
  BY DEF TypeOK, OneCore
<1> QED
  BY <1>1 DEF LogInv, RunsRecorded, FreshRunIsFirst

LEMMA TurnRecorded ==
  ASSUME OneCore, TypeOK, LogInv, NEW c \in Cores,
         \/ RunStarted(c) \/ PrepareTurn(c) \/ CheckControl(c) \/ InvokeModel(c)
         \/ ModelAnswers(c) \/ ModelCallsTools(c) \/ ExecuteTools(c)
  PROVE  LogInv'
<1> DEFINE r == run[c]
<1>1. r # NoRun /\ r \in Run /\ Recorded(r, runLog, leaseGen)
  BY DEF RunStarted, PrepareTurn, CheckControl, InvokeModel, ModelAnswers, ModelCallsTools,
         ExecuteTools, At, TypeOK, LogInv, RunsRecorded
<1>2. UNCHANGED leaseGen
  BY DEF RunStarted, PrepareTurn, CheckControl, InvokeModel, ModelAnswers, ModelCallsTools,
         ExecuteTools, quiet
<1>3. ASSUME NEW n \in Run, n.task = r.task, n.gen = r.gen,
             n.at \in {"prepared", "streaming", "tools", "boundary"}, AppendRun(c, <<>>, n)
      PROVE  LogInv'
  BY <1>1, <1>2, <1>3, OneAppend DEF Unstarted
<1>4. ASSUME NEW o \in Outcomes, NEW e \in {"completed", "failed"}, End(c, <<e>>, o),
             o = "completed" => e = "completed"
      PROVE  LogInv'
  <2> DEFINE n == [r EXCEPT !.at = "ended", !.outcome = o]
  <2>1. n \in Run
    BY <1>1 DEF Run, Places, Registered
  <2>2. n.task = r.task /\ n.gen = r.gen /\ n.at = "ended" /\ n.outcome = o
    BY <1>1 DEF Run
  <2>3. AppendRun(c, <<e>>, n) /\ e \in RunEvents
    BY <1>4 DEF End, RunEvents
  <2> HIDE DEF n
  <2> QED
    BY <1>1, <1>2, <1>4, <2>1, <2>2, <2>3, OneAppend DEF Unstarted
<1>5. ASSUME NEW place \in {"tools", "boundary"}
      PROVE  LET n == [r EXCEPT !.at = place]
             IN  n \in Run /\ n.task = r.task /\ n.gen = r.gen /\ n.at = place
  BY <1>1 DEF Run, Places, Registered
<1>6. CASE RunStarted(c)
  <2> DEFINE n == [r EXCEPT !.at = "boundary"]
             e == IF r.path = "tail" THEN "fresh_started" ELSE "resume_started"
  <2>1. n \in Run /\ n.task = r.task /\ n.gen = r.gen /\ n.at = "boundary"
    BY <1>5
  <2>2. AppendRun(c, <<e>>, n) /\ r.at = "leased"
    BY <1>6 DEF RunStarted, At
  <2>3. e \in RunEvents /\ (e = "fresh_started" => ~Begun(runLog[r.task]))
    BY <1>1, <2>2 DEF RunEvents, Recorded, Unstarted
  <2> HIDE DEF n, e
  <2> QED
    BY <1>1, <1>2, <2>1, <2>2, <2>3, OneAppend DEF Unstarted
<1>7. CASE PrepareTurn(c)
  <2>1. CASE r.turn >= MaxTurns
    BY <1>4, <1>7, <2>1 DEF PrepareTurn, Outcomes
  <2>2. CASE ~(r.turn >= MaxTurns)
    <3> DEFINE n == [r EXCEPT !.at = "prepared", !.turn = r.turn + 1]
    <3>1. r.turn + 1 \in 0..MaxTurns
      <4>1. r.turn \in 0..MaxTurns
        BY <1>1 DEF Run
      <4> QED
        BY <2>2, <4>1, SchedulerBounds
    <3>2. n \in Run /\ n.task = r.task /\ n.gen = r.gen /\ n.at = "prepared"
      BY <1>1, <3>1 DEF Run, Places, Registered
    <3>3. AppendRun(c, <<>>, n)
      BY <1>7, <2>2 DEF PrepareTurn
    <3> QED
      BY <1>3, <3>2, <3>3
  <2> QED
    BY <2>1, <2>2
<1>8. CASE CheckControl(c)
  <2>1. CASE r.cancelled \/ r.paused
    BY <1>4, <1>8, <2>1 DEF CheckControl, Outcomes
  <2>2. CASE ~r.cancelled /\ ~r.paused
    <3> DEFINE n == [r EXCEPT !.at = "checked"]
    <3>1. run' = [run EXCEPT ![c] = n] /\ runLog' = runLog
      BY <1>8, <2>2 DEF CheckControl
    <3>2. n.gen = r.gen /\ n.at = "checked"
      BY <1>1 DEF Run
    <3>3. Recorded(n, runLog, leaseGen')
      BY <1>1, <1>2, <3>2 DEF Recorded, Unstarted
    <3> HIDE DEF n
    <3> QED
      BY <3>1, <3>3, OneMove
  <2> QED
    BY <2>1, <2>2
<1>9. CASE InvokeModel(c)
  <2> DEFINE over == r.cancelled \/ Stale(r)
             late == IF over THEN r.late + 1 ELSE r.late
             n == [r EXCEPT !.at = "streaming", !.late = late]
  <2>1. AppendRun(c, <<>>, n)
    BY <1>9 DEF InvokeModel
  <2>2. late \in Nat
    BY <1>1 DEF Run
  <2> HIDE DEF late
  <2>3. n \in Run /\ n.task = r.task /\ n.gen = r.gen /\ n.at = "streaming"
    BY <1>1, <2>2 DEF Run, Places, Registered
  <2> QED
    BY <1>3, <2>1, <2>3
<1>10. CASE ModelAnswers(c)
  BY <1>4, <1>10 DEF ModelAnswers, Outcomes
<1>11. CASE ModelCallsTools(c)
  BY <1>3, <1>5, <1>11 DEF ModelCallsTools
<1>12. CASE ExecuteTools(c)
  BY <1>3, <1>5, <1>12 DEF ExecuteTools
<1> QED
  BY <1>6, <1>7, <1>8, <1>9, <1>10, <1>11, <1>12

LEMMA LogStep ==
  ASSUME OneCore, TypeOK, LogInv, [Next]_vars
  PROVE  LogInv'
<1>1. CASE UNCHANGED <<run, runLog, leaseGen>>
  BY <1>1 DEF LogInv, RunsRecorded, FreshRunIsFirst
<1>2. ASSUME NEW c \in Cores, UNCHANGED runLog, run' = [run EXCEPT ![c] = NoRun]
      PROVE  LogInv'
  BY <1>2, OneMove
<1>3. ASSUME NEW c \in Cores, run[c] # NoRun, UNCHANGED <<runLog, leaseGen>>, NEW n,
             run' = [run EXCEPT ![c] = n],
             n.task = run[c].task, n.gen = run[c].gen, n.path = run[c].path,
             n.at \in Unstarted => run[c].at \in Unstarted,
             n.at \in {"ended", "finished"} /\ n.outcome = "completed" =>
               run[c].at \in {"ended", "finished"} /\ run[c].outcome = "completed"
      PROVE  LogInv'
  <2>1. Recorded(run[c], runLog, leaseGen)
    BY <1>3 DEF LogInv, RunsRecorded
  <2>2. Recorded(n, runLog, leaseGen')
    BY <1>3, <2>1 DEF Recorded
  <2> QED
    BY <1>3, <2>2, OneMove
<1>4. ASSUME NEW c \in Cores, run[c] # NoRun, UNCHANGED <<runLog, leaseGen>>, NEW place,
             run' = [run EXCEPT ![c].at = place],
             place \in {"errored", "registered", "leased", "finished"},
             place \in {"registered", "leased"} => run[c].at \in Unstarted,
             place = "finished" => run[c].at = "ended"
      PROVE  LogInv'
  <2> DEFINE n == [run[c] EXCEPT !.at = place]
  <2>1. run[c] \in Run /\ run' = [run EXCEPT ![c] = n]
    BY <1>4 DEF TypeOK
  <2>2. /\ n.task = run[c].task /\ n.gen = run[c].gen /\ n.path = run[c].path /\ n.at = place
        /\ n.outcome = run[c].outcome
    BY <2>1 DEF Run
  <2> HIDE DEF n
  <2> QED
    BY <1>3, <1>4, <2>1, <2>2 DEF Unstarted
<1>5. ASSUME NEW c \in Cores, NEW t \in Tasks, NEW path, Claim(c, t, path),
             UNCHANGED <<runLog, leaseGen>>, path = "tail" => ~Begun(runLog[t])
      PROVE  LogInv'
  <2> DEFINE n == [task |-> t, path |-> path, at |-> "claimed", turn |-> 0, cancelled |-> FALSE,
                   paused |-> FALSE, gen |-> 0, outcome |-> "none", late |-> 0]
  <2>1. run' = [run EXCEPT ![c] = n]
    BY <1>5 DEF Claim
  <2>2. n.task = t /\ n.path = path /\ n.at = "claimed" /\ n.gen = 0
    OBVIOUS
  <2> HIDE DEF n
  <2>3. Recorded(n, runLog, leaseGen')
    BY <1>5, <2>2 DEF Recorded
  <2> QED
    BY <1>5, <2>1, <2>3, OneMove
<1>6. ASSUME NEW c \in Cores, ThreadStep(c) \/ ProviderStep(c) PROVE LogInv'
  <2>1. Abort(c) => \/ run' = [run EXCEPT ![c] = NoRun]
                    \/ run' = [run EXCEPT ![c].at = "errored"]
    BY DEF Abort
  <2>2. CASE \/ AllocationFails(c) \/ FailAllocation(c) \/ TransitionTask(c)
    <3>1. run[c] # NoRun /\ UNCHANGED <<runLog, leaseGen>>
      BY <2>2 DEF AllocationFails, FailAllocation, TransitionTask, At, durable
    <3>2. \/ run' = [run EXCEPT ![c] = NoRun] \/ run' = [run EXCEPT ![c].at = "errored"]
      BY <2>1, <2>2 DEF AllocationFails, FailAllocation, TransitionTask
    <3> QED
      BY <1>2, <1>4, <3>1, <3>2
  <2>3. CASE Register(c) \/ FinishRun(c)
    BY <1>4, <2>3 DEF Register, FinishRun, At, Unstarted, durable, quiet
  <2>4. CASE StreamAborted(c) \/ ProviderFails(c)
    <3> DEFINE n == [run[c] EXCEPT !.at = "ended", !.outcome = "error"]
    <3>1. run[c] \in Run /\ run[c] # NoRun /\ UNCHANGED <<runLog, leaseGen>> /\ run' = [run EXCEPT ![c] = n]
      BY <2>4 DEF StreamAborted, ProviderFails, At, TypeOK, quiet
    <3>2. /\ n.task = run[c].task /\ n.gen = run[c].gen /\ n.path = run[c].path /\ n.at = "ended"
          /\ n.outcome = "error"
      BY <3>1 DEF Run
    <3> HIDE DEF n
    <3> QED
      BY <1>3, <3>1, <3>2 DEF Unstarted
  <2>5. CASE AcquireLease(c)
    <3>1. run[c] \in Run /\ run[c] # NoRun /\ run[c].at = "registered" /\ UNCHANGED runLog
      BY <2>5 DEF AcquireLease, At, TypeOK
    <3>2. CASE run' = [run EXCEPT ![c].at = "leased"] /\ UNCHANGED leaseGen
      BY <1>4, <3>1, <3>2 DEF Unstarted
    <3>3. CASE /\ leaseGen' = leaseGen + 1
               /\ run' = [run EXCEPT ![c] = [run[c] EXCEPT !.at = "leased", !.gen = leaseGen + 1]]
      <4> DEFINE n == [run[c] EXCEPT !.at = "leased", !.gen = leaseGen + 1]
      <4>1. /\ n.task = run[c].task /\ n.gen = leaseGen' /\ n.path = run[c].path
            /\ n.at = "leased"
        BY <3>1, <3>3 DEF Run
      <4>2. Recorded(run[c], runLog, leaseGen)
        BY <3>1 DEF LogInv, RunsRecorded
      <4>3. run' = [run EXCEPT ![c] = n]
        BY <3>3
      <4> HIDE DEF n
      <4>4. Recorded(n, runLog, leaseGen')
        BY <3>1, <4>1, <4>2 DEF Recorded, Unstarted
      <4> QED
        BY <3>1, <4>3, <4>4, OneMove
    <3> QED
      BY <2>5, <3>2, <3>3 DEF AcquireLease
  <2>6. CASE RunTask(c)
    <3>1. offset[c] \in 0..Len(started) /\ started \in Seq(Tasks) /\ offset[c] < Len(started)
      BY <2>6 DEF RunTask, TypeOK
    <3>2. started[offset[c] + 1] \in Tasks
      BY <3>1
    <3> QED
      BY <1>1, <1>5, <2>6, <3>2 DEF RunTask, HasRun, Begun, Starts, durable
  <2>7. ASSUME NEW t \in Tasks, ResumeTask(c, t) PROVE LogInv'
    BY <1>5, <2>7 DEF ResumeTask, durable
  <2>8. CASE StartTailing(c)
    BY <1>1, <2>8 DEF StartTailing, durable
  <2> QED
    BY <1>6, <2>2, <2>3, <2>4, <2>5, <2>6, <2>7, <2>8, TurnRecorded DEF ThreadStep, ProviderStep
<1>7. ASSUME NEW c \in Cores, NEW t \in Tasks, NEW field, Signal(c, t, field),
             UNCHANGED <<runLog, leaseGen>>
      PROVE  LogInv'
  <2>1. CASE run[c] # NoRun /\ run[c].task = t /\ run[c].at \in Registered
    <3> DEFINE n == [run[c] EXCEPT !.cancelled = run[c].cancelled \/ field = "stop",
                                   !.paused = run[c].paused \/ field = "pause"]
    <3>1. run[c] \in Run /\ run' = [run EXCEPT ![c] = n]
      BY <1>7, <2>1 DEF TypeOK, Signal
    <3>2. /\ n.task = run[c].task /\ n.gen = run[c].gen /\ n.path = run[c].path
          /\ n.at = run[c].at /\ n.outcome = run[c].outcome
      BY <3>1 DEF Run
    <3> HIDE DEF n
    <3> QED
      BY <1>3, <1>7, <2>1, <3>1, <3>2
  <2> QED
    BY <1>1, <1>7, <2>1 DEF Signal
<1>8. ASSUME NEW c \in Cores, NEW t \in Tasks, StopTask(c, t) \/ PauseTask(c, t) PROVE LogInv'
  BY <1>7, <1>8 DEF StopTask, PauseTask, Ask, durable
<1>9. ASSUME NEW c \in Cores, NEW t \in Tasks,
             SteerTask(c, t) \/ StartTask(c, t) \/ ReadyForReview(c, t)
      PROVE  LogInv'
  BY <1>1, <1>9 DEF SteerTask, Ask, StartTask, ReadyForReview, durable
<1>10. ASSUME NEW c \in Cores, Crash(c) PROVE LogInv'
  BY <1>2, <1>10 DEF Crash, durable
<1>11. ASSUME NEW c \in Cores, Boot(c) \/ Handler(c) PROVE LogInv'
  BY <1>1, <1>11 DEF Boot, Handler, SendCommand, durable
<1>12. CASE UNCHANGED vars
  BY <1>1, <1>12 DEF vars, durable
<1> QED
  BY <1>6, <1>8, <1>9, <1>10, <1>11, <1>12 DEF Next

LEMMA LogAlways == ASSUME OneCore PROVE Spec => []LogInv
<1>1. Init => LogInv
  BY DEF Init, LogInv, RunsRecorded, FreshRunIsFirst
<1>2. TypeOK /\ LogInv /\ [Next]_vars => LogInv'
  BY LogStep
<1> QED
  BY <1>1, <1>2, SchedulerTypes, PTL DEF Spec

\* With one core on the store, a fresh run is the first run of its task, whatever the
\* core replays after any number of crashes and however often the task is started.
THEOREM TasksRunFreshOnce == ASSUME OneCore PROVE Spec => []FreshRunIsFirst
<1>1. LogInv => FreshRunIsFirst
  BY DEF LogInv
<1> QED
  BY <1>1, LogAlways, PTL

\* The step in which a thread hands a task to review: it is the transition of a run
\* that completed.
LEMMA ReviewStep ==
  ASSUME OneCore, TypeOK, LogInv, [Next]_vars, NEW c \in Cores, NEW t \in Tasks,
         At(c, "finished"), run'[c] # run[c],
         state[t] # "ready_for_review", state'[t] = "ready_for_review"
  PROVE  run[c].task = t /\ EndsIn(runLog[t], "completed")
<1>1. run[c] # NoRun /\ run[c] \in Run /\ run[c].at = "finished"
  BY DEF At, TypeOK
<1>2. \A d \in Cores : d = c
  BY DEF OneCore
<1>3. TransitionTask(c)
  <2>1. ~(run' = run) /\ ~(state' = state)
    OBVIOUS
  <2>2. ASSUME NEW d \in Cores, ThreadStep(d) \/ ProviderStep(d) PROVE TransitionTask(c)
    BY <1>1, <1>2, <2>1, <2>2
       DEF ThreadStep, ProviderStep, StartTailing, RunTask, AllocationFails, FailAllocation,
           Register, AcquireLease, RunStarted, PrepareTurn, CheckControl, InvokeModel,
           StreamAborted, ExecuteTools, FinishRun, ResumeTask, ProviderFails, ModelAnswers,
           ModelCallsTools, At, quiet, durable
  <2>3. ASSUME NEW d \in Cores, Boot(d) \/ Crash(d) \/ Handler(d) PROVE FALSE
    BY <2>1, <2>3 DEF Boot, Crash, Handler, SendCommand, durable
  <2>4. ASSUME NEW d \in Cores, NEW u \in Tasks,
               \/ StartTask(d, u) \/ StopTask(d, u) \/ PauseTask(d, u) \/ SteerTask(d, u)
               \/ ReadyForReview(d, u)
        PROVE  FALSE
    BY <2>1, <2>4 DEF StartTask, StopTask, PauseTask, SteerTask, ReadyForReview, Ask, durable
  <2> QED
    BY <2>1, <2>2, <2>3, <2>4 DEF Next, vars, durable
<1>4. run[c].task = t /\ StateAfter(state[t], OutcomeEvent(run[c])) = "ready_for_review"
  BY <1>1, <1>3 DEF TransitionTask, Apply, TypeOK, Run
<1>5. OutcomeEvent(run[c]) = "task_ready_for_review"
  BY <1>4 DEF StateAfter
<1>6. run[c].outcome = "completed"
  BY <1>1, <1>5 DEF OutcomeEvent, Run, Outcomes, None
<1> QED
  BY <1>1, <1>4, <1>6 DEF LogInv, RunsRecorded, Recorded

\* With one core on the store, the scheduler hands a task to review only on a completion
\* that is the last row of the task's run log, whatever stops, pauses, steers and
\* reviews clients sent meanwhile.
THEOREM ReviewsAreEarned == ASSUME OneCore PROVE Spec => ReviewFollowsCompletion
<1>1. TypeOK /\ LogInv /\ [Next]_vars =>
        [\A c \in Cores, t \in Tasks :
           /\ At(c, "finished") /\ run'[c] # run[c]
           /\ state[t] # "ready_for_review" /\ state'[t] = "ready_for_review"
           => /\ run[c].task = t /\ runLog[t] # <<>>
              /\ runLog[t][Len(runLog[t])] = "completed"]_vars
  BY ReviewStep DEF EndsIn
<1> QED
  BY <1>1, LogAlways, SchedulerTypes, PTL DEF Spec, ReviewFollowsCompletion

-----------------------------------------------------------------------------
(***************************************************************************)
(* The output a run stores (OutputStore).                                  *)
(***************************************************************************)
CONSTANTS Refs, Writers, Payloads, MaxWrites, Absent, Garbage

VARIABLES backend, row, bytes, meta, writing, begun, acked, tampered

Output == INSTANCE OutputStore WITH None <- Absent

Rows == [inline : Payloads \cup {Absent}, length : Payloads]

\* Absent is NULL and Garbage whatever bytes come to be from outside: no payload has its
\* digest.  A read tells a payload from an answer without one.
OutputAssumptions ==
  /\ Absent \notin Payloads \cup Rows /\ Garbage \notin Payloads \cup {Absent}
  /\ "not found" \notin Payloads /\ "error" \notin Payloads

Backed == backend \in {"sqlite", "fs", "s3"}

Writings == [at : {"rest", "put", "meta", "row"}, ref : Refs \cup {Absent},
             payload : Payloads \cup {Absent}]

OutputTypes ==
  /\ backend \in Output!Deployments
  /\ row \in [Refs -> Rows \cup {Absent}] /\ bytes \in [Refs -> Payloads \cup {Absent, Garbage}]
  /\ meta \in [Refs -> Payloads \cup {Absent}]
  /\ writing \in [Writers -> Writings]
  /\ begun \in [Refs -> Seq(Payloads)] /\ acked \in SUBSET Refs /\ tampered \in SUBSET Refs

Busy(w) == writing[w].at # "rest"

Written(r) == {begun[r][i] : i \in DOMAIN begun[r]}

\* The backend holds the payload p under r, with its digest where it keeps one.
Stored(r, p) == bytes[r] = p /\ (backend # "s3" => meta[r] = p)

\* Where a write of a reference is that is the only one of it so far.
AloneOK(w) ==
  LET r == writing[w].ref
      p == writing[w].payload
  IN  Busy(w) /\ Len(begun[r]) = 1 /\ r \notin tampered =>
        /\ writing[w].at = "put" => bytes[r] = Absent /\ meta[r] = Absent
        /\ writing[w].at = "meta" => bytes[r] = p
        /\ writing[w].at = "row" /\ Backed => Stored(r, p)
        /\ ~Backed => bytes[r] = Absent

\* A reference that was handed out and written once.
AckedOK(r) ==
  r \notin tampered /\ Len(begun[r]) = 1 =>
    \/ row[r].inline = row[r].length /\ bytes[r] = Absent
    \/ row[r].inline = Absent /\ Backed /\ Stored(r, row[r].length)

WriterOK(w) ==
  Busy(w) =>
    /\ writing[w].ref \in Refs /\ writing[w].payload \in Payloads \cap Written(writing[w].ref)
    /\ Len(begun[writing[w].ref]) # 0
    /\ writing[w].ref \in acked => Len(begun[writing[w].ref]) # 1
    /\ writing[w].at = "meta" => backend = "fs"
    /\ writing[w].at # "put" => backend # "postgres"

\* Two writers of a reference are two writes of it.
ApartOK(v, w) ==
  v # w /\ Busy(v) /\ Busy(w) /\ writing[v].ref = writing[w].ref => Len(begun[writing[v].ref]) # 1

RefOK(r) ==
  /\ Len(begun[r]) = 0 => r \notin acked /\ bytes[r] = Absent /\ meta[r] = Absent
  /\ r \in acked <=> row[r] # Absent
  /\ ~Backed => bytes[r] = Absent /\ (row[r] # Absent => row[r].inline \in Payloads)
  /\ bytes[r] = Garbage => r \in tampered
  /\ bytes[r] \in Payloads => bytes[r] \in Written(r)
  /\ row[r] # Absent /\ row[r].inline \in Payloads => row[r].inline \in Written(r)
  /\ r \in acked => AckedOK(r)

OutputInv ==
  /\ OutputTypes
  /\ \A w \in Writers : WriterOK(w) /\ AloneOK(w)
  /\ \A v, w \in Writers : ApartOK(v, w)
  /\ \A r \in Refs : RefOK(r)

LEMMA OutputStart ==
  ASSUME OutputAssumptions, Output!OutInit PROVE OutputInv
<1>1. \A w \in Writers : ~Busy(w)
  BY DEF Output!OutInit, Output!AtRest, Busy
<1>2. OutputTypes
  BY DEF Output!OutInit, OutputTypes, Output!AtRest, Writings
<1>3. ASSUME NEW r \in Refs PROVE RefOK(r)
  BY DEF Output!OutInit, OutputAssumptions, RefOK
<1> QED
  BY <1>1, <1>2, <1>3 DEF OutputInv, WriterOK, AloneOK, ApartOK

LEMMA OutputImplies ==
  ASSUME OutputAssumptions, OutputInv PROVE Output!ReadsFailClosed /\ Output!AckedIsReadable
<1>1. ASSUME NEW r \in Refs, Output!Load(r) \notin {"not found", "error"},
             ~(backend = "s3" /\ r \in tampered)
      PROVE  Output!Load(r) \in Written(r)
  BY <1>1 DEF OutputAssumptions, OutputInv, OutputTypes, Output!Deployments, Output!Load,
     Output!Get, Output!GetSqlite, Output!GetFs, Output!GetS3, Backed, Rows, RefOK
<1>2. ASSUME NEW r \in acked \ tampered, Len(begun[r]) = 1 PROVE Output!Load(r) = row[r].length
  <2>0. r \in Refs /\ backend \in Output!Deployments
    BY DEF OutputInv, OutputTypes
  <2>1. row[r] # Absent /\ AckedOK(r) /\ (~Backed => row[r].inline # Absent)
    BY <2>0 DEF OutputAssumptions, OutputInv, RefOK, Written
  <2>2. row[r].length \in Payloads
    BY <2>0, <2>1 DEF OutputInv, OutputTypes, Rows
  <2>3. CASE row[r].inline = row[r].length /\ bytes[r] = Absent
    <3>1. Output!Get(r) = "not found"
      BY <2>3 DEF Output!Get, Output!GetSqlite, Output!GetFs, Output!GetS3
    <3> QED
      BY <3>1, <2>0, <2>1, <2>2, <2>3 DEF Output!Load, OutputAssumptions
  <2>4. CASE row[r].inline = Absent /\ Backed /\ Stored(r, row[r].length)
    <3>1. Output!Get(r) = row[r].length
      BY <2>2, <2>4 DEF Output!Get, Output!GetSqlite, Output!GetFs, Output!GetS3, Stored, Backed,
         OutputAssumptions
    <3>2. Output!Get(r) # "not found" /\ ~(backend \in {"inline", "postgres"})
      BY <3>1, <2>2, <2>4 DEF OutputAssumptions, Backed
    <3> QED
      BY <3>1, <3>2, <2>1 DEF Output!Load
  <2> QED
    BY <2>1, <2>3, <2>4, <1>2 DEF AckedOK
<1> QED
  BY <1>1, <1>2 DEF Output!ReadsFailClosed, Output!AckedIsReadable, Written

\* A writer writes on, at the reference r it writes.
LEMMA WritesOn ==
  ASSUME OutputAssumptions, OutputInv, OutputTypes', NEW w \in Writers, NEW r \in Refs, NEW p \in Payloads,
         Busy(w), Busy(w)', writing[w].ref = r, writing[w].payload = p,
         writing'[w].ref = r, writing'[w].payload = p,
         \A v \in Writers \ {w} : writing'[v] = writing[v],
         UNCHANGED <<begun, acked, tampered, row, backend>>,
         \A q \in Refs \ {r} : bytes'[q] = bytes[q] /\ meta'[q] = meta[q],
         bytes'[r] \in {bytes[r], p}, Backed \/ bytes' = bytes,
         writing'[w].at = "meta" => backend = "fs", backend # "postgres",
         AloneOK(w)'
  PROVE  OutputInv'
<1>1. WriterOK(w) /\ Len(begun[r]) # 0 /\ (r \in acked => Len(begun[r]) # 1)
  BY DEF OutputInv, WriterOK, Written
<1>2. ASSUME NEW v \in Writers PROVE WriterOK(v)'
  <2>1. CASE v = w
    BY <2>1, <1>1 DEF WriterOK, Busy, Written
  <2>2. CASE v # w
    <3>1. WriterOK(v) /\ writing'[v] = writing[v] /\ (Busy(v)' <=> Busy(v))
      BY <2>2 DEF OutputInv, Busy
    <3> QED
      BY <3>1 DEF WriterOK, Written
  <2> QED
    BY <2>1, <2>2
<1>3. ASSUME NEW u \in Writers, NEW v \in Writers PROVE ApartOK(u, v)'
  <2>1. ApartOK(u, v)
    BY DEF OutputInv
  <2>2. writing'[u].ref = writing[u].ref /\ (Busy(u)' <=> Busy(u))
    BY DEF Busy
  <2>3. writing'[v].ref = writing[v].ref /\ (Busy(v)' <=> Busy(v))
    BY DEF Busy
  <2> QED
    BY <2>1, <2>2, <2>3 DEF ApartOK
<1>4. ASSUME NEW v \in Writers PROVE AloneOK(v)'
  <2>1. CASE v = w
    BY <2>1
  <2>2. CASE v # w /\ writing[v].ref = r /\ Busy(v)
    <3>1. Len(begun[r]) # 1
      BY <2>2 DEF OutputInv, ApartOK
    <3>2. writing'[v] = writing[v]
      BY <2>2
    <3> QED
      BY <3>1, <3>2, <2>2 DEF AloneOK
  <2>3. CASE v # w /\ ~(writing[v].ref = r /\ Busy(v))
    <3>1. AloneOK(v) /\ writing'[v] = writing[v] /\ (Busy(v) => writing[v].ref \in Refs \ {r})
      BY <2>3 DEF OutputInv, WriterOK, Written
    <3> QED
      BY <3>1 DEF AloneOK, Busy, Stored, Backed
  <2> QED
    BY <2>1, <2>2, <2>3
<1>5. ASSUME NEW q \in Refs PROVE RefOK(q)'
  <2>1. CASE q = r
    <3>1. bytes'[r] = Garbage => r \in tampered
      BY DEF OutputAssumptions, OutputInv, RefOK, Written
    <3>2. RefOK(r) /\ p \in Written(r) /\ Written(r)' = Written(r)
      BY DEF OutputInv, WriterOK, Written
    <3>3. bytes'[r] \in Payloads => bytes'[r] \in Written(r)
      BY <3>2 DEF RefOK
    <3> QED
      BY <3>1, <3>2, <3>3, <2>1, <1>1 DEF RefOK, AckedOK, Backed
  <2>2. CASE q # r
    <3>1. RefOK(q) /\ bytes'[q] = bytes[q] /\ meta'[q] = meta[q]
      BY <2>2 DEF OutputInv
    <3> QED
      BY <3>1 DEF RefOK, AckedOK, Stored, Backed, Written
  <2> QED
    BY <2>1, <2>2
<1> QED
  BY <1>2, <1>3, <1>4, <1>5 DEF OutputInv

LEMMA PutInlineStep ==
  ASSUME OutputAssumptions, OutputInv, NEW w \in Writers, Output!PutInline(w) PROVE OutputInv'
<1> DEFINE r == writing[w].ref
           p == writing[w].payload
<1>1. Busy(w) /\ r \in Refs /\ p \in Payloads /\ backend # "postgres" /\ AloneOK(w)
  BY DEF Output!PutInline, OutputInv, WriterOK, Busy, Output!Writes, Written
<1>2. OutputTypes'
  BY <1>1 DEF Output!PutInline, OutputInv, OutputTypes, Writings, Output!Step
<1>3. /\ Busy(w)' /\ writing'[w].ref = r /\ writing'[w].payload = p
      /\ \A v \in Writers \ {w} : writing'[v] = writing[v]
      /\ writing'[w].at = "meta" => backend = "fs"
  BY DEF Output!PutInline, OutputInv, OutputTypes, Writings, Output!Step, Busy
<1>4. /\ UNCHANGED <<begun, acked, tampered, row, backend>>
      /\ \A q \in Refs \ {r} : bytes'[q] = bytes[q] /\ meta'[q] = meta[q]
      /\ bytes'[r] \in {bytes[r], p}
      /\ Backed \/ bytes' = bytes
  BY <1>1 DEF Output!PutInline, OutputInv, OutputTypes, Backed
<1>5. AloneOK(w)'
  BY <1>1, <1>3, <1>4
     DEF Output!PutInline, OutputInv, OutputTypes, Writings, AloneOK, Busy, Stored, Backed, Output!Step,
         Output!Writes, RefOK
<1> QED
  BY <1>1, <1>2, <1>3, <1>4, <1>5, WritesOn

LEMMA PutSqliteStep ==
  ASSUME OutputAssumptions, OutputInv, NEW w \in Writers, Output!PutSqlite(w) PROVE OutputInv'
<1> DEFINE r == writing[w].ref
           p == writing[w].payload
<1>1. Busy(w) /\ r \in Refs /\ p \in Payloads /\ backend # "postgres" /\ AloneOK(w)
  BY DEF Output!PutSqlite, OutputInv, WriterOK, Busy, Output!Writes, Written
<1>2. OutputTypes'
  BY <1>1 DEF Output!PutSqlite, OutputInv, OutputTypes, Writings, Output!Step
<1>3. /\ Busy(w)' /\ writing'[w].ref = r /\ writing'[w].payload = p
      /\ \A v \in Writers \ {w} : writing'[v] = writing[v]
      /\ writing'[w].at = "meta" => backend = "fs"
  BY DEF Output!PutSqlite, OutputInv, OutputTypes, Writings, Output!Step, Busy
<1>4. /\ UNCHANGED <<begun, acked, tampered, row, backend>>
      /\ \A q \in Refs \ {r} : bytes'[q] = bytes[q] /\ meta'[q] = meta[q]
      /\ bytes'[r] \in {bytes[r], p}
      /\ Backed \/ bytes' = bytes
  BY <1>1 DEF Output!PutSqlite, OutputInv, OutputTypes, Backed
<1>5. AloneOK(w)'
  BY <1>1, <1>3, <1>4
     DEF Output!PutSqlite, OutputInv, OutputTypes, Writings, AloneOK, Busy, Stored, Backed, Output!Step,
         Output!Writes, RefOK
<1> QED
  BY <1>1, <1>2, <1>3, <1>4, <1>5, WritesOn

LEMMA PutRenameStep ==
  ASSUME OutputAssumptions, OutputInv, NEW w \in Writers, Output!PutRename(w) PROVE OutputInv'
<1> DEFINE r == writing[w].ref
           p == writing[w].payload
<1>1. Busy(w) /\ r \in Refs /\ p \in Payloads /\ backend # "postgres" /\ AloneOK(w)
  BY DEF Output!PutRename, OutputInv, WriterOK, Busy, Output!Writes, Written
<1>2. OutputTypes'
  BY <1>1 DEF Output!PutRename, OutputInv, OutputTypes, Writings, Output!Step
<1>3. /\ Busy(w)' /\ writing'[w].ref = r /\ writing'[w].payload = p
      /\ \A v \in Writers \ {w} : writing'[v] = writing[v]
      /\ writing'[w].at = "meta" => backend = "fs"
  BY DEF Output!PutRename, OutputInv, OutputTypes, Writings, Output!Step, Busy
<1>4. /\ UNCHANGED <<begun, acked, tampered, row, backend>>
      /\ \A q \in Refs \ {r} : bytes'[q] = bytes[q] /\ meta'[q] = meta[q]
      /\ bytes'[r] \in {bytes[r], p}
      /\ Backed \/ bytes' = bytes
  BY <1>1 DEF Output!PutRename, OutputInv, OutputTypes, Backed
<1>5. AloneOK(w)'
  BY <1>1, <1>3, <1>4
     DEF Output!PutRename, OutputInv, OutputTypes, Writings, AloneOK, Busy, Stored, Backed, Output!Step,
         Output!Writes, RefOK
<1> QED
  BY <1>1, <1>2, <1>3, <1>4, <1>5, WritesOn

LEMMA PutMetaStep ==
  ASSUME OutputAssumptions, OutputInv, NEW w \in Writers, Output!PutMeta(w) PROVE OutputInv'
<1> DEFINE r == writing[w].ref
           p == writing[w].payload
<1>1. Busy(w) /\ r \in Refs /\ p \in Payloads /\ backend # "postgres" /\ AloneOK(w)
  BY DEF Output!PutMeta, OutputInv, WriterOK, Busy, Output!Writes, Written
<1>2. OutputTypes'
  BY <1>1 DEF Output!PutMeta, OutputInv, OutputTypes, Writings, Output!Step
<1>3. /\ Busy(w)' /\ writing'[w].ref = r /\ writing'[w].payload = p
      /\ \A v \in Writers \ {w} : writing'[v] = writing[v]
      /\ writing'[w].at = "meta" => backend = "fs"
  BY DEF Output!PutMeta, OutputInv, OutputTypes, Writings, Output!Step, Busy
<1>4. /\ UNCHANGED <<begun, acked, tampered, row, backend>>
      /\ \A q \in Refs \ {r} : bytes'[q] = bytes[q] /\ meta'[q] = meta[q]
      /\ bytes'[r] \in {bytes[r], p}
      /\ Backed \/ bytes' = bytes
  BY <1>1 DEF Output!PutMeta, OutputInv, OutputTypes, Backed
<1>5. AloneOK(w)'
  BY <1>1, <1>3, <1>4
     DEF Output!PutMeta, OutputInv, OutputTypes, Writings, AloneOK, Busy, Stored, Backed, Output!Step,
         Output!Writes, RefOK
<1> QED
  BY <1>1, <1>2, <1>3, <1>4, <1>5, WritesOn

LEMMA PutS3Step ==
  ASSUME OutputAssumptions, OutputInv, NEW w \in Writers, Output!PutS3(w) PROVE OutputInv'
<1> DEFINE r == writing[w].ref
           p == writing[w].payload
<1>1. Busy(w) /\ r \in Refs /\ p \in Payloads /\ backend # "postgres" /\ AloneOK(w)
  BY DEF Output!PutS3, OutputInv, WriterOK, Busy, Output!Writes, Written
<1>2. OutputTypes'
  BY <1>1 DEF Output!PutS3, OutputInv, OutputTypes, Writings, Output!Step
<1>3. /\ Busy(w)' /\ writing'[w].ref = r /\ writing'[w].payload = p
      /\ \A v \in Writers \ {w} : writing'[v] = writing[v]
      /\ writing'[w].at = "meta" => backend = "fs"
  BY DEF Output!PutS3, OutputInv, OutputTypes, Writings, Output!Step, Busy
<1>4. /\ UNCHANGED <<begun, acked, tampered, row, backend>>
      /\ \A q \in Refs \ {r} : bytes'[q] = bytes[q] /\ meta'[q] = meta[q]
      /\ bytes'[r] \in {bytes[r], p}
      /\ Backed \/ bytes' = bytes
  BY <1>1 DEF Output!PutS3, OutputInv, OutputTypes, Backed
<1>5. AloneOK(w)'
  BY <1>1, <1>3, <1>4
     DEF Output!PutS3, OutputInv, OutputTypes, Writings, AloneOK, Busy, Stored, Backed, Output!Step,
         Output!Writes, RefOK
<1> QED
  BY <1>1, <1>2, <1>3, <1>4, <1>5, WritesOn

\* A write ends with its row.
LEMMA RowWritten ==
  ASSUME OutputAssumptions, OutputInv, OutputTypes', NEW w \in Writers, NEW r \in Refs, Busy(w), writing[w].ref = r,
         \A v \in Writers \ {w} : writing'[v] = writing[v], ~Busy(w)',
         UNCHANGED <<begun, tampered, backend, bytes, meta>>,
         acked' = acked \cup {r}, row'[r] # Absent,
         \A q \in Refs \ {r} : row'[q] = row[q],
         ~Backed => row'[r].inline \in Payloads,
         row'[r].inline \in Payloads => row'[r].inline \in Written(r),
         AckedOK(r)'
  PROVE  OutputInv'
<1>1. Len(begun[r]) # 0
  BY DEF OutputInv, WriterOK, Written
<1>2. ASSUME NEW v \in Writers, v # w
      PROVE  /\ writing'[v] = writing[v] /\ (Busy(v)' <=> Busy(v))
             /\ Busy(v) /\ writing[v].ref = r => Len(begun[r]) # 1
  BY <1>2 DEF OutputInv, ApartOK, Busy
<1>3. ASSUME NEW v \in Writers PROVE WriterOK(v)'
  <2>1. CASE v = w
    BY <2>1 DEF WriterOK, Written
  <2>2. CASE v # w
    BY <2>2, <1>2 DEF OutputInv, WriterOK, Written
  <2> QED
    BY <2>1, <2>2
<1>4. ASSUME NEW v \in Writers PROVE AloneOK(v)'
  <2>1. CASE v = w
    BY <2>1 DEF AloneOK
  <2>2. CASE v # w
    BY <2>2, <1>2 DEF OutputInv, AloneOK, Stored, Backed
  <2> QED
    BY <2>1, <2>2
<1>5. ASSUME NEW u \in Writers, NEW v \in Writers PROVE ApartOK(u, v)'
  <2>1. CASE u = w \/ v = w
    BY <2>1 DEF ApartOK
  <2>2. CASE u # w /\ v # w
    BY <2>2, <1>2 DEF OutputInv, ApartOK
  <2> QED
    BY <2>1, <2>2
<1>6. ASSUME NEW q \in Refs PROVE RefOK(q)'
  <2>1. CASE q = r
    <3>1. RefOK(r) /\ Written(r)' = Written(r)
      BY DEF OutputInv, Written
    <3> QED
      BY <3>1, <2>1, <1>1 DEF RefOK, Backed
  <2>2. CASE q # r
    <3>1. RefOK(q) /\ row'[q] = row[q] /\ (q \in acked' <=> q \in acked)
      BY <2>2 DEF OutputInv
    <3> QED
      BY <3>1 DEF RefOK, AckedOK, Stored, Backed, Written
  <2> QED
    BY <2>1, <2>2
<1> QED
  BY <1>3, <1>4, <1>5, <1>6 DEF OutputInv

LEMMA PutPostgresStep ==
  ASSUME OutputAssumptions, OutputInv, NEW w \in Writers, Output!PutPostgres(w) PROVE OutputInv'
<1>0. Busy(w) /\ writing[w].ref \in Refs /\ writing[w].payload \in Payloads /\ AloneOK(w)
  BY DEF Output!PutPostgres, OutputInv, WriterOK, Busy, Output!Writes, Written
<1> PICK r \in Refs, p \in Payloads : r = writing[w].ref /\ p = writing[w].payload
  BY <1>0
<1> PICK x : x = [inline |-> p, length |-> p]
  OBVIOUS
<1>1. Busy(w) /\ r \in Refs /\ p \in Payloads /\ AloneOK(w)
  BY <1>0
<1>2. x \in Rows /\ x.length = p /\ x \in Rows \cup {Absent} /\ x # Absent
  <2>1. x \in Rows /\ x.length = p
    BY <1>1 DEF Rows
  <2> QED
    BY <2>1 DEF OutputAssumptions
<1>3. /\ row' = [row EXCEPT ![r] = x] /\ acked' = acked \cup {r}
      /\ writing' = [writing EXCEPT ![w] = Output!AtRest]
      /\ UNCHANGED <<begun, tampered, backend, bytes, meta>>
  BY DEF Output!PutPostgres
<1>4. /\ x.inline = p \/ x.inline = Absent
      /\ ~Backed => x.inline = p
      /\ x.inline = p => ~Backed
  BY <1>1 DEF Output!PutPostgres, OutputInv, OutputTypes, Backed, Output!Deployments, OutputAssumptions,
     WriterOK, Output!Writes
<1>5. /\ row'[r] = x /\ \A q \in Refs \ {r} : row'[q] = row[q]
      /\ \A v \in Writers \ {w} : writing'[v] = writing[v]
      /\ ~Busy(w)'
  BY <1>1, <1>3 DEF OutputInv, OutputTypes, Busy, Output!AtRest
<1>6. OutputTypes'
  BY <1>1, <1>2, <1>3 DEF OutputInv, OutputTypes, Writings, Output!AtRest
<1>7. AckedOK(r)'
  <2> SUFFICES ASSUME r \notin tampered, Len(begun[r]) = 1
               PROVE  \/ x.inline = x.length /\ bytes[r] = Absent
                      \/ x.inline = Absent /\ Backed /\ Stored(r, x.length)
    BY <1>3, <1>5 DEF AckedOK, Backed, Stored
  <2>1. ~Backed => bytes[r] = Absent
    BY <1>1 DEF AloneOK
  <2>2. Backed => Stored(r, p)
    BY <1>1 DEF AloneOK, Output!PutPostgres, Output!Writes, Backed
  <2> QED
    BY <2>1, <2>2, <1>1, <1>2, <1>4
<1>8. /\ ~Backed => row'[r].inline \in Payloads
      /\ row'[r].inline \in Payloads => row'[r].inline \in Written(r)
  <2>1. p \in Written(r)
    BY <1>1 DEF OutputInv, WriterOK
  <2> QED
    BY <2>1, <1>1, <1>4, <1>5 DEF OutputAssumptions
<1> QED
  BY <1>1, <1>2, <1>3, <1>5, <1>6, <1>7, <1>8, RowWritten

LEMMA PutRowStep ==
  ASSUME OutputAssumptions, OutputInv, NEW w \in Writers, Output!PutRow(w) PROVE OutputInv'
<1>0. Busy(w) /\ writing[w].ref \in Refs /\ writing[w].payload \in Payloads /\ AloneOK(w)
  BY DEF Output!PutRow, OutputInv, WriterOK, Busy, Output!Writes, Written
<1> PICK r \in Refs, p \in Payloads : r = writing[w].ref /\ p = writing[w].payload
  BY <1>0
<1> PICK x : x = [inline |-> IF backend = "inline" THEN p ELSE Absent, length |-> p]
  OBVIOUS
<1>1. Busy(w) /\ r \in Refs /\ p \in Payloads /\ AloneOK(w)
  BY <1>0
<1>2. x \in Rows /\ x.length = p /\ x \in Rows \cup {Absent} /\ x # Absent
  <2>1. x \in Rows /\ x.length = p
    BY <1>1 DEF Rows
  <2> QED
    BY <2>1 DEF OutputAssumptions
<1>3. /\ row' = [row EXCEPT ![r] = x] /\ acked' = acked \cup {r}
      /\ writing' = [writing EXCEPT ![w] = Output!AtRest]
      /\ UNCHANGED <<begun, tampered, backend, bytes, meta>>
  BY DEF Output!PutRow
<1>4. /\ x.inline = p \/ x.inline = Absent
      /\ ~Backed => x.inline = p
      /\ x.inline = p => ~Backed
  BY <1>1 DEF Output!PutRow, OutputInv, OutputTypes, Backed, Output!Deployments, OutputAssumptions,
     WriterOK, Output!Writes
<1>5. /\ row'[r] = x /\ \A q \in Refs \ {r} : row'[q] = row[q]
      /\ \A v \in Writers \ {w} : writing'[v] = writing[v]
      /\ ~Busy(w)'
  BY <1>1, <1>3 DEF OutputInv, OutputTypes, Busy, Output!AtRest
<1>6. OutputTypes'
  BY <1>1, <1>2, <1>3 DEF OutputInv, OutputTypes, Writings, Output!AtRest
<1>7. AckedOK(r)'
  <2> SUFFICES ASSUME r \notin tampered, Len(begun[r]) = 1
               PROVE  \/ x.inline = x.length /\ bytes[r] = Absent
                      \/ x.inline = Absent /\ Backed /\ Stored(r, x.length)
    BY <1>3, <1>5 DEF AckedOK, Backed, Stored
  <2>1. ~Backed => bytes[r] = Absent
    BY <1>1 DEF AloneOK
  <2>2. Backed => Stored(r, p)
    BY <1>1 DEF AloneOK, Output!PutRow, Output!Writes, Backed
  <2> QED
    BY <2>1, <2>2, <1>1, <1>2, <1>4
<1>8. /\ ~Backed => row'[r].inline \in Payloads
      /\ row'[r].inline \in Payloads => row'[r].inline \in Written(r)
  <2>1. p \in Written(r)
    BY <1>1 DEF OutputInv, WriterOK
  <2> QED
    BY <2>1, <1>1, <1>4, <1>5 DEF OutputAssumptions
<1> QED
  BY <1>1, <1>2, <1>3, <1>5, <1>6, <1>7, <1>8, RowWritten

\* Writers give up: nothing of what they wrote is recorded.
LEMMA WritersRest ==
  ASSUME OutputAssumptions, OutputInv, OutputTypes',
         \A v \in Writers : Busy(v)' => writing'[v] = writing[v],
         UNCHANGED <<backend, row, bytes, meta, begun, acked, tampered>>
  PROVE  OutputInv'
<1>1. ASSUME NEW v \in Writers, Busy(v)'
      PROVE  writing'[v] = writing[v] /\ Busy(v)
  BY <1>1 DEF Busy
<1>2. ASSUME NEW v \in Writers PROVE WriterOK(v)'
  BY <1>1 DEF OutputInv, WriterOK, Written
<1>3. ASSUME NEW v \in Writers PROVE AloneOK(v)'
  BY <1>1 DEF OutputInv, AloneOK, Stored, Backed
<1>4. ASSUME NEW u \in Writers, NEW v \in Writers PROVE ApartOK(u, v)'
  BY <1>1 DEF OutputInv, ApartOK
<1>5. ASSUME NEW r \in Refs PROVE RefOK(r)'
  BY DEF OutputInv, RefOK, AckedOK, Stored, Backed, Written
<1> QED
  BY <1>2, <1>3, <1>4, <1>5 DEF OutputInv

LEMMA BeginStep ==
  ASSUME OutputAssumptions, OutputInv, NEW w \in Writers, NEW r \in Refs, NEW p \in Payloads,
         Output!Begin(w, r, p)
  PROVE  OutputInv'
<1> DEFINE h == [at |-> "put", ref |-> r, payload |-> p]
<1>1. /\ writing[w] = Output!AtRest /\ writing' = [writing EXCEPT ![w] = h]
      /\ begun' = [begun EXCEPT ![r] = Append(begun[r], p)]
      /\ UNCHANGED <<backend, row, bytes, meta, acked, tampered>>
  BY DEF Output!Begin
<1>2. h \in Writings /\ h.at = "put" /\ h.ref = r /\ h.payload = p
  BY DEF Writings
<1> HIDE DEF h
<1>3. OutputTypes'
  <2>1. Append(begun[r], p) \in Seq(Payloads)
    BY DEF OutputInv, OutputTypes
  <2> QED
    BY <2>1, <1>1, <1>2 DEF OutputInv, OutputTypes
<1>4. /\ writing'[w] = h /\ Busy(w)' /\ ~Busy(w)
      /\ \A v \in Writers \ {w} : writing'[v] = writing[v] /\ (Busy(v)' <=> Busy(v))
  BY <1>1, <1>2 DEF OutputInv, OutputTypes, Busy, Output!AtRest
<1>5. /\ Len(begun[r]) \in Nat /\ Len(begun'[r]) = Len(begun[r]) + 1
      /\ \A q \in Refs \ {r} : begun'[q] = begun[q]
      /\ p \in Written(r)' /\ Written(r) \subseteq Written(r)'
  <2>1. begun'[r] = Append(begun[r], p) /\ \A q \in Refs \ {r} : begun'[q] = begun[q]
    BY <1>1 DEF OutputInv, OutputTypes
  <2>2. begun[r] \in Seq(Payloads)
    BY DEF OutputInv, OutputTypes
  <2> DEFINE old == begun[r]
             new == Append(old, p)
  <2>3. /\ DOMAIN old = 1..Len(old) /\ DOMAIN new = 1..(Len(old) + 1) /\ Len(old) \in Nat
        /\ Len(new) = Len(old) + 1 /\ new[Len(old) + 1] = p
        /\ \A i \in 1..Len(old) : new[i] = old[i]
    BY <2>2
  <2> HIDE DEF new
  <2>4. p \in {new[i] : i \in DOMAIN new}
        /\ {old[i] : i \in DOMAIN old} \subseteq {new[i] : i \in DOMAIN new}
    BY <2>3
  <2> QED
    BY <2>1, <2>3, <2>4 DEF Written, new
<1>6. Len(begun'[r]) # 0 /\ (Len(begun'[r]) = 1 => Len(begun[r]) = 0)
  BY <1>5
<1>12. \A q \in Refs : Written(q) \subseteq Written(q)'
  <2>1. ASSUME NEW q \in Refs PROVE Written(q) \subseteq Written(q)'
    BY <1>5 DEF Written
  <2> QED
    BY <2>1
<1>7. RefOK(r) /\ \A v \in Writers \ {w} : Busy(v) => writing[v].ref \in Refs /\ Len(begun[writing[v].ref]) # 0
  BY DEF OutputInv, WriterOK
<1>8. ASSUME NEW v \in Writers PROVE WriterOK(v)'
  <2>1. CASE v = w
    BY <2>1, <1>1, <1>2, <1>4, <1>5, <1>6, <1>7 DEF WriterOK, RefOK
  <2>2. CASE v # w /\ writing[v].ref = r
    BY <2>2, <1>1, <1>4, <1>5, <1>6, <1>7 DEF OutputInv, WriterOK
  <2>3. CASE v # w /\ writing[v].ref # r
    BY <2>3, <1>1, <1>4, <1>5, <1>7, <1>12 DEF OutputInv, WriterOK
  <2> QED
    BY <2>1, <2>2, <2>3
<1>9. ASSUME NEW v \in Writers PROVE AloneOK(v)'
  <2>1. CASE v = w
    BY <2>1, <1>1, <1>2, <1>4, <1>6, <1>7 DEF AloneOK, RefOK, Stored, Backed
  <2>2. CASE v # w /\ writing[v].ref = r
    <3>1. Busy(v) => Len(begun'[r]) # 1
      BY <2>2, <1>6, <1>7
    <3> QED
      BY <3>1, <2>2, <1>4 DEF AloneOK
  <2>3. CASE v # w /\ writing[v].ref # r
    <3>1. Busy(v) => begun'[writing[v].ref] = begun[writing[v].ref]
      BY <2>3, <1>5, <1>7
    <3> QED
      BY <3>1, <2>3, <1>1, <1>4 DEF OutputInv, AloneOK, Stored, Backed
  <2> QED
    BY <2>1, <2>2, <2>3
<1>10. ASSUME NEW u \in Writers, NEW v \in Writers PROVE ApartOK(u, v)'
  <2>1. CASE u # w /\ v # w /\ writing[u].ref # r
    <3>1. Busy(u) => begun'[writing[u].ref] = begun[writing[u].ref]
      BY <2>1, <1>5, <1>7
    <3> QED
      BY <3>1, <2>1, <1>4 DEF OutputInv, ApartOK
  <2>2. CASE u # w /\ writing[u].ref = r
    <3>1. Busy(u) => Len(begun'[r]) # 1
      BY <2>2, <1>6, <1>7
    <3> QED
      BY <3>1, <2>2, <1>4 DEF ApartOK
  <2>3. CASE u = w /\ v # w
    <3>1. Busy(v) /\ writing[v].ref = r => Len(begun'[r]) # 1
      BY <2>3, <1>6, <1>7
    <3> QED
      BY <3>1, <2>3, <1>2, <1>4 DEF ApartOK
  <2>4. CASE u # w /\ v = w /\ writing[u].ref # r
    BY <2>4, <1>2, <1>4 DEF ApartOK
  <2>5. CASE u = w /\ v = w
    BY <2>5 DEF ApartOK
  <2> QED
    BY <2>1, <2>2, <2>3, <2>4, <2>5
<1>11. ASSUME NEW q \in Refs PROVE RefOK(q)'
  <2>1. CASE q = r
    BY <2>1, <1>1, <1>5, <1>6, <1>7 DEF RefOK, AckedOK, Stored, Backed
  <2>2. CASE q # r
    BY <2>2, <1>1, <1>5, <1>12 DEF OutputInv, RefOK, AckedOK, Stored, Backed
  <2> QED
    BY <2>1, <2>2
<1> QED
  BY <1>3, <1>8, <1>9, <1>10, <1>11 DEF OutputInv

LEMMA AttachStep ==
  ASSUME OutputAssumptions, OutputInv, NEW kind \in Output!Deployments, Output!Attach(kind) PROVE OutputInv'
<1>1. /\ ~Backed /\ backend' \in {"sqlite", "fs", "s3"} /\ backend' \in Output!Deployments
      /\ \A w \in Writers : ~Busy(w)
      /\ UNCHANGED <<row, bytes, meta, writing, begun, acked, tampered>>
  BY DEF Output!Attach, Output!Deployments, Backed, Busy, Output!AtRest
<1>2. OutputTypes'
  BY <1>1 DEF OutputInv, OutputTypes
<1>3. \A w \in Writers : ~Busy(w)'
  BY <1>1 DEF Busy
<1>4. ASSUME NEW r \in Refs PROVE RefOK(r)'
  <2>1. RefOK(r) /\ bytes[r] = Absent /\ (row[r] # Absent => row[r].inline \in Payloads)
    BY <1>1 DEF OutputInv, RefOK, Written
  <2>2. r \in acked => AckedOK(r)'
    BY <2>1, <1>1 DEF RefOK, AckedOK, OutputAssumptions, Written
  <2> QED
    BY <2>1, <2>2, <1>1 DEF RefOK, Backed, Written
<1> QED
  BY <1>2, <1>3, <1>4 DEF OutputInv, WriterOK, AloneOK, ApartOK, Written

LEMMA TamperStep ==
  ASSUME OutputAssumptions, OutputInv, NEW r \in Refs, Output!Tamper(r) PROVE OutputInv'
<1>1. /\ bytes[r] # Absent /\ bytes' = [bytes EXCEPT ![r] = Garbage]
      /\ tampered' = tampered \cup {r}
      /\ UNCHANGED <<backend, row, meta, writing, begun, acked>>
  BY DEF Output!Tamper
<1>2. OutputTypes'
  BY <1>1 DEF OutputInv, OutputTypes
<1>3. bytes'[r] = Garbage /\ r \in tampered' /\ \A q \in Refs \ {r} : bytes'[q] = bytes[q]
  BY <1>1 DEF OutputInv, OutputTypes
<1>4. ASSUME NEW w \in Writers PROVE WriterOK(w)'
  BY <1>1 DEF OutputInv, WriterOK, Busy, Written
<1>5. ASSUME NEW w \in Writers PROVE AloneOK(w)'
  <2>1. AloneOK(w) /\ (Busy(w) => writing[w].ref \in Refs) /\ (Busy(w)' <=> Busy(w))
    BY <1>1 DEF OutputInv, WriterOK, Busy, Written
  <2> QED
    BY <2>1, <1>1, <1>3 DEF AloneOK, Stored, Backed
<1>6. ASSUME NEW u \in Writers, NEW v \in Writers PROVE ApartOK(u, v)'
  BY <1>1 DEF OutputInv, ApartOK, Busy
<1>7. ASSUME NEW q \in Refs PROVE RefOK(q)'
  <2>1. RefOK(q)
    BY DEF OutputInv
  <2>2. CASE q = r
    <3>1. Backed /\ Len(begun[r]) # 0
      BY <2>1, <2>2, <1>1 DEF RefOK, Written
    <3>2. Written(r)' = Written(r) /\ bytes'[r] \notin Payloads \cup {Absent}
      BY <1>1, <1>3 DEF Written, OutputAssumptions
    <3> QED
      BY <3>1, <3>2, <2>1, <2>2, <1>1, <1>3 DEF RefOK, AckedOK, Backed
  <2>3. CASE q # r
    BY <2>1, <2>3, <1>1, <1>3 DEF RefOK, AckedOK, Stored, Backed, Written
  <2> QED
    BY <2>2, <2>3
<1> QED
  BY <1>2, <1>4, <1>5, <1>6, <1>7 DEF OutputInv

LEMMA OutputStep ==
  ASSUME OutputAssumptions, OutputInv, [Output!OutNext]_(Output!outVars) PROVE OutputInv'
<1>1. ASSUME NEW w \in Writers, Output!PutFails(w) PROVE OutputInv'
  <2>1. OutputTypes'
    BY <1>1 DEF Output!PutFails, OutputInv, OutputTypes, Writings, Output!AtRest
  <2>2. \A v \in Writers : Busy(v)' => writing'[v] = writing[v]
    BY <1>1 DEF Output!PutFails, OutputInv, OutputTypes, Busy, Output!AtRest
  <2> QED
    BY <2>1, <2>2, <1>1, WritersRest DEF Output!PutFails
<1>2. CASE Output!Crash
  <2>1. OutputTypes'
    BY <1>2 DEF Output!Crash, OutputInv, OutputTypes, Writings, Output!AtRest
  <2>2. \A v \in Writers : Busy(v)' => writing'[v] = writing[v]
    BY <1>2 DEF Output!Crash, Busy, Output!AtRest
  <2> QED
    BY <2>1, <2>2, <1>2, WritersRest DEF Output!Crash
<1>3. CASE UNCHANGED Output!outVars
  <2>1. OutputTypes' /\ UNCHANGED <<backend, row, bytes, meta, writing, begun, acked, tampered>>
    BY <1>3 DEF Output!outVars, OutputInv, OutputTypes
  <2> QED
    BY <2>1, WritersRest
<1> QED
  BY <1>1, <1>2, <1>3, BeginStep, PutInlineStep, PutSqliteStep, PutRenameStep, PutMetaStep, PutS3Step,
     PutPostgresStep, PutRowStep, AttachStep, TamperStep
     DEF Output!OutNext

\* write_output_ref and load_output_payload (runtime.rs, object_store.rs), for any
\* references, writers, payloads and crashes over every backend: a read returns a payload
\* that was written to that very reference or fails, except for bytes that were changed
\* under s3, which keeps no digest; and a reference that was handed out and written once
\* can be read, whichever backend is attached later.
THEOREM OutputIsKept ==
  ASSUME OutputAssumptions
  PROVE  Output!OutSpec => [](Output!ReadsFailClosed /\ Output!AckedIsReadable)
<1>1. Output!OutInit => OutputInv
  BY OutputStart
<1>2. OutputInv /\ [Output!OutNext]_(Output!outVars) => OutputInv'
  BY OutputStep
<1>3. OutputInv => Output!ReadsFailClosed /\ Output!AckedIsReadable
  BY OutputImplies
<1> QED
  BY <1>1, <1>2, <1>3, PTL DEF Output!OutSpec

-----------------------------------------------------------------------------
(***************************************************************************)
(* The receipts of a run's external calls (EffectReceipts).                *)
(***************************************************************************)
CONSTANTS Runs, MaxCalls, MaxSlips

VARIABLES book, ledger, calls, slips, clouded

Receipts == INSTANCE EffectReceipts WITH run <- ledger

Books == Receipts!Books
ReceiptLines == [prev : Nat, hash : Nat, whole : BOOLEAN]
Ledgers == [at : {"new", "open", "called", "ended", "panicked"}, book : Books, head : Nat,
            client : {"none", "live", "dead"}, tool : Nat]
Calls == [run : Runs, done : BOOLEAN, lost : BOOLEAN]

ReceiptTypes ==
  /\ book \in [Books -> Seq(ReceiptLines)] /\ ledger \in [Runs -> Ledgers]
  /\ calls \in Seq(Calls) /\ clouded \in SUBSET Books

\* The files bk have a whole receipt of call i.
HasReceipt(bk, i) == \E b \in Books : \E j \in DOMAIN bk[b] : bk[b][j].whole /\ bk[b][j].hash = i

OneReceipt(bk) ==
  \A b, c \in Books : \A j \in DOMAIN bk[b], k \in DOMAIN bk[c] :
    bk[b][j].whole /\ bk[c][k].whole /\ bk[b][j].hash = bk[c][k].hash => b = c /\ j = k

KnownReceipts(bk, n) ==
  \A b \in Books : \A j \in DOMAIN bk[b] : bk[b][j].whole => bk[b][j].hash \in 1..n

\* A call: done, it has its receipt, is about to have it or was lost.
CallOK(i) ==
  /\ calls[i].done /\ ~calls[i].lost /\ ~HasReceipt(book, i) =>
       ledger[calls[i].run].at = "called" /\ ledger[calls[i].run].tool = i
  /\ HasReceipt(book, i) => calls[i].done

\* A run that waits to write a receipt.
CallerOK(r) ==
  ledger[r].at = "called" =>
    /\ ledger[r].tool \in 1..Len(calls)
    /\ calls[ledger[r].tool].run = r /\ calls[ledger[r].tool].done
    /\ ~HasReceipt(book, ledger[r].tool)

LiveOn(r, b) == ledger[r].at \in {"open", "called"} /\ ledger[r].book = b

\* A file nothing went wrong with: one run at a time has it, and chains from its end.
BookOK(b) ==
  b \notin clouded =>
    /\ Receipts!Verifies(book[b])
    /\ \A r \in Runs : LiveOn(r, b) => ledger[r].head = Receipts!LastHash(book[b])
    /\ \A q, r \in Runs : LiveOn(q, b) /\ LiveOn(r, b) => q = r

ReceiptInv ==
  /\ ReceiptTypes
  /\ \A i \in 1..Len(calls) : CallOK(i)
  /\ \A r \in Runs : CallerOK(r)
  /\ OneReceipt(book) /\ KnownReceipts(book, Len(calls))
  /\ \A b \in Books : BookOK(b)

\* The files nb are the files bk with the line x added to b.
Longer(bk, b, x, nb) ==
  /\ nb \in [Books -> Seq(ReceiptLines)]
  /\ \A c \in Books \ {b} : nb[c] = bk[c]
  /\ \A i : HasReceipt(nb, i) <=> HasReceipt(bk, i) \/ (x.whole /\ x.hash = i)
  /\ OneReceipt(bk) /\ ~HasReceipt(bk, x.hash) => OneReceipt(nb)
  /\ \A n \in Nat : KnownReceipts(bk, n) /\ x.hash \in 1..n => KnownReceipts(nb, n)
  /\ Receipts!LastHash(nb[b]) = x.hash
  /\ Receipts!Verifies(bk[b]) /\ x.whole /\ x.prev = Receipts!LastHash(bk[b]) =>
       Receipts!Verifies(nb[b])

LEMMA LineAdded ==
  ASSUME NEW bk \in [Books -> Seq(ReceiptLines)], NEW b \in Books, NEW x \in ReceiptLines,
         NEW nb, nb = [bk EXCEPT ![b] = Append(bk[b], x)]
  PROVE  Longer(bk, b, x, nb)
<1> DEFINE old == bk[b]
           new == Append(old, x)
           n == Len(old)
<1>1. /\ n \in Nat /\ new \in Seq(ReceiptLines) /\ DOMAIN old = 1..n /\ DOMAIN new = 1..(n + 1)
      /\ Len(new) = n + 1 /\ new[n + 1] = x /\ \A i \in 1..n : new[i] = old[i]
  OBVIOUS
<1> HIDE DEF new
<1>2. /\ nb \in [Books -> Seq(ReceiptLines)] /\ nb[b] = new
      /\ \A c \in Books \ {b} : nb[c] = bk[c]
  BY <1>1 DEF new
<1>3. ASSUME NEW c \in Books, NEW j \in DOMAIN nb[c]
      PROVE  (j \in DOMAIN bk[c] /\ nb[c][j] = bk[c][j]) \/ (c = b /\ j = n + 1 /\ nb[c][j] = x)
  <2>1. CASE c = b
    <3>1. j \in 1..n \/ j = n + 1
      BY <2>1, <1>1, <1>2
    <3> QED
      BY <3>1, <2>1, <1>1, <1>2
  <2>2. CASE c # b
    BY <2>2, <1>2
  <2> QED
    BY <2>1, <2>2
<1>4. ASSUME NEW c \in Books, NEW j \in DOMAIN bk[c]
      PROVE  j \in DOMAIN nb[c] /\ nb[c][j] = bk[c][j]
  <2>1. CASE c = b
    BY <2>1, <1>1, <1>2
  <2>2. CASE c # b
    BY <2>2, <1>2
  <2> QED
    BY <2>1, <2>2
<1>5. n + 1 \in DOMAIN nb[b] /\ nb[b][n + 1] = x
  BY <1>1, <1>2
<1> HIDE DEF n
<1>6. ASSUME NEW i PROVE HasReceipt(nb, i) <=> HasReceipt(bk, i) \/ (x.whole /\ x.hash = i)
  <2>1. ASSUME HasReceipt(nb, i) PROVE HasReceipt(bk, i) \/ (x.whole /\ x.hash = i)
    BY <2>1, <1>3 DEF HasReceipt
  <2>2. ASSUME HasReceipt(bk, i) PROVE HasReceipt(nb, i)
    BY <2>2, <1>4 DEF HasReceipt
  <2>3. ASSUME x.whole, x.hash = i PROVE HasReceipt(nb, i)
    BY <2>3, <1>5 DEF HasReceipt
  <2> QED
    BY <2>1, <2>2, <2>3
<1>7. ASSUME OneReceipt(bk), ~HasReceipt(bk, x.hash) PROVE OneReceipt(nb)
  <2> SUFFICES ASSUME NEW c \in Books, NEW d \in Books, NEW j \in DOMAIN nb[c], NEW k \in DOMAIN nb[d],
                      nb[c][j].whole, nb[d][k].whole, nb[c][j].hash = nb[d][k].hash
               PROVE  c = d /\ j = k
    BY DEF OneReceipt
  <2>1. (j \in DOMAIN bk[c] /\ nb[c][j] = bk[c][j]) \/ (c = b /\ j = n + 1 /\ nb[c][j] = x)
    BY <1>3
  <2>2. (k \in DOMAIN bk[d] /\ nb[d][k] = bk[d][k]) \/ (d = b /\ k = n + 1 /\ nb[d][k] = x)
    BY <1>3
  <2> QED
    BY <2>1, <2>2, <1>7 DEF OneReceipt, HasReceipt
<1>8. ASSUME NEW m \in Nat, KnownReceipts(bk, m), x.hash \in 1..m PROVE KnownReceipts(nb, m)
  BY <1>3, <1>8 DEF KnownReceipts
<1>9. Receipts!LastHash(nb[b]) = x.hash
  <2>1. new # <<>> /\ new[Len(new)] = x
    BY <1>1
  <2> QED
    BY <2>1, <1>2 DEF Receipts!LastHash
<1>10. ASSUME Receipts!Verifies(old), x.whole, x.prev = Receipts!LastHash(old)
       PROVE  Receipts!Verifies(new)
  <2> SUFFICES ASSUME NEW i \in 1..(n + 1)
               PROVE  new[i].whole /\ new[i].prev = (IF i = 1 THEN Receipts!Genesis ELSE new[i - 1].hash)
    BY <1>1 DEF Receipts!Verifies
  <2>1. CASE i = n + 1
    <3>1. CASE n = 0
      <4>1. old = <<>> /\ i = 1
        BY <3>1, <2>1, <1>1 DEF n
      <4> QED
        BY <4>1, <2>1, <1>1, <1>10 DEF Receipts!LastHash
    <3>2. CASE n # 0
      <4>1. old # <<>> /\ i # 1 /\ i - 1 = n /\ n \in 1..n
        BY <3>2, <2>1, <1>1 DEF n
      <4>2. Receipts!LastHash(old) = old[n].hash
        BY <4>1 DEF Receipts!LastHash, n
      <4> QED
        BY <4>1, <4>2, <2>1, <1>1, <1>10
    <3> QED
      BY <3>1, <3>2
  <2>2. CASE i # n + 1
    <3>1. i \in 1..n /\ (i # 1 => i - 1 \in 1..n)
      BY <2>2, <1>1
    <3> QED
      BY <3>1, <1>1, <1>10 DEF Receipts!Verifies
  <2> QED
    BY <2>1, <2>2
<1> QED
  BY <1>2, <1>6, <1>7, <1>8, <1>9, <1>10 DEF Longer

\* A torn line has no receipt.
LEMMA LinesTorn ==
  ASSUME NEW bk \in [Books -> Seq(ReceiptLines)], NEW nb,
         nb \in [Books -> Seq(ReceiptLines)],
         \A b \in Books : \/ nb[b] = bk[b]
                          \/ \E x \in ReceiptLines : ~x.whole /\ nb[b] = Append(bk[b], x)
  PROVE  /\ \A i : HasReceipt(nb, i) <=> HasReceipt(bk, i)
         /\ OneReceipt(bk) => OneReceipt(nb)
         /\ \A n \in Nat : KnownReceipts(bk, n) => KnownReceipts(nb, n)
<1>1. ASSUME NEW c \in Books
      PROVE  /\ \A j \in DOMAIN nb[c] : nb[c][j].whole => j \in DOMAIN bk[c] /\ nb[c][j] = bk[c][j]
             /\ \A j \in DOMAIN bk[c] : j \in DOMAIN nb[c] /\ nb[c][j] = bk[c][j]
  <2>1. CASE nb[c] = bk[c]
    BY <2>1
  <2>2. ASSUME NEW x \in ReceiptLines, ~x.whole, nb[c] = Append(bk[c], x)
        PROVE  /\ \A j \in DOMAIN nb[c] : nb[c][j].whole => j \in DOMAIN bk[c] /\ nb[c][j] = bk[c][j]
               /\ \A j \in DOMAIN bk[c] : j \in DOMAIN nb[c] /\ nb[c][j] = bk[c][j]
    <3> DEFINE old == bk[c]
               new == nb[c]
               n == Len(old)
    <3>1. /\ n \in Nat /\ DOMAIN old = 1..n /\ DOMAIN new = 1..(n + 1)
          /\ new[n + 1] = x /\ \A i \in 1..n : new[i] = old[i]
      BY <2>2
    <3> HIDE DEF old, new, n
    <3>2. ASSUME NEW j \in DOMAIN new, new[j].whole PROVE j \in DOMAIN old /\ new[j] = old[j]
      <4>1. j \in 1..n \/ j = n + 1
        BY <3>1
      <4> QED
        BY <4>1, <3>1, <3>2, <2>2
    <3>3. ASSUME NEW j \in DOMAIN old PROVE j \in DOMAIN new /\ new[j] = old[j]
      BY <3>1
    <3> QED
      BY <3>2, <3>3 DEF old, new
  <2> QED
    BY <2>1, <2>2
<1>2. ASSUME NEW i PROVE HasReceipt(nb, i) <=> HasReceipt(bk, i)
  <2>1. ASSUME HasReceipt(nb, i) PROVE HasReceipt(bk, i)
    BY <2>1, <1>1 DEF HasReceipt
  <2>2. ASSUME HasReceipt(bk, i) PROVE HasReceipt(nb, i)
    BY <2>2, <1>1 DEF HasReceipt
  <2> QED
    BY <2>1, <2>2
<1>3. ASSUME OneReceipt(bk) PROVE OneReceipt(nb)
  BY <1>1, <1>3 DEF OneReceipt
<1>4. ASSUME NEW n \in Nat, KnownReceipts(bk, n) PROVE KnownReceipts(nb, n)
  BY <1>1, <1>4 DEF KnownReceipts
<1> QED
  BY <1>2, <1>3, <1>4

LEMMA ReceiptStart == ASSUME Receipts!Init PROVE ReceiptInv
<1>1. /\ book = [b \in Books |-> <<>>] /\ ledger = [r \in Runs |-> Receipts!NotRunning]
      /\ calls = <<>> /\ clouded = {}
  BY DEF Receipts!Init, Books
<1>2. "main" \in Books /\ Receipts!NotRunning \in Ledgers /\ Receipts!NotRunning.at = "new"
  BY DEF Books, Receipts!Books, Receipts!NotRunning, Receipts!Genesis, Ledgers
<1>3. DOMAIN <<>> = {} /\ Len(<<>>) = 0 /\ 1..0 = {}
  OBVIOUS
<1>4. ReceiptTypes
  BY <1>1, <1>2 DEF ReceiptTypes
<1>5. OneReceipt(book) /\ KnownReceipts(book, Len(calls))
  BY <1>1, <1>3 DEF OneReceipt, KnownReceipts
<1>6. ASSUME NEW r \in Runs PROVE CallerOK(r) /\ ledger[r].at = "new"
  BY <1>1, <1>2 DEF CallerOK
<1>7. ASSUME NEW b \in Books PROVE BookOK(b)
  <2>1. Receipts!Verifies(book[b])
    BY <1>1, <1>3 DEF Receipts!Verifies
  <2> QED
    BY <2>1, <1>6 DEF BookOK, LiveOn
<1> QED
  BY <1>1, <1>3, <1>4, <1>5, <1>6, <1>7 DEF ReceiptInv

LEMMA CallTyped ==
  ASSUME ReceiptInv, NEW i \in 1..Len(calls)
  PROVE  CallOK(i) /\ calls[i] \in Calls /\ calls[i].run \in Runs
<1>1. CallOK(i) /\ calls \in Seq(Calls)
  BY DEF ReceiptInv, ReceiptTypes
<1>2. calls[i] \in Calls
  BY <1>1
<1> QED
  BY <1>1, <1>2 DEF Calls

\* A run moves without a receipt or a call: it opens no file, or ends with it.
LEMMA RunMoves ==
  ASSUME ReceiptInv, ledger' \in [Runs -> Ledgers], UNCHANGED <<book, calls>>,
         clouded' = clouded,
         \A r \in Runs : /\ ledger'[r].at \in {"open", "called"} =>
                              /\ ledger'[r].at = ledger[r].at /\ ledger'[r].book = ledger[r].book
                              /\ ledger'[r].head = ledger[r].head
                         /\ ledger[r].at = "called" => ledger'[r] = ledger[r]
                         /\ ledger'[r].tool = ledger[r].tool
  PROVE  ReceiptInv'
<1>1. ReceiptTypes'
  BY DEF ReceiptInv, ReceiptTypes
<1>2. ASSUME NEW i \in 1..Len(calls) PROVE CallOK(i)'
  <2>1. CallOK(i) /\ calls[i].run \in Runs
    BY CallTyped
  <2> QED
    BY <2>1 DEF CallOK
<1>3. ASSUME NEW r \in Runs PROVE CallerOK(r)'
  BY DEF ReceiptInv, CallerOK
<1>4. ASSUME NEW b \in Books PROVE BookOK(b)'
  <2>1. BookOK(b) /\ \A r \in Runs : LiveOn(r, b)' => LiveOn(r, b) /\ ledger'[r].head = ledger[r].head
    BY DEF ReceiptInv, LiveOn
  <2> QED
    BY <2>1 DEF BookOK
<1> QED
  BY <1>1, <1>2, <1>3, <1>4 DEF ReceiptInv

LEMMA OpenLedgerStep ==
  ASSUME ReceiptInv, NEW r \in Runs, Receipts!OpenLedger(r) PROVE ReceiptInv'
<1>1. ledger[r].at = "new" /\ book' = book /\ calls' = calls
  BY DEF Receipts!OpenLedger
<1>2. CASE ledger' = [ledger EXCEPT ![r].at = "panicked"] /\ clouded' = clouded
  <2>1. ledger' \in [Runs -> Ledgers]
    BY <1>2 DEF ReceiptInv, ReceiptTypes, Ledgers
  <2>2. ASSUME NEW q \in Runs
        PROVE  \/ ledger'[q] = ledger[q]
               \/ q = r /\ ledger'[q].at = "panicked" /\ ledger'[q].tool = ledger[q].tool
    BY <1>2 DEF ReceiptInv, ReceiptTypes, Ledgers
  <2>3. \A q \in Runs : /\ ledger'[q].at \in {"open", "called"} =>
                              /\ ledger'[q].at = ledger[q].at /\ ledger'[q].book = ledger[q].book
                              /\ ledger'[q].head = ledger[q].head
                        /\ ledger[q].at = "called" => ledger'[q] = ledger[q]
                        /\ ledger'[q].tool = ledger[q].tool
    BY <2>2, <1>1
  <2> QED
    BY <2>1, <2>3, <1>1, <1>2, RunMoves
<1>3. ASSUME NEW b \in Books, Receipts!Opens(b),
             ledger' = [ledger EXCEPT ![r] = [ledger[r] EXCEPT !.at = "open", !.book = b,
                                                !.head = Receipts!LastHash(book[b])]],
             clouded' = IF Receipts!Live(b) # {} THEN clouded \cup {b} ELSE clouded
      PROVE  ReceiptInv'
  <2> DEFINE h == [ledger[r] EXCEPT !.at = "open", !.book = b, !.head = Receipts!LastHash(book[b])]
  <2>1. Receipts!LastHash(book[b]) \in Nat
    <3>1. book[b] \in Seq(ReceiptLines)
      BY DEF ReceiptInv, ReceiptTypes
    <3>2. CASE book[b] = <<>>
      BY <3>2 DEF Receipts!LastHash, Receipts!Genesis
    <3>3. CASE book[b] # <<>>
      <4>1. book[b][Len(book[b])] \in ReceiptLines
        BY <3>1, <3>3
      <4> QED
        BY <4>1, <3>3 DEF Receipts!LastHash, ReceiptLines
    <3> QED
      BY <3>2, <3>3
  <2>2. /\ h \in Ledgers /\ h.at = "open" /\ h.book = b /\ h.head = Receipts!LastHash(book[b])
    BY <2>1 DEF ReceiptInv, ReceiptTypes, Ledgers
  <2> HIDE DEF h
  <2>3. /\ ledger' \in [Runs -> Ledgers] /\ ledger'[r] = h
        /\ \A q \in Runs \ {r} : ledger'[q] = ledger[q]
    BY <2>2, <1>3 DEF ReceiptInv, ReceiptTypes, h
  <2>4. ReceiptTypes'
    BY <2>3, <1>1, <1>3 DEF ReceiptInv, ReceiptTypes
  <2>5. ASSUME NEW i \in 1..Len(calls) PROVE CallOK(i)'
    <3>1. CallOK(i) /\ calls[i].run \in Runs
      BY CallTyped
    <3>2. ledger[calls[i].run].at = "called" => ledger'[calls[i].run] = ledger[calls[i].run]
      BY <3>1, <2>3, <1>1
    <3> QED
      BY <3>1, <3>2, <1>1 DEF CallOK
  <2>6. ASSUME NEW q \in Runs PROVE CallerOK(q)'
    <3>1. CASE q = r
      BY <3>1, <2>2, <2>3 DEF CallerOK
    <3>2. CASE q # r
      BY <3>2, <2>3, <1>1 DEF ReceiptInv, CallerOK
    <3> QED
      BY <3>1, <3>2
  <2>7. ASSUME NEW c \in Books PROVE BookOK(c)'
    <3>1. ASSUME NEW q \in Runs
          PROVE  LiveOn(q, c)' <=> (q # r /\ LiveOn(q, c)) \/ (q = r /\ c = b)
      BY <2>2, <2>3, <1>1 DEF LiveOn
    <3>2. CASE c # b
      <4>1. ASSUME NEW q \in Runs, LiveOn(q, c)' PROVE LiveOn(q, c) /\ ledger'[q] = ledger[q]
        BY <4>1, <3>1, <3>2, <2>3
      <4>2. BookOK(c) /\ (c \in clouded' <=> c \in clouded)
        BY <3>2, <1>3 DEF ReceiptInv
      <4> QED
        BY <4>1, <4>2, <1>1 DEF BookOK
    <3>3. CASE c = b /\ Receipts!Live(b) # {}
      BY <3>3, <1>3 DEF BookOK
    <3>4. CASE c = b /\ Receipts!Live(b) = {}
      <4>1. ASSUME NEW q \in Runs PROVE ~LiveOn(q, b)
        BY <3>4 DEF LiveOn, Receipts!Live
      <4>2. Receipts!Verifies(book[b])
        BY <1>3 DEF Receipts!Opens
      <4> QED
        BY <4>1, <4>2, <3>1, <3>4, <2>2, <2>3, <1>1 DEF BookOK
    <3> QED
      BY <3>2, <3>3, <3>4
  <2> QED
    BY <2>4, <2>5, <2>6, <2>7, <1>1 DEF ReceiptInv
<1>4. CASE ~(\E b \in Books : Receipts!Opens(b))
  BY <1>2, <1>4 DEF Receipts!OpenLedger, Books
<1>5. CASE Receipts!Opens("main")
  <2>1. "main" \in Books
    BY DEF Books, Receipts!Books
  <2> QED
    BY <2>1, <1>3, <1>5 DEF Receipts!OpenLedger, Books
<1>6. CASE ~Receipts!Opens("main") /\ Receipts!Opens("fallback")
  <2>1. "fallback" \in Books
    BY DEF Books, Receipts!Books
  <2> QED
    BY <2>1, <1>3, <1>6 DEF Receipts!OpenLedger, Books
<1> QED
  BY <1>4, <1>5, <1>6 DEF Books, Receipts!Books

\* Spawn, CallDead and End.
LEMMA QuietRunStep ==
  ASSUME ReceiptInv, NEW r \in Runs,
         \/ \E works \in BOOLEAN : Receipts!Spawn(r, works)
         \/ Receipts!CallDead(r) \/ Receipts!End(r)
  PROVE  ReceiptInv'
<1>1. /\ ledger[r].at = "open" /\ UNCHANGED <<book, calls>> /\ clouded' = clouded
      /\ \/ ledger' = [ledger EXCEPT ![r].at = "ended"]
         \/ ledger' = [ledger EXCEPT ![r].client = "live"]
         \/ ledger' = [ledger EXCEPT ![r].client = "none"]
  BY DEF Receipts!Spawn, Receipts!CallDead, Receipts!End
<1>2. ledger' \in [Runs -> Ledgers]
  <2>1. ledger \in [Runs -> Ledgers] /\ ledger[r] \in Ledgers
    BY DEF ReceiptInv, ReceiptTypes
  <2>2. /\ [ledger[r] EXCEPT !.at = "ended"] \in Ledgers
        /\ [ledger[r] EXCEPT !.client = "live"] \in Ledgers
        /\ [ledger[r] EXCEPT !.client = "none"] \in Ledgers
    BY <2>1 DEF Ledgers
  <2> QED
    BY <2>1, <2>2, <1>1
<1>3. ASSUME NEW q \in Runs
      PROVE  \/ ledger'[q] = ledger[q]
             \/ q = r /\ ledger'[q].at = "ended" /\ ledger'[q].tool = ledger[q].tool
             \/ /\ q = r /\ ledger'[q].at = ledger[q].at /\ ledger'[q].book = ledger[q].book
                /\ ledger'[q].head = ledger[q].head /\ ledger'[q].tool = ledger[q].tool
  BY <1>1 DEF ReceiptInv, ReceiptTypes, Ledgers
<1>4. \A q \in Runs : /\ ledger'[q].at \in {"open", "called"} =>
                            /\ ledger'[q].at = ledger[q].at /\ ledger'[q].book = ledger[q].book
                            /\ ledger'[q].head = ledger[q].head
                      /\ ledger[q].at = "called" => ledger'[q] = ledger[q]
                      /\ ledger'[q].tool = ledger[q].tool
  BY <1>1, <1>3
<1> QED
  BY <1>1, <1>2, <1>4, RunMoves

LEMMA CallToolStep ==
  ASSUME ReceiptInv, NEW r \in Runs, NEW how \in {"answers", "rejects", "dies"},
         Receipts!CallTool(r, how)
  PROVE  ReceiptInv'
<1> DEFINE n == Len(calls)
           h == [ledger[r] EXCEPT !.at = IF how = "answers" THEN "called" ELSE "open",
                                  !.client = IF how = "dies" THEN "dead" ELSE "live",
                                  !.tool = n + 1]
<1>1. /\ ledger[r].at = "open" /\ ledger' = [ledger EXCEPT ![r] = h]
      /\ book' = book /\ clouded' = clouded
  BY DEF Receipts!CallTool
<1>2. PICK x : /\ x \in Calls /\ calls' = Append(calls, x) /\ x.run = r
               /\ how = "answers" => x.done
               /\ how # "answers" => x.lost
  <2>1. PICK done \in Receipts!WorkDone(how) :
          calls' = Append(calls, [run |-> r, done |-> done, lost |-> how # "answers"])
    BY DEF Receipts!CallTool
  <2>2. done \in BOOLEAN /\ (how = "answers" => done = TRUE)
    BY <2>1 DEF Receipts!WorkDone
  <2>3. [run |-> r, done |-> done, lost |-> how # "answers"] \in Calls
    BY <2>2 DEF Calls
  <2> WITNESS [run |-> r, done |-> done, lost |-> how # "answers"]
  <2> QED
    BY <2>1, <2>2, <2>3
<1>3. /\ n \in Nat /\ calls' \in Seq(Calls) /\ Len(calls') = n + 1 /\ calls'[n + 1] = x
      /\ \A i \in 1..n : calls'[i] = calls[i]
  BY <1>2 DEF ReceiptInv, ReceiptTypes
<1>4. /\ h \in Ledgers /\ h.at = (IF how = "answers" THEN "called" ELSE "open")
      /\ h.tool = n + 1 /\ h.head = ledger[r].head /\ h.book = ledger[r].book
  <2>1. ledger[r] \in Ledgers /\ n + 1 \in Nat
    BY <1>3 DEF ReceiptInv, ReceiptTypes
  <2> HIDE DEF n
  <2> QED
    BY <2>1 DEF Ledgers
<1> HIDE DEF h, n
<1>5. /\ ledger' \in [Runs -> Ledgers] /\ ledger'[r] = h
      /\ \A q \in Runs \ {r} : ledger'[q] = ledger[q]
  BY <1>1, <1>4 DEF ReceiptInv, ReceiptTypes
<1>6. ReceiptTypes'
  BY <1>1, <1>3, <1>5 DEF ReceiptInv, ReceiptTypes
<1>7. ASSUME NEW i, HasReceipt(book, i) PROVE i \in 1..n
  BY <1>7 DEF ReceiptInv, KnownReceipts, HasReceipt, n
<1>8. ASSUME NEW i \in 1..(n + 1) PROVE CallOK(i)'
  <2>1. CASE i = n + 1
    <3>1. ~HasReceipt(book, i)
      BY <2>1, <1>3, <1>7
    <3> QED
      BY <3>1, <2>1, <1>1, <1>2, <1>3, <1>4, <1>5 DEF CallOK
  <2>2. CASE i # n + 1
    <3>1. i \in 1..n
      BY <2>2, <1>3
    <3>2. CallOK(i) /\ calls[i].run \in Runs /\ calls'[i] = calls[i]
      BY <3>1, <1>3, CallTyped DEF n
    <3>3. ledger[calls[i].run].at = "called" => ledger'[calls[i].run] = ledger[calls[i].run]
      BY <3>2, <1>1, <1>5
    <3> QED
      BY <3>2, <3>3, <1>1 DEF CallOK
  <2> QED
    BY <2>1, <2>2
<1>9. ASSUME NEW q \in Runs PROVE CallerOK(q)'
  <2>1. CASE q = r
    <3>1. ~HasReceipt(book, n + 1) /\ n + 1 \in 1..(n + 1)
      BY <1>3, <1>7
    <3> QED
      BY <3>1, <2>1, <1>1, <1>2, <1>3, <1>4, <1>5 DEF CallerOK
  <2>2. CASE q # r
    <3>1. CallerOK(q) /\ ledger'[q] = ledger[q]
      BY <2>2, <1>5 DEF ReceiptInv
    <3>2. ledger[q].tool \in 1..n => ledger[q].tool \in 1..(n + 1)
      BY <1>3
    <3> QED
      BY <3>1, <3>2, <1>1, <1>3 DEF CallerOK, n
  <2> QED
    BY <2>1, <2>2
<1>10. KnownReceipts(book, n + 1)
  <2>1. 1..n \subseteq 1..(n + 1)
    BY <1>3
  <2> QED
    BY <2>1 DEF ReceiptInv, KnownReceipts, n
<1>11. ASSUME NEW b \in Books PROVE BookOK(b)'
  <2>1. ASSUME NEW q \in Runs PROVE (LiveOn(q, b)' <=> LiveOn(q, b)) /\ ledger'[q].head = ledger[q].head
    BY <1>1, <1>4, <1>5 DEF LiveOn
  <2>2. BookOK(b)
    BY DEF ReceiptInv
  <2> QED
    BY <2>1, <2>2, <1>1 DEF BookOK
<1> QED
  BY <1>1, <1>3, <1>6, <1>8, <1>9, <1>10, <1>11 DEF ReceiptInv

\* What both ends of an append leave: the run is open again, with its call's number as head.
LEMMA AppendReceiptStep ==
  ASSUME ReceiptInv, NEW r \in Runs, NEW how \in {"written", "failed"}, Receipts!AppendReceipt(r, how)
  PROVE  ReceiptInv'
<1>0. ledger[r].at = "called" /\ ledger[r] \in Ledgers /\ CallerOK(r)
  BY DEF Receipts!AppendReceipt, ReceiptInv, ReceiptTypes
<1> PICK t \in 1..Len(calls), b \in Books : t = ledger[r].tool /\ b = ledger[r].book
  BY <1>0 DEF CallerOK, Ledgers
<1>1. /\ calls[t].run = r /\ calls[t].done /\ ~HasReceipt(book, t) /\ t \in Nat
      /\ Len(calls) \in Nat /\ ledger[r].head \in Nat
  BY <1>0 DEF CallerOK, Ledgers, ReceiptInv, ReceiptTypes
<1> DEFINE h == [ledger[r] EXCEPT !.at = "open", !.head = t]
<1>2. ledger' = [ledger EXCEPT ![r] = h]
  <2>1. ledger' = [ledger EXCEPT ![r].at = "open", ![r].head = ledger[r].tool]
    BY DEF Receipts!AppendReceipt
  <2> QED
    BY <2>1 DEF ReceiptInv, ReceiptTypes
<1>3. h \in Ledgers /\ h.at = "open" /\ h.head = t /\ h.book = b
  BY <1>0, <1>1 DEF Ledgers
<1> HIDE DEF h
<1>4. /\ ledger' \in [Runs -> Ledgers] /\ ledger'[r] = h
      /\ \A q \in Runs \ {r} : ledger'[q] = ledger[q]
  BY <1>2, <1>3 DEF ReceiptInv, ReceiptTypes
<1>5. ASSUME NEW c \in Books, NEW q \in Runs PROVE LiveOn(q, c)' <=> LiveOn(q, c)
  BY <1>0, <1>3, <1>4 DEF LiveOn
<1>6. ASSUME NEW q \in Runs, q # r, ledger[q].at = "called" PROVE ledger[q].tool # t
  BY <1>1, <1>6 DEF ReceiptInv, CallerOK
<1>7. CASE how = "written"
  <2> DEFINE x == [prev |-> ledger[r].head, hash |-> t, whole |-> TRUE]
  <2>1. /\ book' = [book EXCEPT ![b] = Append(book[b], x)]
        /\ calls' = calls /\ clouded' = clouded
    BY <1>7 DEF Receipts!AppendReceipt, Receipts!Receipt
  <2>2. x \in ReceiptLines /\ x.hash = t /\ x.whole /\ x.prev = ledger[r].head
    BY <1>1 DEF ReceiptLines
  <2> HIDE DEF x
  <2>3. book \in [Books -> Seq(ReceiptLines)] /\ OneReceipt(book) /\ KnownReceipts(book, Len(calls))
    BY DEF ReceiptInv, ReceiptTypes
  <2>4. /\ book' \in [Books -> Seq(ReceiptLines)]
        /\ \A c \in Books \ {b} : book'[c] = book[c]
        /\ \A i : HasReceipt(book', i) <=> HasReceipt(book, i) \/ (x.whole /\ x.hash = i)
        /\ OneReceipt(book) /\ ~HasReceipt(book, x.hash) => OneReceipt(book')
        /\ \A n \in Nat : KnownReceipts(book, n) /\ x.hash \in 1..n => KnownReceipts(book', n)
        /\ Receipts!LastHash(book'[b]) = x.hash
        /\ Receipts!Verifies(book[b]) /\ x.whole /\ x.prev = Receipts!LastHash(book[b]) =>
             Receipts!Verifies(book'[b])
    <3>1. Longer(book, b, x, book')
      BY <2>1, <2>2, <2>3, LineAdded
    <3> QED
      BY <3>1 DEF Longer
  <2>5. ReceiptTypes'
    BY <2>1, <2>4, <1>4 DEF ReceiptInv, ReceiptTypes
  <2>6. OneReceipt(book') /\ KnownReceipts(book', Len(calls))
    BY <2>2, <2>3, <2>4, <1>1
  <2>7. ASSUME NEW i \in 1..Len(calls) PROVE CallOK(i)'
    <3>1. CallOK(i) /\ calls[i].run \in Runs
      BY CallTyped
    <3>2. HasReceipt(book', i) <=> HasReceipt(book, i) \/ i = t
      BY <2>2, <2>4
    <3>3. CASE i = t
      BY <3>2, <3>3, <2>1, <1>1 DEF CallOK
    <3>4. CASE i # t
      <4>1. CASE calls[i].run = r
        BY <4>1, <3>1, <3>2, <3>4, <2>1 DEF CallOK
      <4>2. CASE calls[i].run # r
        BY <4>2, <3>1, <3>2, <3>4, <2>1, <1>4 DEF CallOK
      <4> QED
        BY <4>1, <4>2
    <3> QED
      BY <3>3, <3>4
  <2>8. ASSUME NEW q \in Runs PROVE CallerOK(q)'
    <3>1. CASE q = r
      BY <3>1, <1>3, <1>4 DEF CallerOK
    <3>2. CASE q # r
      <4>1. CallerOK(q) /\ ledger'[q] = ledger[q]
        BY <3>2, <1>4 DEF ReceiptInv
      <4>2. ledger[q].at = "called" => ~HasReceipt(book', ledger[q].tool)
        BY <4>1, <3>2, <2>2, <2>4, <1>6 DEF CallerOK
      <4> QED
        BY <4>1, <4>2, <2>1 DEF CallerOK
    <3> QED
      BY <3>1, <3>2
  <2>9. ASSUME NEW c \in Books PROVE BookOK(c)'
    <3>1. BookOK(c)
      BY DEF ReceiptInv
    <3>2. CASE c = b
      <4>1. LiveOn(r, b)
        BY <1>0 DEF LiveOn
      <4> SUFFICES ASSUME b \notin clouded
                   PROVE  /\ Receipts!Verifies(book'[b])
                          /\ \A q \in Runs : LiveOn(q, b)' => ledger'[q].head = Receipts!LastHash(book'[b])
                          /\ \A p, q \in Runs : LiveOn(p, b)' /\ LiveOn(q, b)' => p = q
        BY <3>2, <2>1 DEF BookOK
      <4>2. /\ Receipts!Verifies(book[b]) /\ ledger[r].head = Receipts!LastHash(book[b])
            /\ \A p, q \in Runs : LiveOn(p, b) /\ LiveOn(q, b) => p = q
        BY <4>1, <3>1, <3>2 DEF BookOK
      <4>3. Receipts!Verifies(book'[b])
        BY <4>2, <2>2, <2>4
      <4>4. ASSUME NEW q \in Runs, LiveOn(q, b)' PROVE ledger'[q].head = Receipts!LastHash(book'[b])
        <5>1. q = r
          BY <4>1, <4>2, <4>4, <1>5
        <5> QED
          BY <5>1, <2>2, <2>4, <1>3, <1>4
      <4> QED
        BY <4>2, <4>3, <4>4, <1>5
    <3>3. CASE c # b
      <4>1. book'[c] = book[c] /\ ~LiveOn(r, c)
        BY <3>3, <2>4 DEF LiveOn
      <4>2. ASSUME NEW q \in Runs, LiveOn(q, c)' PROVE LiveOn(q, c) /\ ledger'[q] = ledger[q]
        BY <4>1, <4>2, <1>4, <1>5
      <4> QED
        BY <4>1, <4>2, <3>1, <2>1 DEF BookOK
    <3> QED
      BY <3>2, <3>3
  <2> QED
    BY <2>1, <2>5, <2>6, <2>7, <2>8, <2>9 DEF ReceiptInv
<1>8. CASE how = "failed"
  <2> DEFINE y == [calls[t] EXCEPT !.lost = TRUE]
  <2>1. /\ book' = book /\ calls' = [calls EXCEPT ![t] = y] /\ clouded' = clouded \cup {b}
    BY <1>8 DEF Receipts!AppendReceipt
  <2>2. calls \in Seq(Calls) /\ calls[t] \in Calls
    BY CallTyped DEF ReceiptInv, ReceiptTypes
  <2>3. y \in Calls /\ y.lost /\ y.run = r /\ y.done
    BY <2>2, <1>1 DEF Calls
  <2> HIDE DEF y
  <2>4. /\ calls' \in Seq(Calls) /\ Len(calls') = Len(calls) /\ calls'[t] = y
        /\ \A i \in 1..Len(calls) : i # t => calls'[i] = calls[i]
    BY <2>1, <2>2, <2>3
  <2>5. ReceiptTypes'
    BY <2>1, <2>4, <1>4 DEF ReceiptInv, ReceiptTypes
  <2>6. ASSUME NEW i \in 1..Len(calls) PROVE CallOK(i)'
    <3>1. CallOK(i) /\ calls[i].run \in Runs
      BY CallTyped
    <3>2. CASE i = t
      BY <3>2, <2>1, <2>3, <2>4 DEF CallOK
    <3>3. CASE i # t
      <4>1. calls'[i] = calls[i]
        BY <3>3, <2>4
      <4>2. CASE calls[i].run = r
        BY <4>1, <4>2, <3>1, <3>3, <2>1 DEF CallOK
      <4>3. CASE calls[i].run # r
        BY <4>1, <4>3, <3>1, <2>1, <1>4 DEF CallOK
      <4> QED
        BY <4>2, <4>3
    <3> QED
      BY <3>2, <3>3
  <2>7. ASSUME NEW q \in Runs PROVE CallerOK(q)'
    <3>1. CASE q = r
      BY <3>1, <1>3, <1>4 DEF CallerOK
    <3>2. CASE q # r
      <4>1. CallerOK(q) /\ ledger'[q] = ledger[q]
        BY <3>2, <1>4 DEF ReceiptInv
      <4> QED
        BY <4>1, <3>2, <2>1, <2>4, <1>6 DEF CallerOK
    <3> QED
      BY <3>1, <3>2
  <2>8. ASSUME NEW c \in Books PROVE BookOK(c)'
    <3>1. CASE c = b
      BY <3>1, <2>1 DEF BookOK
    <3>2. CASE c # b
      <4>1. ASSUME NEW q \in Runs, LiveOn(q, c)' PROVE LiveOn(q, c) /\ ledger'[q] = ledger[q]
        <5>1. LiveOn(q, c) /\ ~LiveOn(r, c)
          BY <4>1, <3>2, <1>5 DEF LiveOn
        <5> QED
          BY <5>1, <1>4
      <4>2. BookOK(c)
        BY DEF ReceiptInv
      <4> QED
        BY <4>1, <4>2, <2>1 DEF BookOK
    <3> QED
      BY <3>1, <3>2
  <2> QED
    BY <2>1, <2>4, <2>5, <2>6, <2>7, <2>8 DEF ReceiptInv
<1> QED
  BY <1>7, <1>8

LEMMA LedgerCrashStep ==
  ASSUME ReceiptInv, Receipts!Crash PROVE ReceiptInv'
<1> DEFINE y(i) == [calls[i] EXCEPT !.lost = TRUE]
           lost(i) == ledger[calls[i].run].at = "called" /\ ledger[calls[i].run].tool = i
<1>1. calls' = [i \in 1..Len(calls) |-> IF lost(i) THEN y(i) ELSE calls[i]]
  <2>1. DOMAIN calls = 1..Len(calls)
    BY DEF ReceiptInv, ReceiptTypes
  <2> QED
    BY <2>1 DEF Receipts!Crash
<1>2. ASSUME NEW i \in 1..Len(calls)
      PROVE  y(i) \in Calls /\ y(i).lost /\ y(i).run = calls[i].run /\ y(i).done = calls[i].done
  BY CallTyped DEF Calls
<1> HIDE DEF y, lost
<1>3. calls' \in Seq(Calls) /\ Len(calls') = Len(calls)
  <2>1. Len(calls) \in Nat
    BY DEF ReceiptInv, ReceiptTypes
  <2>2. calls' \in [1..Len(calls) -> Calls]
    BY <1>1, <1>2, CallTyped
  <2> QED
    BY <2>1, <2>2
<1>4. ledger' = [r \in Runs |-> IF ledger[r].at \in {"open", "called"}
                                 THEN [ledger[r] EXCEPT !.at = "ended"] ELSE ledger[r]]
  BY DEF Receipts!Crash
<1>5. ASSUME NEW r \in Runs PROVE ledger'[r] \in Ledgers /\ ledger'[r].at \notin {"open", "called"}
  BY <1>4 DEF ReceiptInv, ReceiptTypes, Ledgers
<1>6. PICK torn \in SUBSET {r \in Runs : ledger[r].at = "called"} :
        /\ book' = [b \in Books |->
             IF \E r \in torn : ledger[r].book = b
             THEN Append(book[b], Receipts!Receipt(CHOOSE r \in torn : TRUE, FALSE)) ELSE book[b]]
        /\ clouded' = clouded \cup {ledger[r].book : r \in torn}
  BY DEF Receipts!Crash, Books
<1>7. ASSUME NEW b \in Books
      PROVE  /\ \/ book'[b] = book[b]
                \/ \E x \in ReceiptLines : ~x.whole /\ book'[b] = Append(book[b], x)
             /\ b \notin clouded' => book'[b] = book[b] /\ b \notin clouded
  <2>1. CASE \E r \in torn : ledger[r].book = b
    <3> DEFINE r == CHOOSE r \in torn : TRUE
               x == Receipts!Receipt(r, FALSE)
    <3>1. r \in torn /\ r \in Runs
      BY <2>1
    <3>2. ledger[r] \in Ledgers
      BY <3>1 DEF ReceiptInv, ReceiptTypes
    <3> HIDE DEF r
    <3>3. x \in ReceiptLines /\ ~x.whole
      BY <3>2 DEF Receipts!Receipt, ReceiptLines, Ledgers
    <3>4. book'[b] = Append(book[b], x)
      BY <2>1, <1>6 DEF r
    <3>5. b \in clouded'
      BY <2>1, <1>6
    <3> QED
      BY <3>3, <3>4, <3>5
  <2>2. CASE ~(\E r \in torn : ledger[r].book = b)
    BY <2>2, <1>6
  <2> QED
    BY <2>1, <2>2
<1>8. book' \in [Books -> Seq(ReceiptLines)]
  <2>1. ASSUME NEW b \in Books PROVE book'[b] \in Seq(ReceiptLines)
    <3>1. book[b] \in Seq(ReceiptLines)
      BY DEF ReceiptInv, ReceiptTypes
    <3>2. CASE book'[b] = book[b]
      BY <3>1, <3>2
    <3>3. ASSUME NEW x \in ReceiptLines, book'[b] = Append(book[b], x)
          PROVE  book'[b] \in Seq(ReceiptLines)
      <4>1. Append(book[b], x) \in Seq(ReceiptLines)
        BY <3>1
      <4> QED
        BY <4>1, <3>3
    <3> QED
      BY <3>2, <3>3, <1>7
  <2> QED
    BY <2>1, <1>6
<1>9. /\ \A i : HasReceipt(book', i) <=> HasReceipt(book, i)
      /\ OneReceipt(book') /\ KnownReceipts(book', Len(calls))
  <2>1. /\ book \in [Books -> Seq(ReceiptLines)] /\ OneReceipt(book)
        /\ KnownReceipts(book, Len(calls)) /\ Len(calls) \in Nat
    BY DEF ReceiptInv, ReceiptTypes
  <2>2. \A b \in Books : \/ book'[b] = book[b]
                         \/ \E x \in ReceiptLines : ~x.whole /\ book'[b] = Append(book[b], x)
    BY <1>7
  <2> QED
    BY <2>1, <2>2, <1>8, LinesTorn
<1>10. ReceiptTypes'
  <2>1. clouded' \in SUBSET Books
    BY <1>6 DEF ReceiptInv, ReceiptTypes, Ledgers
  <2> QED
    BY <2>1, <1>3, <1>4, <1>5, <1>8 DEF ReceiptTypes
<1>11. ASSUME NEW i \in 1..Len(calls) PROVE CallOK(i)'
  <2>1. CallOK(i)
    BY CallTyped
  <2>2. HasReceipt(book', i) <=> HasReceipt(book, i)
    BY <1>9
  <2>3. CASE lost(i)
    <3>1. calls'[i] = y(i)
      BY <2>3, <1>1
    <3> QED
      BY <3>1, <2>1, <2>2, <1>2 DEF CallOK
  <2>4. CASE ~lost(i)
    <3>1. calls'[i] = calls[i]
      BY <2>4, <1>1
    <3> QED
      BY <3>1, <2>1, <2>2, <2>4 DEF CallOK, lost
  <2> QED
    BY <2>3, <2>4
<1>12. ASSUME NEW r \in Runs PROVE CallerOK(r)'
  BY <1>5 DEF CallerOK
<1>13. ASSUME NEW b \in Books PROVE BookOK(b)'
  BY <1>5, <1>7 DEF ReceiptInv, BookOK, LiveOn
<1> QED
  BY <1>3, <1>9, <1>10, <1>11, <1>12, <1>13 DEF ReceiptInv

LEMMA ReceiptStep ==
  ASSUME ReceiptInv, [Receipts!Next]_(Receipts!receiptVars) PROVE ReceiptInv'
<1>1. CASE UNCHANGED Receipts!receiptVars
  BY <1>1 DEF Receipts!receiptVars, ReceiptInv, ReceiptTypes, CallOK, CallerOK, BookOK, LiveOn
<1> QED
  BY <1>1, OpenLedgerStep, QuietRunStep, CallToolStep, AppendReceiptStep, LedgerCrashStep
     DEF Receipts!Next

LEMMA ReceiptImplies == ASSUME ReceiptInv PROVE Receipts!ReceiptsAccounted
<1>1. ASSUME NEW i PROVE Receipts!Receipted(i) <=> HasReceipt(book, i)
  BY DEF Receipts!Receipted, Receipts!ReceiptOf, HasReceipt, Books
<1>2. DOMAIN calls = 1..Len(calls)
  BY DEF ReceiptInv, ReceiptTypes
<1>3. \A i \in DOMAIN calls :
        /\ calls[i].done /\ ~calls[i].lost /\ ~Receipts!Receipted(i) =>
             ledger[calls[i].run].at = "called" /\ ledger[calls[i].run].tool = i
        /\ Receipts!Receipted(i) => calls[i].done
  BY <1>1, <1>2 DEF ReceiptInv, CallOK
<1>4. \A b, c \in Books : \A j \in DOMAIN book[b], k \in DOMAIN book[c] :
        /\ book[b][j].whole => book[b][j].hash \in DOMAIN calls
        /\ book[b][j].whole /\ Receipts!ReceiptOf(c, k, book[b][j].hash) => b = c /\ j = k
  BY <1>2 DEF ReceiptInv, OneReceipt, KnownReceipts, Receipts!ReceiptOf
<1>5. \A b \in Books \ clouded : Receipts!Verifies(book[b])
  BY DEF ReceiptInv, BookOK
<1> QED
  BY <1>3, <1>4, <1>5 DEF Receipts!ReceiptsAccounted, Books

\* external.call and its receipt ledger (scheduler.rs, effects/lib.rs), for any runs,
\* calls, overlaps, crashes and failed or torn writes: a work that a server did has its
\* receipt, is about to have it, or was lost on the way back, by a failed write or a
\* crash; a receipt is of one call that was done, and in one place; and a ledger file
\* that one run at a time wrote, without a write fault, verifies.
THEOREM ReceiptsAreAccounted == Receipts!ReceiptSpec => []Receipts!ReceiptsAccounted
<1>1. Receipts!Init => ReceiptInv
  BY ReceiptStart
<1>2. ReceiptInv /\ [Receipts!Next]_(Receipts!receiptVars) => ReceiptInv'
  BY ReceiptStep
<1>3. ReceiptInv => Receipts!ReceiptsAccounted
  BY ReceiptImplies
<1> QED
  BY <1>1, <1>2, <1>3, PTL DEF Receipts!ReceiptSpec

-----------------------------------------------------------------------------
(***************************************************************************)
(* Interactive terminals.  What a client collected belongs to one life of  *)
(* the name: an offset above zero was read in some life, and none is from  *)
(* a life yet to come.                                                     *)
(***************************************************************************)
CONSTANTS Names, Users, InputCap, Chunk, MaxOutput, MaxLives

VARIABLES table, life, child, printed, tty, buffer, alive, input, lock, call, seen, made

Pty == INSTANCE PtySessions

PtyAssumptions == Chunk \in Nat

Collected == [life : Nat, offset : Nat, gap : BOOLEAN]

PtyTypes ==
  /\ table \subseteq Names
  /\ life \in [Names -> Nat] /\ printed \in [Names -> Nat] /\ tty \in [Names -> Nat]
  /\ buffer \in [Names -> Nat] /\ alive \in [Names -> BOOLEAN]
  /\ child \in [Names -> {"none", "running", "exited", "killed"}]
  /\ seen \in [Users -> [Names -> Collected]]

\* A call has these fields, and one that is under way names a session name.
CallNamed(c) ==
  /\ c = [at |-> c.at, op |-> c.op, name |-> c.name, left |-> c.left]
  /\ c.at # "none" => c.name \in Names
CallsNamed == DOMAIN call = Users /\ call = [u \in Users |-> call[u]] /\ \A u \in Users : CallNamed(call[u])

\* What a client collected is of the current life or an earlier one.
SeenOK(s, n) ==
  /\ s.life <= life[n]
  /\ s.offset > 0 => s.life > 0
  /\ s.life = life[n] => s.offset <= buffer[n]
  /\ s.gap => life[n] > 1

SessionOK(n) ==
  /\ child[n] = "running" => n \in table
  /\ n \in table => life[n] > 0 /\ buffer[n] + tty[n] = printed[n]
  /\ n \in table /\ ~alive[n] => tty[n] = 0 /\ child[n] # "running"

PtyInv ==
  /\ PtyTypes /\ CallsNamed
  /\ \A u \in Users, n \in Names : SeenOK(seen[u][n], n)
  /\ \A n \in Names : SessionOK(n)

LEMMA PtyStart == ASSUME Pty!Init PROVE PtyInv
<1>1. PtyTypes /\ CallsNamed
  BY DEF Pty!Init, PtyTypes, CallsNamed, CallNamed, Collected, Pty!Unread, Pty!NoCall
<1>2. ASSUME NEW u \in Users, NEW n \in Names PROVE SeenOK(seen[u][n], n)
  BY DEF Pty!Init, SeenOK, Pty!Unread
<1>3. ASSUME NEW n \in Names PROVE SessionOK(n)
  BY DEF Pty!Init, SessionOK
<1> QED
  BY <1>1, <1>2, <1>3 DEF PtyInv

\* What a step does to the calls: it answers one, moves it along, or takes a new one.
LEMMA CallsStayNamed ==
  ASSUME CallsNamed,
         UNCHANGED call \/ \E u \in Users : \E c : CallNamed(c) /\ call' = [call EXCEPT ![u] = c]
  PROVE  CallsNamed'
<1>1. CASE UNCHANGED call
  BY <1>1 DEF CallsNamed
<1>2. ASSUME NEW u \in Users, NEW c, CallNamed(c), call' = [call EXCEPT ![u] = c] PROVE CallsNamed'
  <2>1. call' = [v \in Users |-> IF v = u THEN c ELSE call[v]]
    BY <1>2 DEF CallsNamed
  <2>2. DOMAIN call' = Users /\ call' = [v \in Users |-> call'[v]]
    BY <2>1
  <2>3. ASSUME NEW v \in Users PROVE CallNamed(call'[v])
    <3>1. call'[v] = IF v = u THEN c ELSE call[v]
      BY <2>1
    <3> QED
      BY <3>1, <1>2 DEF CallsNamed
  <2> QED
    BY <2>2, <2>3 DEF CallsNamed
<1> QED
  BY <1>1, <1>2

LEMMA AnsweredNamed ==
  ASSUME CallsNamed, NEW u \in Users, Pty!Answer(u) PROVE CallsNamed'
<1>1. CallNamed(Pty!NoCall)
  BY DEF CallNamed, Pty!NoCall
<1> QED
  BY <1>1, CallsStayNamed DEF Pty!Answer

\* A step that does not touch the sessions or what the clients collected.
LEMMA PtyRests ==
  ASSUME PtyInv, CallsNamed',
         UNCHANGED <<table, life, child, printed, tty, buffer, alive, seen>>
  PROVE  PtyInv'
BY DEF PtyInv, PtyTypes, SeenOK, SessionOK

LEMMA SpawnStep ==
  ASSUME PtyInv, NEW u \in Users, Pty!Spawn(u) PROVE PtyInv'
<1> DEFINE n == call[u].name
<1>1. n \in Names /\ n \notin table
  BY DEF Pty!Spawn, Pty!Serves, PtyInv, CallsNamed, CallNamed
<1>2. /\ life' = [life EXCEPT ![n] = life[n] + 1] /\ child' = [child EXCEPT ![n] = "running"]
      /\ table' = table \cup {n} /\ printed' = [printed EXCEPT ![n] = 0]
      /\ tty' = [tty EXCEPT ![n] = 0] /\ buffer' = [buffer EXCEPT ![n] = 0]
      /\ alive' = [alive EXCEPT ![n] = TRUE] /\ seen' = seen /\ Pty!Answer(u)
  BY DEF Pty!Spawn
<1> HIDE DEF n
<1>3. PtyTypes'
  BY <1>1, <1>2 DEF PtyInv, PtyTypes
<1>4. ASSUME NEW v \in Users, NEW m \in Names PROVE SeenOK(seen[v][m], m)'
  BY <1>1, <1>2 DEF PtyInv, PtyTypes, SeenOK, Collected
<1>5. ASSUME NEW m \in Names PROVE SessionOK(m)'
  BY <1>1, <1>2 DEF PtyInv, PtyTypes, SessionOK
<1> QED
  BY <1>2, <1>3, <1>4, <1>5, AnsweredNamed DEF PtyInv

\* A read from an offset inside the buffer ends inside it and returns all between.
LEMMA SliceEnds ==
  ASSUME PtyAssumptions, NEW o \in Nat, NEW k \in Nat
  PROVE  LET page == Pty!Slice(o, k) IN
         /\ page.next \in Nat /\ page.next <= k
         /\ o <= k => page.next = o + page.bytes
BY DEF PtyAssumptions, Pty!Slice

LEMMA ReadPtyStep ==
  ASSUME PtyAssumptions, PtyInv, NEW u \in Users, Pty!ReadPty(u) PROVE PtyInv'
<1> DEFINE n == call[u].name
           mine == seen[u][n]
           page == Pty!Slice(mine.offset, buffer[n])
           fresh == [life   |-> life[n],
                     offset |-> page.next,
                     gap    |-> mine.gap \/ (mine.life # life[n] /\ mine.offset > 0)
                                         \/ page.next # mine.offset + page.bytes]
<1>1. n \in Names /\ n \in table
  BY DEF Pty!ReadPty, PtyInv, PtyTypes
<1>2. seen' = [seen EXCEPT ![u][n] = fresh]
  BY DEF Pty!ReadPty
<1>3. UNCHANGED <<table, life, child, printed, tty, buffer, alive>> /\ Pty!Answer(u)
  BY DEF Pty!ReadPty
<1>4. mine \in Collected /\ life[n] \in Nat /\ buffer[n] \in Nat /\ SeenOK(mine, n)
  BY <1>1 DEF PtyInv, PtyTypes
<1>5. /\ page.next \in Nat /\ page.next <= buffer[n]
      /\ mine.offset <= buffer[n] => page.next = mine.offset + page.bytes
  BY <1>4, SliceEnds DEF Collected
<1> HIDE DEF page, mine, n
<1>6. fresh \in Collected
  BY <1>4, <1>5 DEF Collected
<1>7. SeenOK(fresh, n)
  <2>1. life[n] > 0
    BY <1>1 DEF PtyInv, SessionOK
  <2>2. fresh.gap => life[n] > 1
    BY <1>4, <1>5 DEF SeenOK, Collected
  <2> QED
    BY <2>1, <2>2, <1>4, <1>5 DEF SeenOK
<1> HIDE DEF fresh
<1>8. PtyTypes'
  BY <1>1, <1>2, <1>3, <1>6 DEF PtyInv, PtyTypes
<1>9. ASSUME NEW v \in Users, NEW m \in Names PROVE SeenOK(seen[v][m], m)'
  <2>1. seen'[v][m] = IF v = u /\ m = n THEN fresh ELSE seen[v][m]
    BY <1>1, <1>2 DEF PtyInv, PtyTypes
  <2>2. SeenOK(seen'[v][m], m)
    BY <2>1, <1>7 DEF PtyInv
  <2> QED
    BY <2>2, <1>3 DEF SeenOK
<1>10. \A m \in Names : SessionOK(m)'
  BY <1>3 DEF PtyInv, SessionOK
<1> QED
  BY <1>3, <1>8, <1>9, <1>10, AnsweredNamed DEF PtyInv

LEMMA ChildStep ==
  ASSUME PtyInv, NEW n \in Names, Pty!Prints(n) \/ Pty!Exit(n) \/ Pty!Drain(n) \/ Pty!DrainEnds(n)
  PROVE  PtyInv'
<1>1. UNCHANGED <<table, life, seen, call>> /\ SessionOK(n)
  BY DEF Pty!Prints, Pty!Exit, Pty!Drain, Pty!DrainEnds, PtyInv
<1>2. PtyTypes' /\ SessionOK(n)' /\ buffer'[n] >= buffer[n]
  <2>1. CASE Pty!Prints(n)
    BY <2>1, <1>1 DEF Pty!Prints, PtyInv, PtyTypes, SessionOK
  <2>2. CASE Pty!Exit(n)
    BY <2>2, <1>1 DEF Pty!Exit, PtyInv, PtyTypes, SessionOK
  <2>3. CASE Pty!Drain(n)
    BY <2>3, <1>1 DEF Pty!Drain, PtyInv, PtyTypes, SessionOK
  <2>4. CASE Pty!DrainEnds(n)
    BY <2>4, <1>1 DEF Pty!DrainEnds, PtyInv, PtyTypes, SessionOK
  <2> QED
    BY <2>1, <2>2, <2>3, <2>4
<1>3. \A m \in Names \ {n} : /\ child'[m] = child[m] /\ printed'[m] = printed[m] /\ tty'[m] = tty[m]
                             /\ buffer'[m] = buffer[m] /\ alive'[m] = alive[m]
  BY DEF Pty!Prints, Pty!Exit, Pty!Drain, Pty!DrainEnds, PtyInv, PtyTypes
<1>4. \A m \in Names : SessionOK(m)'
  BY <1>1, <1>2, <1>3 DEF PtyInv, SessionOK
<1>5. ASSUME NEW u \in Users, NEW m \in Names PROVE SeenOK(seen[u][m], m)'
  <2>1. SeenOK(seen[u][m], m) /\ seen[u][m] \in Collected /\ buffer[m] \in Nat /\ buffer'[m] \in Nat
    BY <1>2 DEF PtyInv, PtyTypes
  <2>2. buffer'[m] >= buffer[m]
    BY <2>1, <1>2, <1>3
  <2> QED
    BY <2>1, <2>2, <1>1 DEF SeenOK, Collected
<1> QED
  BY <1>1, <1>2, <1>4, <1>5, CallsStayNamed DEF PtyInv

LEMMA KillStep ==
  ASSUME PtyInv, NEW u \in Users, Pty!Kill(u) PROVE PtyInv'
<1> DEFINE n == call[u].name
<1>1. /\ UNCHANGED <<life, printed, tty, buffer, alive, seen>> /\ Pty!Answer(u)
      /\ child' = [child EXCEPT ![n] = IF n \in table /\ child[n] = "running" THEN "killed"
                                      ELSE child[n]]
      /\ table' = table \ {n} /\ n \in Names
  BY DEF Pty!Kill, Pty!Serves, PtyInv, CallsNamed, CallNamed
<1> HIDE DEF n
<1>2. PtyTypes'
  BY <1>1 DEF PtyInv, PtyTypes
<1>3. \A v \in Users, m \in Names : SeenOK(seen[v][m], m)'
  BY <1>1 DEF PtyInv, SeenOK
<1>4. ASSUME NEW m \in Names PROVE SessionOK(m)'
  BY <1>1 DEF PtyInv, PtyTypes, SessionOK
<1> QED
  BY <1>1, <1>2, <1>3, <1>4, AnsweredNamed DEF PtyInv

LEMMA PtyStep ==
  ASSUME PtyAssumptions, PtyInv, [Pty!Next]_(Pty!ptyVars) PROVE PtyInv'
<1>1. ASSUME NEW u \in Users, NEW n \in Names, NEW op, NEW k, Pty!Call(u, op, n, k) PROVE PtyInv'
  <2>1. CallNamed([at |-> "asked", op |-> op, name |-> n, left |-> k])
    BY DEF CallNamed
  <2>2. CallsNamed'
    BY <1>1, <2>1, CallsStayNamed DEF Pty!Call, PtyInv
  <2> QED
    BY <2>2, <1>1, PtyRests DEF Pty!Call
<1>2. ASSUME NEW u \in Users, Pty!Refuse(u) PROVE PtyInv'
  <2>1. CallsNamed'
    BY <1>2, AnsweredNamed DEF Pty!Refuse, PtyInv
  <2> QED
    BY <2>1, <1>2, PtyRests DEF Pty!Refuse
<1>3. ASSUME NEW u \in Users, Pty!WriteStarts(u) PROVE PtyInv'
  <2> DEFINE c == [call[u] EXCEPT !.at = "writing"]
  <2>1. CallNamed(call[u]) /\ call[u].at = "asked"
    BY <1>3 DEF Pty!WriteStarts, Pty!Serves, PtyInv, CallsNamed
  <2>2. CallNamed(c) /\ call' = [call EXCEPT ![u] = c]
    BY <1>3, <2>1 DEF Pty!WriteStarts, CallNamed
  <2>3. CallsNamed'
    BY <2>2, CallsStayNamed DEF PtyInv
  <2> QED
    BY <2>3, <1>3, PtyRests DEF Pty!WriteStarts
<1>4. ASSUME NEW u \in Users, Pty!WriteByte(u) PROVE PtyInv'
  <2> DEFINE c == [call[u] EXCEPT !.left = call[u].left - 1]
  <2>1. CallNamed(call[u])
    BY DEF PtyInv, CallsNamed
  <2>2. CallNamed(c) /\ call' = [call EXCEPT ![u] = c]
    BY <1>4, <2>1 DEF Pty!WriteByte, CallNamed
  <2>3. CallsNamed'
    BY <2>2, CallsStayNamed DEF PtyInv
  <2> QED
    BY <2>3, <1>4, PtyRests DEF Pty!WriteByte
<1>5. ASSUME NEW u \in Users, Pty!WriteEnds(u) PROVE PtyInv'
  <2>1. CallsNamed'
    BY <1>5, AnsweredNamed DEF Pty!WriteEnds, PtyInv
  <2> QED
    BY <2>1, <1>5, PtyRests DEF Pty!WriteEnds
<1>6. ASSUME NEW n \in Names, Pty!Consume(n) PROVE PtyInv'
  <2>1. CallsNamed'
    BY <1>6, CallsStayNamed DEF Pty!Consume, PtyInv
  <2> QED
    BY <2>1, <1>6, PtyRests DEF Pty!Consume
<1>7. CASE UNCHANGED Pty!ptyVars
  <2>1. CallsNamed'
    BY <1>7, CallsStayNamed DEF Pty!ptyVars, PtyInv
  <2> QED
    BY <2>1, <1>7, PtyRests DEF Pty!ptyVars
<1> QED
  BY <1>1, <1>2, <1>3, <1>4, <1>5, <1>6, <1>7, SpawnStep, ReadPtyStep, ChildStep, KillStep DEF Pty!Next

\* PtyBroker and the pty calls of ExecdClient, for any names, clients and lives of a name: a
\* client that stays with one child has its output from the first byte without a gap, what a
\* child printed is in the terminal or the buffer, and whole in the buffer once the session's
\* flag is down; no child outlives its session.
THEOREM TerminalsAreSound ==
  PtyAssumptions => (Pty!PtySpec => []Pty!PtySound)
<1> SUFFICES ASSUME PtyAssumptions PROVE Pty!PtySpec => []Pty!PtySound
  OBVIOUS
<1>1. Pty!Init => PtyInv
  BY PtyStart
<1>2. PtyInv /\ [Pty!Next]_(Pty!ptyVars) => PtyInv'
  BY PtyStep
<1>3. PtyInv => Pty!PtySound
  <2> SUFFICES ASSUME PtyInv PROVE Pty!PtySound
    OBVIOUS
  <2>1. Pty!ReadersContiguous
    BY DEF Pty!ReadersContiguous, PtyInv, SeenOK
  <2>2. Pty!OutputKept
    BY DEF Pty!OutputKept, PtyInv, PtyTypes, SessionOK
  <2>3. Pty!ChildrenOwned
    BY DEF Pty!ChildrenOwned, PtyInv, SessionOK
  <2> QED
    BY <2>1, <2>2, <2>3 DEF Pty!PtySound
<1> QED
  BY <1>1, <1>2, <1>3, PTL DEF Pty!PtySpec

-----------------------------------------------------------------------------
(***************************************************************************)
(* One shell.run.  The capture holds a beginning of the log; nothing but   *)
(* the end of the command makes a status say so, and after it the log does *)
(* not grow.                                                               *)
(***************************************************************************)
CONSTANTS MaxOut, DrainMax, Window

VARIABLES proc, term, out, up, held, disk, served, cap, view, cancel, ref

Exec == INSTANCE ExecBroker WITH call <- served

\* DRAIN_MAX and window_bytes: a read of no bytes would tell nothing.
ExecAssumptions == DrainMax \in Nat \ {0} /\ Window \in Nat

Over == {"exited", "interrupted"}
Told == Over \cup {"running", "killed"}

\* A call says that the command ended only if it has.
ServedOK(c) ==
  /\ served[c].at = "answer" => served[c].found \in Told
  /\ served[c].at = "persist" => served[c].found \in Over
  /\ served[c].found \in Over => proc = "ended"

ServingOK ==
  /\ DOMAIN served = Exec!Callers
  /\ \A c \in Exec!Callers : ServedOK(c)
  /\ served["capture"].at = "spawned" => cap.at = "spawn"

DiskOK == disk \in Told \cup {"none"} /\ (disk \in Over => proc = "ended")

IsCap(x) == x = [at |-> x.at, got |-> x.got, state |-> x.state]

\* What the capture has is a beginning of the log, and all of it once it is through.
CaptureOK ==
  /\ out \in Nat /\ IsCap(cap)
  /\ \E k \in Nat : cap.got = Exec!Bytes(0, k) /\ k <= out
  /\ cap.at = "tail" => cap.state \in Over \cup {"killed"}
  /\ cap.state \in Over => proc = "ended"
  /\ cap.at \in {"done", "stored"} /\ cap.state # "killed" =>
       cap.state \in Over /\ cap.got = Exec!Bytes(0, out)

RefOfCapture == ref # Exec!NoRef => cap.at = "stored" /\ ref = cap.got

ViewOK ==
  /\ view = [cursor |-> view.cursor, seen |-> view.seen, dropped |-> view.dropped]
  /\ view.cursor \in Nat /\ view.dropped \in Nat /\ view.seen \in Seq(Nat)
  /\ view.cursor <= out /\ Len(view.seen) + view.dropped = view.cursor

ExecInv == ServingOK /\ DiskOK /\ CaptureOK /\ RefOfCapture /\ ViewOK

LEMMA BytesAre ==
  ASSUME NEW a \in Nat, NEW b \in Nat, a <= b
  PROVE  Exec!Bytes(a, b) \in Seq(Nat) /\ Len(Exec!Bytes(a, b)) = b - a
<1> DEFINE f == [i \in 1..(b - a) |-> a + i]
<1>1. b - a \in Nat /\ \A i \in 1..(b - a) : a + i \in Nat
  OBVIOUS
<1>2. f \in Seq(Nat) /\ Len(f) = b - a
  BY <1>1
<1> QED
  BY <1>2 DEF Exec!Bytes

LEMMA BytesJoin ==
  ASSUME NEW k \in Nat, NEW m \in Nat, k <= m
  PROVE  Exec!Bytes(0, k) \o Exec!Bytes(k, m) = Exec!Bytes(0, m)
<1> DEFINE s == Exec!Bytes(0, k)
           t == Exec!Bytes(k, m)
           u == Exec!Bytes(0, m)
<1>1. k - 0 = k /\ m - 0 = m /\ 0 \in Nat /\ 0 <= k /\ 0 <= m
  OBVIOUS
<1>2. s \in Seq(Nat) /\ Len(s) = k
  BY <1>1, BytesAre, Zenon
<1>3. u \in Seq(Nat) /\ Len(u) = m
  BY <1>1, BytesAre, Zenon
<1>4. t \in Seq(Nat) /\ Len(t) = m - k
  BY BytesAre
<1>5. /\ \A i \in 1..k : s[i] = i
      /\ \A i \in 1..(m - k) : t[i] = k + i
      /\ \A i \in 1..m : u[i] = i
  BY DEF Exec!Bytes
<1> HIDE DEF s, t, u
<1>6. /\ s \o t \in Seq(Nat) /\ Len(s \o t) = Len(s) + Len(t)
      /\ \A i \in 1..(Len(s) + Len(t)) : (s \o t)[i] = IF i <= Len(s) THEN s[i] ELSE t[i - Len(s)]
  BY <1>2, <1>4, ConcatProperties, Zenon
<1>7. Len(s) + Len(t) = m
  BY <1>2, <1>4
<1>8. ASSUME NEW v, v = s \o t PROVE \A i \in 1..m : v[i] = u[i]
  <2>1. \A i \in 1..m : v[i] = IF i <= k THEN s[i] ELSE t[i - k]
    BY <1>2, <1>6, <1>7, <1>8, Zenon
  <2>2. ASSUME NEW i \in 1..m, i <= k PROVE s[i] = u[i]
    BY <2>2, <1>5
  <2>3. ASSUME NEW i \in 1..m, ~(i <= k) PROVE t[i - k] = u[i]
    <3>1. i - k \in 1..(m - k) /\ k + (i - k) = i
      BY <2>3
    <3> QED
      BY <3>1, <1>5
  <2> QED
    BY <2>1, <2>2, <2>3, Zenon
<1>9. s \o t = u
  BY <1>3, <1>6, <1>7, <1>8, SeqEqual, Zenon
<1> QED
  BY <1>9 DEF s, t, u

\* A read of the log leaves a longer beginning of it, or the same if that is all.
LEMMA DrainedIs ==
  ASSUME ExecAssumptions, CaptureOK
  PROVE  /\ \E k \in Nat : Exec!Drained = Exec!Bytes(0, k) /\ k <= out
         /\ Exec!Drained = cap.got => cap.got = Exec!Bytes(0, out)
<1>1. PICK k \in Nat : cap.got = Exec!Bytes(0, k) /\ k <= out
  BY DEF CaptureOK
<1>2. Len(cap.got) = k /\ out \in Nat
  <2>1. 0 \in Nat /\ 0 <= k /\ k - 0 = k
    OBVIOUS
  <2>2. Len(Exec!Bytes(0, k)) = k
    BY <2>1, BytesAre, Zenon
  <2> QED
    BY <1>1, <2>2 DEF CaptureOK
<1> DEFINE m == Exec!Least(out, k + DrainMax)
<1>3. m \in Nat /\ k <= m /\ m <= out /\ (m = k => k = out)
  BY <1>1, <1>2 DEF Exec!Least, ExecAssumptions
<1>4. Exec!Drained = cap.got \o Exec!Bytes(k, m)
  BY <1>2 DEF Exec!Drained
<1> HIDE DEF m
<1>5. Exec!Drained = Exec!Bytes(0, m)
  BY <1>1, <1>3, <1>4, BytesJoin
<1>6. Len(Exec!Drained) = m
  <2>1. 0 \in Nat /\ 0 <= m /\ m - 0 = m
    BY <1>3
  <2> QED
    BY <1>3, <1>5, <2>1, BytesAre, Zenon
<1> QED
  BY <1>1, <1>2, <1>3, <1>5, <1>6

LEMMA ExecStart == ASSUME Exec!ExecInit PROVE ExecInv
<1>1. ServingOK /\ DiskOK /\ RefOfCapture
  BY DEF Exec!ExecInit, ServingOK, ServedOK, DiskOK, RefOfCapture, Exec!Rest, Exec!Callers, Told, Over
<1>2. ViewOK
  BY DEF Exec!ExecInit, ViewOK
<1>3. cap.got = Exec!Bytes(0, 0)
  <2>1. <<>> = [i \in 1..(0 - 0) |-> 0 + i]
    OBVIOUS
  <2> QED
    BY <2>1 DEF Exec!ExecInit, Exec!Bytes
<1>4. CaptureOK
  BY <1>3 DEF Exec!ExecInit, CaptureOK, IsCap, Over
<1> QED
  BY <1>1, <1>2, <1>4 DEF ExecInv

\* A call goes on: what it says of the command is so.
LEMMA ServesOn ==
  ASSUME ServingOK, proc = "ended" => proc' = "ended", NEW c \in Exec!Callers,
         NEW place, NEW found, Exec!Serve(c, place, found),
         place = "answer" => found \in Told, place = "persist" => found \in Over,
         found \in Over => proc' = "ended",
         c = "capture" => (place = "spawned" => cap'.at = "spawn"),
         c # "capture" => cap'.at = cap.at
  PROVE  ServingOK'
<1>1. served' = [served EXCEPT ![c] = [at |-> place, found |-> found]]
  BY DEF Exec!Serve
<1>2. DOMAIN served' = Exec!Callers
  BY <1>1 DEF ServingOK
<1>3. ASSUME NEW d \in Exec!Callers PROVE ServedOK(d)'
  <2>1. CASE d = c
    BY <1>1, <2>1 DEF ServingOK, ServedOK
  <2>2. CASE d # c
    <3>1. served'[d] = served[d] /\ ServedOK(d)
      BY <1>1, <2>2 DEF ServingOK
    <3> QED
      BY <3>1 DEF ServedOK
  <2> QED
    BY <2>1, <2>2
<1>4. served'["capture"].at = "spawned" => cap'.at = "spawn"
  BY <1>1 DEF ServingOK, Exec!Callers
<1> QED
  BY <1>2, <1>3, <1>4 DEF ServingOK

\* The capture is done with its call.
LEMMA CaptureServed ==
  ASSUME ServingOK, UNCHANGED proc, served' = [served EXCEPT !["capture"] = Exec!Rest]
  PROVE  ServingOK'
<1>1. "capture" \in Exec!Callers /\ Exec!Serve("capture", "rest", "none")
  BY DEF Exec!Callers, Exec!Serve, Exec!Rest
<1> QED
  BY <1>1, ServesOn DEF Over

\* A step of the broker or the command's end.
LEMMA BrokerStep ==
  ASSUME ExecInv, UNCHANGED <<out, cap, view, ref>>, proc = "ended" => proc' = "ended",
         ServingOK', DiskOK'
  PROVE  ExecInv'
BY DEF ExecInv, CaptureOK, RefOfCapture, ViewOK

LEMMA BrokerSteps ==
  ASSUME ExecInv, NEW c \in Exec!Callers,
         \/ Exec!Exit \/ Exec!BrokerDies \/ Exec!BrokerStarts \/ Exec!StatusRead(c) \/ Exec!StatusProbe(c)
         \/ Exec!StatusPersist(c) \/ Exec!Stop(c) \/ Exec!StopPersist(c) \/ Exec!DesktopDone \/ Exec!Cancel
  PROVE  ExecInv'
<1>1. ServingOK /\ DiskOK
  BY DEF ExecInv
<1>2. CASE Exec!Exit
  <2>1. /\ proc' = "ended" /\ UNCHANGED <<out, up, held, disk, served, cap, view, ref>>
    BY <1>2 DEF Exec!Exit, Exec!broker
  <2>2. ServingOK' /\ DiskOK'
    BY <2>1, <1>1 DEF ServingOK, ServedOK, DiskOK
  <2> QED
    BY <2>1, <2>2, BrokerStep
<1>3. CASE Exec!BrokerDies
  <2>1. /\ UNCHANGED <<proc, out, disk, cap, view, ref>>
        /\ served' = [d \in Exec!Callers |-> IF served[d].at = "rest" THEN Exec!Rest
                                             ELSE [Exec!Rest EXCEPT !.at = "failed"]]
    BY <1>3 DEF Exec!BrokerDies, Exec!process
  <2>2. ServingOK' /\ DiskOK'
    BY <2>1, <1>1 DEF ServingOK, ServedOK, DiskOK, Exec!Rest, Exec!Callers, Over
  <2> QED
    BY <2>1, <2>2, BrokerStep
<1>4. CASE Exec!BrokerStarts \/ Exec!Cancel
  <2>1. UNCHANGED <<proc, out, disk, served, cap, view, ref>>
    BY <1>4 DEF Exec!BrokerStarts, Exec!Cancel, Exec!process, Exec!broker
  <2>2. ServingOK' /\ DiskOK'
    BY <2>1, <1>1 DEF ServingOK, ServedOK, DiskOK
  <2> QED
    BY <2>1, <2>2, BrokerStep
<1>5. CASE Exec!StatusRead(c)
  <2>1. /\ UNCHANGED <<proc, out, disk, cap, view, ref>> /\ disk # "none"
        /\ \/ disk = "running" /\ Exec!Serve(c, "probe", "none")
           \/ disk # "running" /\ Exec!Serve(c, "answer", disk)
    BY <1>5 DEF Exec!StatusRead, Exec!process, Exec!broker
  <2>2. ServingOK'
    BY <2>1, <1>1, ServesOn DEF DiskOK, Over
  <2>3. DiskOK'
    BY <2>1, <1>1 DEF DiskOK
  <2> QED
    BY <2>1, <2>2, <2>3, BrokerStep
<1>6. CASE Exec!StatusProbe(c)
  <2>1. /\ UNCHANGED <<proc, out, disk, cap, view, ref>>
        /\ \/ proc = "ended" /\ \E x \in Over : Exec!Serve(c, "persist", x)
           \/ Exec!Serve(c, "answer", "running")
    BY <1>6 DEF Exec!StatusProbe, Exec!process, Exec!broker, Over
  <2>2. ServingOK'
    BY <2>1, <1>1, ServesOn DEF Over, Told
  <2>3. DiskOK'
    BY <2>1, <1>1 DEF DiskOK
  <2> QED
    BY <2>1, <2>2, <2>3, BrokerStep
<1>7. CASE Exec!StatusPersist(c)
  <2>1. /\ UNCHANGED <<proc, out, cap, view, ref>> /\ served[c].at = "persist"
        /\ disk' = served[c].found /\ Exec!Serve(c, "answer", served[c].found)
    BY <1>7 DEF Exec!StatusPersist, Exec!process, Exec!CallAt
  <2>2. served[c].found \in Over /\ proc = "ended"
    BY <2>1, <1>1 DEF ServingOK, ServedOK
  <2>3. ServingOK'
    BY <2>1, <2>2, <1>1, ServesOn DEF Told
  <2>4. DiskOK'
    BY <2>1, <2>2 DEF DiskOK, Told
  <2> QED
    BY <2>1, <2>3, <2>4, BrokerStep
<1>8. CASE Exec!Stop(c)
  <2>1. /\ UNCHANGED <<out, disk, cap, view, ref>> /\ (proc' = "ended" \/ proc' = proc)
        /\ \/ Exec!Serve(c, "kill", "none") \/ Exec!Serve(c, "failed", "none")
    BY <1>8 DEF Exec!Stop
  <2>2. ServingOK'
    BY <2>1, <1>1, ServesOn DEF Over
  <2>3. DiskOK'
    BY <2>1, <1>1 DEF DiskOK
  <2> QED
    BY <2>1, <2>2, <2>3, BrokerStep
<1>9. CASE Exec!StopPersist(c)
  <2>1. /\ UNCHANGED <<proc, out, cap, view, ref>>
        /\ disk' = "killed" /\ Exec!Serve(c, "answer", "killed")
    BY <1>9 DEF Exec!StopPersist, Exec!process
  <2>2. ServingOK'
    BY <2>1, <1>1, ServesOn DEF Over, Told
  <2>3. DiskOK'
    BY <2>1 DEF DiskOK, Told, Over
  <2> QED
    BY <2>1, <2>2, <2>3, BrokerStep
<1>10. CASE Exec!DesktopDone
  <2>1. /\ UNCHANGED <<proc, out, disk, cap, view, ref>>
        /\ "desktop" \in Exec!Callers /\ Exec!Serve("desktop", "rest", "none")
    BY <1>10 DEF Exec!DesktopDone, Exec!process, Exec!broker, Exec!Callers, Exec!Serve, Exec!Rest
  <2>2. ServingOK'
    BY <2>1, <1>1, ServesOn DEF Over
  <2>3. DiskOK'
    BY <2>1, <1>1 DEF DiskOK
  <2> QED
    BY <2>1, <2>2, <2>3, BrokerStep
<1> QED
  BY <1>2, <1>3, <1>4, <1>5, <1>6, <1>7, <1>8, <1>9, <1>10

\* The log grows while the command runs: no capture was through then.
LEMMA WriteStep == ASSUME ExecInv, Exec!Write PROVE ExecInv'
<1>1. /\ UNCHANGED <<proc, disk, served, cap, view, ref>> /\ proc = "running" /\ out' = out + 1
  BY DEF Exec!Write, Exec!broker
<1>2. ServingOK' /\ DiskOK' /\ RefOfCapture'
  BY <1>1 DEF ExecInv, ServingOK, ServedOK, DiskOK, RefOfCapture
<1>3. out \in Nat /\ out' \in Nat /\ out <= out'
  BY <1>1 DEF ExecInv, CaptureOK
<1>4. ViewOK'
  BY <1>1, <1>3 DEF ExecInv, ViewOK
<1>5. \E k \in Nat : cap'.got = Exec!Bytes(0, k) /\ k <= out'
  <2>1. PICK k \in Nat : cap.got = Exec!Bytes(0, k) /\ k <= out
    BY DEF ExecInv, CaptureOK
  <2> QED
    BY <2>1, <1>1, <1>3
<1>6. CaptureOK'
  BY <1>1, <1>3, <1>5 DEF ExecInv, CaptureOK, IsCap
<1> QED
  BY <1>2, <1>4, <1>6 DEF ExecInv

\* From where a replay reads, and that it counts what it leaves out.
LEMMA ReplayCounts ==
  ASSUME NEW c \in Nat, NEW d \in Nat, NEW o \in Nat, NEW w \in Nat, NEW a \in Nat, NEW f,
         c < o, a + d = c, f = IF c + w < o THEN o - w ELSE c
  PROVE  /\ f \in Nat /\ c <= f /\ f <= o /\ d + (f - c) \in Nat
         /\ (a + (o - f)) + (d + (f - c)) = o
OBVIOUS

LEMMA ReplayStep == ASSUME ExecAssumptions, ExecInv, Exec!Replay PROVE ExecInv'
<1> DEFINE from == IF view.cursor + Window < out THEN out - Window ELSE view.cursor
<1>1. /\ UNCHANGED <<proc, out, disk, served, cap, ref>> /\ view.cursor < out
      /\ view' = [cursor |-> out, seen |-> view.seen \o Exec!Bytes(from, out),
                  dropped |-> view.dropped + (from - view.cursor)]
  BY DEF Exec!Replay, Exec!broker, Exec!process
<1>2. /\ view.cursor \in Nat /\ view.dropped \in Nat /\ view.seen \in Seq(Nat) /\ out \in Nat
      /\ Len(view.seen) \in Nat /\ Len(view.seen) + view.dropped = view.cursor
  BY DEF ExecInv, ViewOK, CaptureOK
<1>3. /\ from \in Nat /\ view.cursor <= from /\ from <= out
      /\ view.dropped + (from - view.cursor) \in Nat
      /\ (Len(view.seen) + (out - from)) + (view.dropped + (from - view.cursor)) = out
  <2>1. Window \in Nat /\ view.cursor < out
    BY <1>1 DEF ExecAssumptions
  <2>2. from = IF view.cursor + Window < out THEN out - Window ELSE view.cursor
    OBVIOUS
  <2> HIDE DEF from
  <2>3. ASSUME NEW c, c = view.cursor, NEW d, d = view.dropped, NEW a, a = Len(view.seen)
        PROVE  /\ from \in Nat /\ c <= from /\ from <= out /\ d + (from - c) \in Nat
               /\ (a + (out - from)) + (d + (from - c)) = out
    <3>1. c \in Nat /\ d \in Nat /\ a \in Nat /\ out \in Nat /\ a + d = c
      BY <2>3, <1>2
    <3>2. c < out /\ from = IF c + Window < out THEN out - Window ELSE c
      BY <2>1, <2>2, <2>3
    <3> QED
      BY <3>1, <3>2, <2>1, ReplayCounts
  <2> QED
    BY <2>3, Zenon
<1> HIDE DEF from
<1>4. Exec!Bytes(from, out) \in Seq(Nat) /\ Len(Exec!Bytes(from, out)) = out - from
  BY <1>2, <1>3, BytesAre
<1>5. /\ view.seen \o Exec!Bytes(from, out) \in Seq(Nat)
      /\ Len(view.seen \o Exec!Bytes(from, out)) = Len(view.seen) + Len(Exec!Bytes(from, out))
  BY <1>2, <1>4, ConcatProperties, Zenon
<1>6. PICK s : s = view.seen \o Exec!Bytes(from, out)
  OBVIOUS
<1>7. /\ view'.cursor = out /\ view'.seen = s /\ view'.dropped = view.dropped + (from - view.cursor)
      /\ view' = [cursor |-> view'.cursor, seen |-> view'.seen, dropped |-> view'.dropped]
  BY <1>1, <1>6
<1>8. s \in Seq(Nat) /\ Len(s) = Len(view.seen) + (out - from)
  BY <1>4, <1>5, <1>6
<1>9. out <= out
  BY <1>2
<1>10. ViewOK'
  BY <1>1, <1>2, <1>3, <1>7, <1>8, <1>9, Zenon DEF ViewOK
<1> QED
  BY <1>1, <1>10 DEF ExecInv, ServingOK, ServedOK, DiskOK, RefOfCapture, CaptureOK, IsCap

\* A step of the capture that reads nothing.
LEMMA CaptureGoes ==
  ASSUME ExecInv, UNCHANGED <<out, view, ref>>, proc = "ended" => proc' = "ended",
         NEW place, Exec!Go(place), cap.at \notin {"done", "stored"}, place \notin {"tail", "done", "stored"},
         ServingOK', DiskOK'
  PROVE  ExecInv'
<1>1. IsCap(cap) /\ cap' = [cap EXCEPT !.at = place]
  BY DEF ExecInv, CaptureOK, Exec!Go
<1>2. IsCap(cap') /\ cap'.at = place /\ cap'.got = cap.got /\ cap'.state = cap.state
  BY <1>1 DEF IsCap
<1>3. CaptureOK'
  BY <1>2 DEF ExecInv, CaptureOK
<1>4. RefOfCapture' /\ ViewOK'
  BY DEF ExecInv, RefOfCapture, ViewOK
<1> QED
  BY <1>3, <1>4 DEF ExecInv

LEMMA CaptureSteps ==
  ASSUME ExecAssumptions, ExecInv,
         \/ Exec!SpawnChild \/ Exec!SpawnPersist \/ Exec!CheckCancel \/ Exec!Drain
         \/ \E late \in BOOLEAN : Exec!Polled(late)
         \/ Exec!FinalDrain \/ Exec!Stopped \/ Exec!CallFails \/ Exec!StoreFull
  PROVE  ExecInv'
<1>1. ServingOK /\ DiskOK /\ CaptureOK /\ RefOfCapture /\ ViewOK /\ "capture" \in Exec!Callers
  BY DEF ExecInv, Exec!Callers
<1>2. CASE Exec!SpawnChild
  <2>1. /\ UNCHANGED <<out, disk, view, ref>> /\ Exec!Go("spawn") /\ cap.at = "off" /\ proc = "none"
        /\ Exec!Serve("capture", "spawned", "none")
    BY <1>2 DEF Exec!SpawnChild, Exec!CapAt
  <2>2. cap'.at = "spawn"
    BY <2>1, <1>1 DEF Exec!Go, CaptureOK, IsCap
  <2>3. ServingOK'
    BY <2>1, <2>2, <1>1, ServesOn DEF Over
  <2>4. DiskOK'
    BY <2>1, <1>1 DEF DiskOK
  <2> QED
    BY <2>1, <2>3, <2>4, CaptureGoes
<1>3. CASE Exec!SpawnPersist
  <2>1. /\ UNCHANGED <<proc, out, view, ref>> /\ Exec!Go("top") /\ served["capture"].at = "spawned"
        /\ Exec!Serve("capture", "rest", "none") /\ disk' = "running"
    BY <1>3 DEF Exec!SpawnPersist, Exec!CallAt, Exec!process
  <2>2. cap.at = "spawn"
    BY <2>1, <1>1 DEF ServingOK
  <2>3. ServingOK'
    BY <2>1, <1>1, ServesOn DEF Over
  <2>4. DiskOK'
    BY <2>1 DEF DiskOK, Told, Over
  <2> QED
    BY <2>1, <2>2, <2>3, <2>4, CaptureGoes
<1>4. CASE Exec!CheckCancel
  <2>1. /\ UNCHANGED <<proc, out, disk, served, view, ref>> /\ cap.at = "top"
        /\ \E place \in {"stop", "drain"} : Exec!Go(place)
    BY <1>4 DEF Exec!CheckCancel, Exec!CapAt, Exec!process, Exec!broker
  <2>2. served["capture"].at # "spawned"
    BY <2>1, <1>1 DEF ServingOK
  <2>3. ServingOK' /\ DiskOK'
    BY <2>1, <2>2, <1>1 DEF ServingOK, ServedOK, DiskOK
  <2> QED
    BY <2>1, <2>3, CaptureGoes
<1>5. CASE Exec!Drain
  <2>1. /\ UNCHANGED <<proc, out, disk, served, view, ref>> /\ cap.at = "drain"
        /\ cap' = [cap EXCEPT !.at = "poll", !.got = Exec!Drained]
    BY <1>5 DEF Exec!Drain, Exec!CapAt, Exec!process, Exec!broker
  <2>2. IsCap(cap') /\ cap'.at = "poll" /\ cap'.got = Exec!Drained /\ cap'.state = cap.state
    BY <2>1, <1>1 DEF IsCap, CaptureOK
  <2>3. served["capture"].at # "spawned"
    BY <2>1, <1>1 DEF ServingOK
  <2>4. ServingOK' /\ DiskOK' /\ RefOfCapture' /\ ViewOK'
    BY <2>1, <2>3, <1>1 DEF ServingOK, ServedOK, DiskOK, RefOfCapture, ViewOK
  <2>5. CaptureOK'
    BY <2>1, <2>2, <1>1, DrainedIs DEF CaptureOK
  <2> QED
    BY <2>4, <2>5 DEF ExecInv
<1>6. ASSUME NEW late \in BOOLEAN, Exec!Polled(late) PROVE ExecInv'
  <2>1. /\ UNCHANGED <<proc, out, disk, view, ref>> /\ cap.at = "poll" /\ served["capture"].at = "answer"
        /\ served' = [served EXCEPT !["capture"] = Exec!Rest]
    BY <1>6 DEF Exec!Polled, Exec!CapAt, Exec!process, Exec!broker
  <2>2. served["capture"].found \in Told /\ (served["capture"].found \in Over => proc = "ended")
    BY <2>1, <1>1 DEF ServingOK, ServedOK
  <2>3. ServingOK'
    BY <2>1, <1>1, CaptureServed
  <2>4. DiskOK'
    BY <2>1, <1>1 DEF DiskOK
  <2>5. CASE served["capture"].found = "running"
    <3>1. \E place \in {"stop", "top"} : Exec!Go(place)
      BY <1>6, <2>5 DEF Exec!Polled, Exec!Go
    <3> QED
      BY <3>1, <2>1, <2>3, <2>4, CaptureGoes
  <2>6. CASE served["capture"].found # "running"
    <3>1. cap' = [cap EXCEPT !.at = "tail", !.state = served["capture"].found]
      BY <1>6, <2>6 DEF Exec!Polled
    <3>2. IsCap(cap') /\ cap'.at = "tail" /\ cap'.got = cap.got /\ cap'.state = served["capture"].found
      BY <3>1, <1>1 DEF IsCap, CaptureOK
    <3>3. CaptureOK'
      BY <2>1, <2>2, <2>6, <3>2, <1>1 DEF CaptureOK, Told
    <3>4. RefOfCapture' /\ ViewOK'
      BY <2>1, <1>1 DEF RefOfCapture, ViewOK
    <3> QED
      BY <2>3, <2>4, <3>3, <3>4 DEF ExecInv
  <2> QED
    BY <2>5, <2>6
<1>7. CASE Exec!FinalDrain
  <2>1. /\ UNCHANGED <<proc, out, disk, served, view, ref>> /\ cap.at = "tail"
        /\ \/ Exec!Drained = cap.got /\ cap' = [cap EXCEPT !.at = "done"]
           \/ cap' = [cap EXCEPT !.got = Exec!Drained]
    BY <1>7 DEF Exec!FinalDrain, Exec!CapAt, Exec!process, Exec!broker
  <2>2. /\ IsCap(cap') /\ cap'.state = cap.state
        /\ \/ cap'.at = "done" /\ cap'.got = cap.got /\ Exec!Drained = cap.got
           \/ cap'.at = "tail" /\ cap'.got = Exec!Drained
    BY <2>1, <1>1 DEF IsCap, CaptureOK
  <2>3. served["capture"].at # "spawned"
    BY <2>1, <1>1 DEF ServingOK
  <2>4. ServingOK' /\ DiskOK' /\ RefOfCapture' /\ ViewOK'
    BY <2>1, <2>3, <1>1 DEF ServingOK, ServedOK, DiskOK, RefOfCapture, ViewOK
  <2>5. CaptureOK'
    BY <2>1, <2>2, <1>1, DrainedIs DEF CaptureOK
  <2> QED
    BY <2>4, <2>5 DEF ExecInv
<1>8. CASE Exec!Stopped \/ Exec!CallFails
  <2>1. /\ UNCHANGED <<proc, out, disk, view, ref>> /\ cap.at \notin {"done", "stored"} /\ Exec!Go("failed")
        /\ served' = [served EXCEPT !["capture"] = Exec!Rest]
    BY <1>8 DEF Exec!Stopped, Exec!CallFails, Exec!CapAt, Exec!process, Exec!broker
  <2>2. ServingOK'
    BY <2>1, <1>1, CaptureServed
  <2>3. DiskOK'
    BY <2>1, <1>1 DEF DiskOK
  <2> QED
    BY <2>1, <2>2, <2>3, CaptureGoes
<1>9. CASE Exec!StoreFull
  <2>1. /\ UNCHANGED <<proc, out, disk, served, view>> /\ cap.at = "done"
        /\ ref' = cap.got /\ cap' = [cap EXCEPT !.at = "stored"]
    BY <1>9 DEF Exec!StoreFull, Exec!CapAt, Exec!Go, Exec!process, Exec!broker
  <2>2. IsCap(cap') /\ cap'.at = "stored" /\ cap'.got = cap.got /\ cap'.state = cap.state
    BY <2>1, <1>1 DEF IsCap, CaptureOK
  <2>3. served["capture"].at # "spawned"
    BY <2>1, <1>1 DEF ServingOK
  <2>4. ServingOK' /\ DiskOK' /\ RefOfCapture' /\ ViewOK'
    BY <2>1, <2>2, <2>3, <1>1 DEF ServingOK, ServedOK, DiskOK, RefOfCapture, ViewOK
  <2>5. CaptureOK'
    BY <2>1, <2>2, <1>1 DEF CaptureOK
  <2> QED
    BY <2>4, <2>5 DEF ExecInv
<1> QED
  BY <1>2, <1>3, <1>4, <1>5, <1>6, <1>7, <1>8, <1>9

LEMMA ExecStep ==
  ASSUME ExecAssumptions, ExecInv, [Exec!ExecNext]_(Exec!execVars) PROVE ExecInv'
<1>1. CASE UNCHANGED Exec!execVars
  <2>1. UNCHANGED <<proc, out, disk, served, cap, view, ref>>
    BY <1>1 DEF Exec!execVars
  <2>2. ServingOK' /\ DiskOK'
    BY <2>1 DEF ExecInv, ServingOK, ServedOK, DiskOK
  <2> QED
    BY <2>1, <2>2, BrokerStep
<1>2. "capture" \in Exec!Callers
  BY DEF Exec!Callers
<1> QED
  BY <1>1, <1>2, BrokerSteps, WriteStep, ReplayStep, CaptureSteps DEF Exec!ExecNext

\* One shell.run (terminal, modbit-execd, run_streaming_capture), for output of any length
\* and whatever the broker, a polling or stopping desktop and the command do: a capture that
\* ends with an exit holds the whole log of a command that is over, the stored reference
\* holds what was captured, and a replay accounts for every byte it skips.
THEOREM OutputIsReadExactly ==
  ExecAssumptions => (Exec!ExecSpec => []Exec!ReadersExact)
<1> SUFFICES ASSUME ExecAssumptions PROVE Exec!ExecSpec => []Exec!ReadersExact
  OBVIOUS
<1>1. Exec!ExecInit => ExecInv
  BY ExecStart
<1>2. ExecInv /\ [Exec!ExecNext]_(Exec!execVars) => ExecInv'
  BY ExecStep
<1>3. ExecInv => Exec!ReadersExact
  BY DEF ExecInv, CaptureOK, RefOfCapture, ViewOK, Exec!ReadersExact
<1> QED
  BY <1>1, <1>2, <1>3, PTL DEF Exec!ExecSpec

-----------------------------------------------------------------------------
(***************************************************************************)
(* The command line.  What its exit code says was seen by the poll that    *)
(* ended it; of a bundle directory that one report uses, every stage knows *)
(* what the stages before it wrote.                                        *)
(***************************************************************************)
CONSTANTS Owned, Reporters, MaxEvents, Seconds, MaxBad

VARIABLES cli, spawned, task, late, events, rep, dirs, bad, lives

Line == INSTANCE HeadlessRun WITH child <- spawned

LineAssumptions == Owned \in BOOLEAN

IsCli(c) == c = [at |-> c.at, state |-> c.state, code |-> c.code]

CliOK ==
  /\ IsCli(cli)
  /\ lives = [tasks |-> lives.tasks, started |-> lives.started, ready |-> lives.ready]
  /\ lives.tasks \in {0, 1} /\ lives.started \in BOOLEAN /\ lives.ready \in BOOLEAN
  /\ cli.at \in {"boot", "await", "create"} => lives.tasks = 0
  /\ cli.at \in {"boot", "await", "create", "queue", "start"} => ~lives.started
  /\ cli.at \in {"poll", "print"} => lives.started
  /\ task = "ready" => lives.ready
  /\ cli.state = "ready" => lives.ready
  /\ cli.at = "exited" =>
       /\ cli.code = 0 => cli.state = "ready"
       /\ cli.code = 2 => cli.state # "ready" /\ lives.started
       /\ lives.started /\ Owned => spawned = "dead"

IsRep(x) ==
  x = [at |-> x.at, second |-> x.second, counted |-> x.counted, sha |-> x.sha, alone |-> x.alone]

IsDir(d) ==
  /\ d = [report |-> d.report, recent |-> d.recent, sums |-> d.sums, problem |-> d.problem,
          users |-> d.users]
  /\ d.users \in Nat

Clean(d) == [d EXCEPT !.sums = 0, !.problem = 0]

\* The directory of a report that nobody else uses, by what is done so far.
StageOK(x, d) ==
  /\ x.at = "write" => x.counted \in Nat /\ x.counted <= events /\ d.sums = 0 /\ d.problem = 0
  /\ x.at # "write" => d.report \in Nat /\ d.recent \in Nat /\ d.report <= d.recent
  /\ x.at = "hash" => d.sums = 0 /\ d.problem = 0
  /\ x.at = "problem" => d.problem = 0 /\ x.sha = Line!Hash(Clean(d))
  /\ x.at = "done" => d.problem = Line!Hash(Clean(d))

ReportOK(r) ==
  /\ IsRep(rep[r]) /\ rep[r].at \in {"start", "write", "hash", "problem", "done"}
  /\ rep[r].at # "start" =>
       /\ rep[r].second \in Seconds /\ dirs[rep[r].second].users > 0
       /\ dirs[rep[r].second].users = 1 => StageOK(rep[r], dirs[rep[r].second])

\* Reports that share a directory are counted as its users.
SharersKnown(q, r) ==
  q # r /\ rep[q].at # "start" /\ rep[r].at # "start" /\ rep[q].second = rep[r].second =>
    dirs[rep[q].second].users > 1

DirOK(s) == IsDir(dirs[s]) /\ (dirs[s].users = 0 => dirs[s] = Line!NoDir)

BundlesOK ==
  /\ events \in Nat /\ DOMAIN rep = Reporters /\ DOMAIN dirs = Seconds
  /\ \A s \in Seconds : DirOK(s)
  /\ \A r \in Reporters : ReportOK(r)
  /\ \A q, r \in Reporters : SharersKnown(q, r)

LineInv == CliOK /\ BundlesOK

LEMMA LineStart == ASSUME LineAssumptions, Line!Init PROVE LineInv
<1>1. CliOK
  BY DEF Line!Init, CliOK, IsCli
<1>2. /\ events \in Nat /\ DOMAIN rep = Reporters /\ DOMAIN dirs = Seconds
      /\ \A s \in Seconds : dirs[s] = Line!NoDir
      /\ \A r \in Reporters : rep[r] = Line!Empty
  BY DEF Line!Init
<1>3. IsDir(Line!NoDir) /\ IsRep(Line!Empty) /\ Line!Empty.at = "start"
  BY DEF IsDir, IsRep, Line!NoDir, Line!Empty
<1>4. BundlesOK
  BY <1>2, <1>3 DEF BundlesOK, DirOK, ReportOK, SharersKnown
<1> QED
  BY <1>1, <1>4 DEF LineInv

\* A step of the command or of the task: the reports see the store grow at most.
LEMMA BundlesRest ==
  ASSUME BundlesOK, UNCHANGED <<rep, dirs>>, events' = events \/ events' = events + 1
  PROVE  BundlesOK'
<1>1. events' \in Nat /\ events <= events'
  BY DEF BundlesOK
<1>2. ASSUME NEW r \in Reporters PROVE ReportOK(r)'
  <2>1. ReportOK(r) /\ events \in Nat
    BY DEF BundlesOK
  <2> QED
    BY <2>1, <1>1 DEF ReportOK, StageOK
<1>3. (\A s \in Seconds : DirOK(s)') /\ (\A q, r \in Reporters : SharersKnown(q, r)')
  BY DEF BundlesOK, DirOK, SharersKnown
<1> QED
  BY <1>1, <1>2, <1>3 DEF BundlesOK

LEMMA CliExits ==
  ASSUME CliOK, LineAssumptions, UNCHANGED lives, cli' = [cli EXCEPT !.at = "exited", !.code = 1],
         task' = "ready" => lives.ready, lives.started /\ Owned => spawned' = "dead"
  PROVE  CliOK'
<1>1. IsCli(cli') /\ cli'.at = "exited" /\ cli'.code = 1 /\ cli'.state = cli.state
  BY DEF CliOK, IsCli
<1> QED
  BY <1>1 DEF CliOK

LEMMA CommandStep ==
  ASSUME LineInv, LineAssumptions, NEW done \in BOOLEAN, NEW heard \in BOOLEAN,
         \/ Line!CreateTask(done, heard) \/ Line!QueueTask(done, heard) \/ Line!StartTask(done, heard)
  PROVE  LineInv'
<1>1. PICK step, from, to, next : 
        /\ Line!Command(step, from, to, next, done, heard)
        /\ \/ step = "create" /\ to = "created" /\ next = "queue"
           \/ step = "queue" /\ to = "queued" /\ next = "start"
           \/ step = "start" /\ to = "running" /\ next = "poll"
  BY DEF Line!CreateTask, Line!QueueTask, Line!StartTask
<1>2. /\ cli.at = step /\ UNCHANGED <<rep, dirs>>
      /\ \/ task' = to /\ (events' = events \/ events' = events + 1)
         \/ UNCHANGED <<task, events>>
  BY <1>1 DEF Line!Command
<1>3. BundlesOK'
  BY <1>2, BundlesRest DEF LineInv
<1>4. CliOK /\ ~lives.started /\ (task' = "ready" => lives.ready)
  BY <1>1, <1>2 DEF LineInv, CliOK
<1>5. CASE ~heard
  <2>1. UNCHANGED lives /\ cli' = [cli EXCEPT !.at = "exited", !.code = 1]
    BY <1>1, <1>5 DEF Line!Command, Line!Unreachable
  <2> QED
    BY <2>1, <1>3, <1>4, CliExits DEF LineInv
<1>6. CASE heard /\ ~(done /\ task = from)
  <2>1. UNCHANGED lives /\ cli' = [cli EXCEPT !.at = "exited", !.code = 1]
    BY <1>1, <1>6 DEF Line!Command, Line!Refused
  <2> QED
    BY <2>1, <1>3, <1>4, CliExits DEF LineInv
<1>7. CASE heard /\ done /\ task = from
  <2>1. /\ cli' = [cli EXCEPT !.at = next] /\ task' = to
        /\ lives' = [tasks   |-> lives.tasks + (IF step = "create" THEN 1 ELSE 0),
                     started |-> lives.started \/ to = "running",
                     ready   |-> lives.ready]
    BY <1>1, <1>7 DEF Line!Command
  <2>2. IsCli(cli') /\ cli'.at = next /\ cli'.state = cli.state
    BY <2>1, <1>4 DEF CliOK, IsCli
  <2>3. PICK b \in BOOLEAN : b = (lives.started \/ to = "running")
    BY Zenon
  <2>4. PICK n : n = lives.tasks + (IF step = "create" THEN 1 ELSE 0)
    OBVIOUS
  <2>5. lives' = [tasks |-> n, started |-> b, ready |-> lives.ready]
    BY <2>1, <2>3, <2>4, Zenon
  <2>6. n \in {0, 1}
    BY <2>4, <1>2, <1>4 DEF CliOK
  <2>7. b <=> to = "running"
    BY <2>3, <1>4, Zenon
  <2>8. CliOK'
    BY <2>1, <2>2, <2>5, <2>6, <2>7, <1>1, <1>2, <1>4 DEF CliOK
  <2> QED
    BY <2>8, <1>3 DEF LineInv
<1> QED
  BY <1>5, <1>6, <1>7

LEMMA CliSteps ==
  ASSUME LineInv, LineAssumptions,
         \/ \E w \in BOOLEAN : Line!Spawn(w) \/ Line!ChildBoots(w)
         \/ Line!WaitForDaemon \/ Line!Outcome \/ Line!Deadline
         \/ \E s \in Line!Statuses : Line!TaskMoves(s)
         \/ \E a \in {"fleet", "error", "none"} : Line!Poll(a)
  PROVE  LineInv'
<1>1. UNCHANGED <<rep, dirs>> /\ (events' = events \/ events' = events + 1)
  BY DEF Line!Spawn, Line!ChildBoots, Line!WaitForDaemon, Line!Outcome, Line!Deadline, Line!TaskMoves,
         Line!Poll, Line!TaskIs
<1>2. BundlesOK'
  BY <1>1, BundlesRest DEF LineInv
<1>3. CliOK
  BY DEF LineInv
<1>4. ASSUME NEW w \in BOOLEAN, Line!Spawn(w) PROVE CliOK'
  <2>1. /\ cli.at = "boot" /\ UNCHANGED <<task, lives>>
        /\ \/ \E at \in {"create", "await"} : cli' = [cli EXCEPT !.at = at]
           \/ cli' = [cli EXCEPT !.at = "exited", !.code = 1]
    BY <1>4 DEF Line!Spawn
  <2>2. CASE cli' = [cli EXCEPT !.at = "exited", !.code = 1]
    BY <2>1, <2>2, <1>3, CliExits DEF CliOK
  <2>3. ASSUME NEW at \in {"create", "await"}, cli' = [cli EXCEPT !.at = at] PROVE CliOK'
    <3>1. IsCli(cli') /\ cli'.at = at /\ cli'.state = cli.state
      BY <2>3, <1>3 DEF CliOK, IsCli
    <3> QED
      BY <3>1, <2>1, <1>3 DEF CliOK
  <2> QED
    BY <2>1, <2>2, <2>3
<1>5. ASSUME NEW w \in BOOLEAN, Line!ChildBoots(w) PROVE CliOK'
  BY <1>5, <1>3 DEF Line!ChildBoots, CliOK
<1>6. ASSUME Line!WaitForDaemon PROVE CliOK'
  <2>1. /\ cli.at = "await" /\ UNCHANGED <<task, lives>>
        /\ \/ cli' = [cli EXCEPT !.at = "create"]
           \/ cli' = [cli EXCEPT !.at = "exited", !.code = 1]
    BY <1>6 DEF Line!WaitForDaemon
  <2>2. CASE cli' = [cli EXCEPT !.at = "exited", !.code = 1]
    BY <2>1, <2>2, <1>3, CliExits DEF CliOK
  <2>3. CASE cli' = [cli EXCEPT !.at = "create"]
    <3>1. IsCli(cli') /\ cli'.at = "create" /\ cli'.state = cli.state
      BY <2>3, <1>3 DEF CliOK, IsCli
    <3> QED
      BY <3>1, <2>1, <1>3 DEF CliOK
  <2> QED
    BY <2>1, <2>2, <2>3
<1>7. ASSUME Line!Outcome PROVE CliOK'
  <2>1. /\ cli.at = "print" /\ UNCHANGED <<task, lives>> /\ (Owned => spawned' = "dead")
        /\ cli' = [cli EXCEPT !.at = "exited", !.code = IF cli.state = "ready" THEN 0 ELSE 2]
    BY <1>7 DEF Line!Outcome
  <2>2. /\ IsCli(cli') /\ cli'.at = "exited" /\ cli'.state = cli.state
        /\ cli'.code = IF cli.state = "ready" THEN 0 ELSE 2
    BY <2>1, <1>3 DEF CliOK, IsCli
  <2> QED
    BY <2>1, <2>2, <1>3 DEF CliOK
<1>8. ASSUME Line!Deadline PROVE CliOK'
  BY <1>8, <1>3 DEF Line!Deadline, CliOK
<1>9. ASSUME NEW s \in Line!Statuses, Line!TaskMoves(s) PROVE CliOK'
  <2>1. /\ UNCHANGED <<cli, spawned>> /\ task' = s
        /\ lives' = [lives EXCEPT !.ready = lives.ready \/ s = "ready"]
    BY <1>9 DEF Line!TaskMoves, Line!TaskIs
  <2>2. PICK b \in BOOLEAN : b = (lives.ready \/ s = "ready")
    BY Zenon
  <2>3. lives' = [tasks |-> lives.tasks, started |-> lives.started, ready |-> b]
    <3>1. lives' = [lives EXCEPT !.ready = b]
      BY <2>1, <2>2, Zenon
    <3> QED
      BY <3>1, <1>3 DEF CliOK
  <2>4. (s = "ready" => b) /\ (lives.ready => b)
    BY <2>2, Zenon
  <2> QED
    BY <2>1, <2>3, <2>4, <1>3 DEF CliOK
<1>10. ASSUME NEW a \in {"fleet", "error", "none"}, Line!Poll(a) PROVE CliOK'
  <2>1. cli.at = "poll" /\ UNCHANGED <<task, lives>>
    BY <1>10 DEF Line!Poll, Line!Unreachable
  <2>2. CASE a = "none"
    <3>1. cli' = [cli EXCEPT !.at = "exited", !.code = 1] /\ (Owned => spawned' = "dead")
      BY <1>10, <2>2 DEF Line!Poll, Line!Unreachable
    <3> QED
      BY <3>1, <2>1, <1>3, CliExits DEF CliOK
  <2>3. CASE a = "error"
    <3>1. UNCHANGED <<cli, spawned>>
      BY <1>10, <2>3 DEF Line!Poll
    <3> QED
      BY <3>1, <2>1, <1>3 DEF CliOK
  <2>4. CASE a = "fleet"
    <3>1. \/ cli' = [cli EXCEPT !.at = "print", !.state = task]
          \/ cli' = [cli EXCEPT !.state = task]
      BY <1>10, <2>4 DEF Line!Poll
    <3>2. IsCli(cli') /\ cli'.at \in {"poll", "print"} /\ cli'.state = task
      BY <3>1, <2>1, <1>3 DEF CliOK, IsCli
    <3> QED
      BY <3>2, <2>1, <1>3 DEF CliOK
  <2> QED
    BY <2>2, <2>3, <2>4
<1> QED
  BY <1>2, <1>4, <1>5, <1>6, <1>7, <1>8, <1>9, <1>10 DEF LineInv

\* A report goes one stage on, in a directory with the users it had: the reports that share
\* it have no claim on it, and the others do not see it.
LEMMA StageGoes ==
  ASSUME BundlesOK, UNCHANGED events, NEW r \in Reporters, rep[r].at # "start",
         NEW x, rep' = [rep EXCEPT ![r] = x], IsRep(x), x.second = rep[r].second,
         x.at \in {"write", "hash", "problem", "done"},
         NEW d, dirs' = [dirs EXCEPT ![rep[r].second] = d], IsDir(d), d.users = dirs[rep[r].second].users,
         d.users = 1 => StageOK(x, d)
  PROVE  BundlesOK'
<1>1. PICK s : s = rep[r].second /\ s \in Seconds /\ dirs[s].users \in Nat /\ dirs[s].users > 0
  BY DEF BundlesOK, ReportOK, DirOK, IsDir
<1>2. /\ DOMAIN rep' = Reporters /\ DOMAIN dirs' = Seconds /\ events' \in Nat
      /\ rep'[r] = x /\ \A q \in Reporters \ {r} : rep'[q] = rep[q]
      /\ dirs'[s] = d /\ \A t \in Seconds \ {s} : dirs'[t] = dirs[t]
  BY <1>1 DEF BundlesOK
<1>3. \A t \in Seconds : dirs'[t].users = dirs[t].users
  BY <1>1, <1>2
<1>4. ASSUME NEW t \in Seconds PROVE DirOK(t)'
  <2>1. CASE t = s
    BY <1>1, <1>2, <2>1 DEF DirOK
  <2>2. CASE t # s
    BY <1>2, <2>2 DEF BundlesOK, DirOK
  <2> QED
    BY <2>1, <2>2
<1>5. ASSUME NEW q \in Reporters PROVE ReportOK(q)'
  <2>1. CASE q = r
    BY <1>1, <1>2, <2>1 DEF ReportOK, StageOK
  <2>2. CASE q # r
    <3>1. rep'[q] = rep[q] /\ ReportOK(q) /\ SharersKnown(q, r)
      BY <1>2, <2>2 DEF BundlesOK
    <3>2. CASE rep[q].at = "start"
      BY <3>1, <3>2 DEF ReportOK
    <3>3. CASE rep[q].at # "start" /\ rep[q].second = s
      <4>1. dirs[s].users > 1 /\ d.users # 1
        BY <3>1, <3>3, <2>2, <1>1 DEF SharersKnown
      <4> QED
        BY <4>1, <3>1, <3>3, <1>1, <1>2 DEF ReportOK
    <3>4. CASE rep[q].at # "start" /\ rep[q].second # s
      <4>1. rep[q].second \in Seconds /\ dirs'[rep[q].second] = dirs[rep[q].second]
        BY <3>1, <3>4, <1>2 DEF ReportOK
      <4> QED
        BY <4>1, <3>1 DEF ReportOK, StageOK
    <3> QED
      BY <3>2, <3>3, <3>4
  <2> QED
    BY <2>1, <2>2
<1>6. ASSUME NEW p \in Reporters, NEW q \in Reporters PROVE SharersKnown(p, q)'
  <2>1. SharersKnown(p, q) /\ ReportOK(p)
    BY DEF BundlesOK
  <2>2. /\ rep'[p].second = rep[p].second /\ rep'[q].second = rep[q].second
        /\ (rep'[p].at # "start" <=> rep[p].at # "start") /\ (rep'[q].at # "start" <=> rep[q].at # "start")
    BY <1>2
  <2> QED
    BY <2>1, <2>2, <1>3 DEF SharersKnown, ReportOK
<1> QED
  BY <1>2, <1>4, <1>5, <1>6 DEF BundlesOK

\* The fields after an update of two.
LEMMA RepSets ==
  ASSUME NEW x, IsRep(x), NEW a, NEW b
  PROVE  /\ [x EXCEPT !.at = a, !.sha = b]
              = [at |-> a, second |-> x.second, counted |-> x.counted, sha |-> b, alone |-> x.alone]
         /\ [x EXCEPT !.at = a, !.alone = b]
              = [at |-> a, second |-> x.second, counted |-> x.counted, sha |-> x.sha, alone |-> b]
<1> DEFINE y == [at |-> a, second |-> x.second, counted |-> x.counted, sha |-> x.sha, alone |-> x.alone]
<1>1. [x EXCEPT !.at = a] = y
  BY DEF IsRep
<1>2. [y EXCEPT !.sha = b]
        = [at |-> a, second |-> x.second, counted |-> x.counted, sha |-> b, alone |-> x.alone]
  OBVIOUS
<1>3. [y EXCEPT !.alone = b]
        = [at |-> a, second |-> x.second, counted |-> x.counted, sha |-> x.sha, alone |-> b]
  OBVIOUS
<1> HIDE DEF y
<1> QED
  BY <1>1, <1>2, <1>3

LEMMA DirSets ==
  ASSUME NEW d, IsDir(d), NEW a, NEW b
  PROVE  /\ [d EXCEPT !.report = a, !.recent = b]
              = [report |-> a, recent |-> b, sums |-> d.sums, problem |-> d.problem, users |-> d.users]
         /\ Clean(d)
              = [report |-> d.report, recent |-> d.recent, sums |-> 0, problem |-> 0, users |-> d.users]
<1> DEFINE y == [report |-> a, recent |-> d.recent, sums |-> d.sums, problem |-> d.problem, users |-> d.users]
           z == [report |-> d.report, recent |-> d.recent, sums |-> 0, problem |-> d.problem, users |-> d.users]
<1>1. [d EXCEPT !.report = a] = y /\ [d EXCEPT !.sums = 0] = z
  BY DEF IsDir
<1>2. [y EXCEPT !.recent = b]
        = [report |-> a, recent |-> b, sums |-> d.sums, problem |-> d.problem, users |-> d.users]
  OBVIOUS
<1>3. [z EXCEPT !.problem = 0]
        = [report |-> d.report, recent |-> d.recent, sums |-> 0, problem |-> 0, users |-> d.users]
  OBVIOUS
<1> HIDE DEF y, z
<1> QED
  BY <1>1, <1>2, <1>3 DEF Clean

\* A report begins in a directory: its only user finds it empty, and the others lose their
\* claim on it.
LEMMA CollectStep ==
  ASSUME BundlesOK, NEW r \in Reporters, NEW s \in Seconds, Line!Collect(r, s) PROVE BundlesOK'
<1> DEFINE x == [at |-> "write", second |-> s, counted |-> events, sha |-> 0, alone |-> TRUE]
           d == [dirs[s] EXCEPT !.users = dirs[s].users + 1]
<1>1. /\ rep[r].at = "start" /\ UNCHANGED events /\ rep' = [rep EXCEPT ![r] = x]
      /\ dirs' = [dirs EXCEPT ![s] = d]
  BY DEF Line!Collect, BundlesOK
<1>2. IsRep(x) /\ x.at = "write" /\ x.second = s /\ x.counted = events
  BY DEF IsRep
<1>3. DirOK(s) /\ events \in Nat
  BY DEF BundlesOK
<1>4. /\ d = [report |-> dirs[s].report, recent |-> dirs[s].recent, sums |-> dirs[s].sums,
              problem |-> dirs[s].problem, users |-> dirs[s].users + 1]
      /\ dirs[s].users \in Nat
  BY <1>3 DEF DirOK, IsDir
<1>5. IsDir(d) /\ d.users = dirs[s].users + 1 /\ d.sums = dirs[s].sums /\ d.problem = dirs[s].problem
  BY <1>4 DEF IsDir
<1>6. d.users = 1 => StageOK(x, d)
  <2>1. d.users = 1 => d.sums = 0 /\ d.problem = 0
    BY <1>3, <1>4, <1>5 DEF DirOK, Line!NoDir
  <2> QED
    BY <2>1, <1>2, <1>3 DEF StageOK
<1> HIDE DEF x, d
<1>7. /\ DOMAIN rep' = Reporters /\ DOMAIN dirs' = Seconds /\ events' \in Nat
      /\ rep'[r] = x /\ \A q \in Reporters \ {r} : rep'[q] = rep[q]
      /\ dirs'[s] = d /\ \A t \in Seconds \ {s} : dirs'[t] = dirs[t]
  BY <1>1 DEF BundlesOK
<1>8. ASSUME NEW t \in Seconds PROVE DirOK(t)'
  <2>1. CASE t = s
    BY <1>4, <1>5, <1>7, <2>1 DEF DirOK
  <2>2. CASE t # s
    BY <1>7, <2>2 DEF BundlesOK, DirOK
  <2> QED
    BY <2>1, <2>2
<1>9. ASSUME NEW q \in Reporters PROVE ReportOK(q)'
  <2>1. CASE q = r
    BY <1>2, <1>4, <1>5, <1>6, <1>7, <1>1, <2>1 DEF ReportOK, StageOK
  <2>2. CASE q # r
    <3>1. rep'[q] = rep[q] /\ ReportOK(q)
      BY <1>7, <2>2 DEF BundlesOK
    <3>2. CASE rep[q].at = "start"
      BY <3>1, <3>2 DEF ReportOK
    <3>3. CASE rep[q].at # "start" /\ rep[q].second = s
      <4>1. d.users > 1
        BY <3>1, <3>3, <1>4, <1>5 DEF ReportOK
      <4> QED
        BY <4>1, <3>1, <3>3, <1>4, <1>5, <1>7 DEF ReportOK
    <3>4. CASE rep[q].at # "start" /\ rep[q].second # s
      <4>1. rep[q].second \in Seconds /\ dirs'[rep[q].second] = dirs[rep[q].second]
        BY <3>1, <3>4, <1>7 DEF ReportOK
      <4> QED
        BY <4>1, <3>1, <1>1 DEF ReportOK, StageOK
    <3> QED
      BY <3>2, <3>3, <3>4
  <2> QED
    BY <2>1, <2>2
<1>10. ASSUME NEW q \in Reporters, q # r, rep[q].at # "start", rep[q].second = s PROVE dirs'[s].users > 1
  BY <1>10, <1>4, <1>5, <1>7 DEF BundlesOK, ReportOK
<1>11. ASSUME NEW p \in Reporters, NEW q \in Reporters PROVE SharersKnown(p, q)'
  <2>1. CASE p = r
    BY <2>1, <1>2, <1>7, <1>10 DEF SharersKnown
  <2>2. CASE q = r
    BY <2>2, <1>2, <1>7, <1>10 DEF SharersKnown
  <2>3. CASE p # r /\ q # r
    <3>1. SharersKnown(p, q) /\ ReportOK(p) /\ rep'[p] = rep[p] /\ rep'[q] = rep[q]
      BY <2>3, <1>7 DEF BundlesOK
    <3>2. \A t \in Seconds : dirs[t].users > 1 => dirs'[t].users > 1
      BY <1>4, <1>5, <1>7
    <3> QED
      BY <3>1, <3>2 DEF SharersKnown, ReportOK
  <2> QED
    BY <2>1, <2>2, <2>3
<1> QED
  BY <1>7, <1>8, <1>9, <1>11 DEF BundlesOK

LEMMA ReportStages ==
  ASSUME BundlesOK, NEW r \in Reporters, Line!WriteReport(r) \/ Line!HashDir(r) \/ Line!Problem(r)
  PROVE  BundlesOK'
<1>1. /\ UNCHANGED events /\ rep[r].at # "start"
      /\ IsRep(rep[r]) /\ rep[r].second \in Seconds
  BY DEF Line!WriteReport, Line!HashDir, Line!Problem, BundlesOK, ReportOK
<1>2. PICK s : s = rep[r].second
  OBVIOUS
<1>3. PICK d : d = dirs[s]
  OBVIOUS
<1>4. IsDir(d) /\ events \in Nat /\ (d.users = 1 => StageOK(rep[r], d))
  BY <1>1, <1>2, <1>3 DEF BundlesOK, DirOK, ReportOK
<1>5. CASE Line!WriteReport(r)
  <2> DEFINE x == [at |-> "hash", second |-> s, counted |-> rep[r].counted, sha |-> rep[r].sha,
                   alone |-> rep[r].alone]
             e == [report |-> rep[r].counted, recent |-> events, sums |-> d.sums, problem |-> d.problem,
                   users |-> d.users]
  <2>1. /\ rep[r].at = "write" /\ rep' = [rep EXCEPT ![r].at = "hash"]
        /\ dirs' = [dirs EXCEPT ![s] = [d EXCEPT !.report = rep[r].counted, !.recent = events]]
    BY <1>5, <1>2, <1>3 DEF Line!WriteReport
  <2>2. [rep[r] EXCEPT !.at = "hash"] = x
    BY <1>1, <1>2 DEF IsRep
  <2>3. [d EXCEPT !.report = rep[r].counted, !.recent = events] = e
    <3>1. PICK a : a = rep[r].counted
      OBVIOUS
    <3>2. PICK b : b = events
      OBVIOUS
    <3> DEFINE f == [report |-> a, recent |-> d.recent, sums |-> d.sums, problem |-> d.problem,
                     users |-> d.users]
    <3>3. [d EXCEPT !.report = a] = f
      BY <1>4 DEF IsDir
    <3>4. [f EXCEPT !.recent = b]
            = [report |-> a, recent |-> b, sums |-> d.sums, problem |-> d.problem, users |-> d.users]
      OBVIOUS
    <3> HIDE DEF f
    <3> QED
      BY <3>1, <3>2, <3>3, <3>4
  <2>4. rep' = [rep EXCEPT ![r] = x] /\ dirs' = [dirs EXCEPT ![s] = e]
    BY <2>1, <2>2, <2>3
  <2>5. IsRep(x) /\ IsDir(e) /\ x.second = s /\ x.at = "hash" /\ e.users = d.users
    BY <1>4 DEF IsRep, IsDir
  <2>6. e.users = 1 => StageOK(x, e)
    BY <2>1, <2>5, <1>4 DEF StageOK
  <2> HIDE DEF x, e
  <2> QED
    BY <2>4, <2>5, <2>6, <1>1, <1>2, <1>3, StageGoes
<1>6. CASE Line!HashDir(r)
  <2> DEFINE sha == Line!Hash(d)
             x == [at |-> "problem", second |-> s, counted |-> rep[r].counted, sha |-> sha,
                   alone |-> rep[r].alone]
             e == [report |-> d.report, recent |-> d.recent, sums |-> sha, problem |-> d.problem,
                   users |-> d.users]
  <2>1. /\ rep[r].at = "hash" /\ rep' = [rep EXCEPT ![r] = [rep[r] EXCEPT !.at = "problem", !.sha = sha]]
        /\ dirs' = [dirs EXCEPT ![s].sums = sha]
    BY <1>6, <1>2, <1>3 DEF Line!HashDir
  <2> HIDE DEF sha
  <2>2. [rep[r] EXCEPT !.at = "problem", !.sha = sha] = x
    <3>1. PICK b : b = sha
      OBVIOUS
    <3> DEFINE f == [at |-> "problem", second |-> rep[r].second, counted |-> rep[r].counted,
                     sha |-> rep[r].sha, alone |-> rep[r].alone]
    <3>2. [rep[r] EXCEPT !.at = "problem"] = f
      BY <1>1 DEF IsRep
    <3>3. [f EXCEPT !.sha = b]
            = [at |-> "problem", second |-> rep[r].second, counted |-> rep[r].counted, sha |-> b,
               alone |-> rep[r].alone]
      OBVIOUS
    <3> HIDE DEF f
    <3> QED
      BY <3>1, <3>2, <3>3, <1>2
  <2>3. [d EXCEPT !.sums = sha] = e
    BY <1>4 DEF IsDir
  <2>4. rep' = [rep EXCEPT ![r] = x] /\ dirs' = [dirs EXCEPT ![s] = e]
    BY <2>1, <2>2, <2>3, <1>3
  <2>5. /\ IsRep(x) /\ IsDir(e) /\ x.second = s /\ x.at = "problem" /\ x.sha = sha
        /\ e.users = d.users /\ e.problem = d.problem /\ e.report = d.report /\ e.recent = d.recent
    BY <1>4 DEF IsRep, IsDir
  <2>6. e.users = 1 => StageOK(x, e)
    <3>1. ASSUME e.users = 1 PROVE sha = Line!Hash(Clean(e))
      <4>1. d.sums = 0 /\ d.problem = 0
        BY <2>1, <2>5, <3>1, <1>4 DEF StageOK
      <4>2. Clean(e) = d
        BY <4>1, <2>5, <1>4, DirSets DEF IsDir
      <4> QED
        BY <4>2 DEF sha
    <3> QED
      BY <3>1, <2>1, <2>5, <1>4 DEF StageOK
  <2> HIDE DEF x, e
  <2> QED
    BY <2>4, <2>5, <2>6, <1>1, <1>2, <1>3, StageGoes
<1>7. CASE Line!Problem(r)
  <2> DEFINE b == (d.users = 1)
             x == [at |-> "done", second |-> s, counted |-> rep[r].counted, sha |-> rep[r].sha, alone |-> b]
             e == [report |-> d.report, recent |-> d.recent, sums |-> d.sums, problem |-> rep[r].sha,
                   users |-> d.users]
  <2>1. /\ rep[r].at = "problem" /\ rep' = [rep EXCEPT ![r] = [rep[r] EXCEPT !.at = "done", !.alone = b]]
        /\ dirs' = [dirs EXCEPT ![s].problem = rep[r].sha]
    BY <1>7, <1>2, <1>3 DEF Line!Problem
  <2> HIDE DEF b
  <2>2. [rep[r] EXCEPT !.at = "done", !.alone = b] = x
    BY <1>1, <1>2, RepSets
  <2>3. [d EXCEPT !.problem = rep[r].sha] = e
    BY <1>4 DEF IsDir
  <2>4. rep' = [rep EXCEPT ![r] = x] /\ dirs' = [dirs EXCEPT ![s] = e]
    BY <2>1, <2>2, <2>3, <1>3
  <2>5. /\ IsRep(x) /\ IsDir(e) /\ x.second = s /\ x.at = "done"
        /\ e.users = d.users /\ e.problem = rep[r].sha /\ e.report = d.report /\ e.recent = d.recent
    BY <1>4 DEF IsRep, IsDir
  <2>6. Clean(e) = Clean(d)
    BY <2>5, <1>4, DirSets
  <2>7. e.users = 1 => StageOK(x, e)
    BY <2>1, <2>5, <2>6, <1>4 DEF StageOK
  <2> HIDE DEF x, e
  <2> QED
    BY <2>4, <2>5, <2>7, <1>1, <1>2, <1>3, StageGoes
<1> QED
  BY <1>5, <1>6, <1>7

LEMMA LineStep ==
  ASSUME LineAssumptions, LineInv, [Line!Next]_(Line!cliVars) PROVE LineInv'
<1>1. CASE UNCHANGED Line!cliVars
  <2>1. UNCHANGED <<cli, spawned, task, events, rep, dirs, lives>>
    BY <1>1 DEF Line!cliVars
  <2>2. CliOK' /\ BundlesOK'
    BY <2>1, BundlesRest DEF LineInv, CliOK
  <2> QED
    BY <2>2 DEF LineInv
<1>2. ASSUME NEW r \in Reporters,
             \/ \E s \in Seconds : Line!Collect(r, s)
             \/ Line!WriteReport(r) \/ Line!HashDir(r) \/ Line!Problem(r)
      PROVE  LineInv'
  <2>1. UNCHANGED <<cli, spawned, task, lives>>
    BY <1>2 DEF Line!Collect, Line!WriteReport, Line!HashDir, Line!Problem
  <2>2. CliOK' /\ BundlesOK'
    BY <2>1, <1>2, CollectStep, ReportStages DEF LineInv, CliOK
  <2> QED
    BY <2>2 DEF LineInv
<1> QED
  BY <1>1, <1>2, CliSteps, CommandStep DEF Line!Next, Line!CliStep, Line!ReportStep

\* modbit.rs and diagnostics.rs, for any number of reports, events, failed requests and moves
\* of the task by others: exit code 0 was given for a task seen ready for review and 2 for one
\* that was started, never two tasks are created, a started run leaves no core of its own
\* behind, and a bundle only one report wrote is the one whose hash it quotes.
THEOREM HeadlessIsSound ==
  LineAssumptions => (Line!CliSpec => []Line!HeadlessSound)
<1> SUFFICES ASSUME LineAssumptions PROVE Line!CliSpec => []Line!HeadlessSound
  OBVIOUS
<1>1. Line!Init => LineInv
  BY LineStart
<1>2. LineInv /\ [Line!Next]_(Line!cliVars) => LineInv'
  BY LineStep
<1>3. LineInv => Line!HeadlessSound
  <2> SUFFICES ASSUME LineInv PROVE Line!HeadlessSound
    OBVIOUS
  <2>1. Line!ExitCodeTrue /\ Line!NoCoreLeftBehind
    BY DEF LineInv, CliOK, Line!ExitCodeTrue, Line!NoCoreLeftBehind
  <2>2. Line!BundleTraceable
    BY DEF LineInv, BundlesOK, ReportOK, StageOK, Clean, Line!BundleTraceable
  <2> QED
    BY <2>1, <2>2 DEF Line!HeadlessSound
<1> QED
  BY <1>1, <1>2, <1>3, PTL DEF Line!CliSpec

-----------------------------------------------------------------------------
(***************************************************************************)
(* The worktree of a run.  Between operations the ledger agrees with the   *)
(* disk about every file that is not foreign, deletions included; within   *)
(* one, about all but the files it has written and not yet recorded        *)
(* (Dirty).  A leaf of the index is as a cold build would make it unless   *)
(* an event still tells of the path, or the path changed without one       *)
(* (unseen), or its event is yet to be appended (Flight); and the last     *)
(* event that tells of a path is right about its deletion.                 *)
(***************************************************************************)
CONSTANTS Paths, Contents, Binary, Imports, Root, DirOrder, Parent, MaxRev, MaxFaults, MaxDeltas, Nothing

VARIABLES tree, revs, wsrev, saved, changes, op, idx, edits, ckpt, found, unseen, foreign, others, faults

Tree == INSTANCE Worktree WITH ledger <- revs, begun <- found

Texts == Contents \cup {Nothing}
FileRecords == [rev : Nat, sha : Texts, deleted : BOOLEAN]
Changes == [path : Paths, deleted : BOOLEAN, ws : Nat]
EditJournals == [first : [Paths -> Texts], last : [Paths -> Texts], n : Nat]
OpKinds == {"create", "replace", "delete", "move", "apply", "txn"}
OpPlaces == {"touch", "commit", "emit", "journal", "refresh"}
Operations == [kind : OpKinds, ps : Seq(Paths), n : Nat, to : Paths, bytes : Texts, rev : Nat,
               seen : Texts, at : OpPlaces]

\* Nothing is no content and no operation (None in the code).
TreeAssumptions == Nothing \notin Contents /\ Nothing \notin Operations /\ MaxDeltas \in Nat

OpOK(o) ==
  /\ o \in Operations
  /\ o.kind = "txn" => /\ Len(o.ps) = 2 /\ o.ps[1] # o.ps[2] /\ o.n \in {1, 2}
                       /\ o.to = o.ps[1] /\ o.at \in {"touch", "commit"}
  /\ o.kind # "txn" => Len(o.ps) = 1 /\ o.n = 1
  /\ o.kind \notin {"txn", "move"} => o.to = o.ps[1]
  /\ o.kind = "move" => o.to # o.ps[1]
  /\ o.kind \in {"delete", "move"} <=> o.bytes = Nothing
  /\ o.at \in {"journal", "refresh"} => o.kind = "apply"
  /\ o.kind = "apply" => o.seen # Nothing

DiskTypes ==
  /\ tree \in [Paths -> Texts] /\ found \in [Paths -> Texts]
  /\ revs \in [Paths -> FileRecords] /\ wsrev \in Nat
  /\ saved \in [files : [Paths -> FileRecords], rev : Nat]
  /\ edits \in EditJournals /\ ckpt \in EditJournals

IndexTypes ==
  /\ changes \in Seq(Changes)
  /\ idx.rev \in Nat /\ idx.merkle.leaves \in [Paths -> Texts]

TreeTypes == DiskTypes /\ IndexTypes /\ (op = Nothing \/ OpOK(op))

Agrees(x, c) == (c = Nothing <=> x.deleted) /\ (~x.deleted => x.sha = c)

Dirty(o) ==
  IF o = Nothing THEN {}
  ELSE IF o.at = "touch" THEN (IF o.n = 2 THEN {o.ps[1]} ELSE {})
  ELSE IF o.at = "commit" THEN (IF o.kind # "txn" THEN {o.ps[1], o.to}
                                ELSE IF o.n = 1 THEN {o.ps[1], o.ps[2]} ELSE {o.ps[2]})
  ELSE {}

\* What a file that an operation has written, and not recorded, holds.
DirtyOK(o, p, c, l) ==
  /\ o.kind # "move" => c = o.bytes
  /\ o.kind = "move" /\ p = o.ps[1] => c = Nothing
  /\ o.kind = "move" /\ p = o.to => c # Nothing /\ c = l[o.ps[1]].sha

FileOK(o, p, c, l) == IF p \in Dirty(o) THEN DirtyOK(o, p, c, l) ELSE Agrees(l[p], c)

LedgerOK == \A p \in Paths \ foreign : FileOK(op, p, tree[p], revs)

\* The revisions that were given stay behind the saved one, in order.
Ordered(s) ==
  \A m, n \in 1..Len(s) : m < n => s[m].ws < s[n].ws \/ (s[m].ws = s[n].ws /\ s[m].deleted)

RevsOK ==
  /\ idx.rev <= saved.rev /\ saved.rev <= wsrev
  /\ \A n \in 1..Len(changes) : changes[n].ws <= saved.rev
  /\ Ordered(changes)
  /\ op # Nothing /\ op.at = "emit" =>
       /\ saved.rev = wsrev /\ idx.rev < wsrev
       /\ \A n \in 1..Len(changes) : changes[n].ws < wsrev

\* The events that the index has not folded in, by path.
ToldOf(s, r, p) == \E n \in 1..Len(s) : s[n].path = p /\ s[n].ws > r
LiveIn(s, r, p) ==
  \E n \in 1..Len(s) : /\ s[n].path = p /\ s[n].ws > r /\ ~s[n].deleted
                       /\ \A m \in 1..Len(s) : s[m].path = p /\ s[m].ws > r => m <= n

Flight(o) == IF o # Nothing /\ o.at = "emit" THEN {o.ps[1], o.to} ELSE Dirty(o)

Leaf(c) == IF c # Nothing /\ c \notin Binary THEN c ELSE Nothing

LeafOK(s, r, p, leaf, c) ==
  /\ ~ToldOf(s, r, p) => leaf = Leaf(c)
  /\ ToldOf(s, r, p) => LiveIn(s, r, p) \/ c = Nothing

IndexOK ==
  /\ \A p \in Paths \ (unseen \cup Flight(op)) : LeafOK(changes, idx.rev, p, idx.merkle.leaves[p], tree[p])
  /\ op # Nothing /\ op.at \in {"commit", "emit"} /\ op.kind \in {"delete", "move"} /\ op.ps[1] \notin unseen =>
       tree[op.ps[1]] = Nothing

EdgeOK(e, leaves) ==
  \E p, q \in Paths :
    /\ e = <<p, q>> /\ p # q /\ q \in Imports[leaves[p]]
    /\ leaves[p] # Nothing /\ leaves[q] # Nothing

EdgesOK == \A e \in idx.edges : EdgeOK(e, idx.merkle.leaves)

\* Of a file that only change.apply changed: what the edit journal holds of it.
Restored(first, last, c, b) ==
  /\ last = Nothing => first = Nothing /\ c = b
  /\ last # Nothing => first # Nothing /\ last = c /\ first = b

EditWritten(o, first, c, b) == c = o.bytes /\ b = IF first = Nothing THEN o.seen ELSE first

InEdit(o, p) == o # Nothing /\ o.kind = "apply" /\ p = o.ps[1] /\ o.at \in {"commit", "emit", "journal"}

EditOK(o, p, first, last, c, b) ==
  IF InEdit(o, p) THEN EditWritten(o, first, c, b) /\ (last = Nothing <=> first = Nothing)
  ELSE Restored(first, last, c, b)

CkptOK ==
  /\ edits.n <= MaxDeltas => ckpt = edits
  /\ \A p \in Paths \ others : EditOK(op, p, edits.first[p], edits.last[p], tree[p], found[p])
  /\ op # Nothing /\ op.kind = "apply" /\ op.at = "touch" /\ op.ps[1] \notin others =>
       op.seen = tree[op.ps[1]]

TreeInv == TreeTypes /\ LedgerOK /\ RevsOK /\ IndexOK /\ EdgesOK /\ CkptOK

-----------------------------------------------------------------------------
\* The pending events, by their place in the journal.
LEMMA PendingTold ==
  ASSUME IndexTypes
  PROVE  /\ \A p : (p \in {e.path : e \in Tree!Pending}) <=> ToldOf(changes, idx.rev, p)
         /\ \A p : Tree!Live(Tree!Pending, p) <=> LiveIn(changes, idx.rev, p)
<1> DEFINE ev(n) == [path |-> changes[n].path, deleted |-> changes[n].deleted, ws |-> changes[n].ws, at |-> n]
<1>1. \A e : e \in Tree!Pending <=> \E n \in 1..Len(changes) : e = ev(n) /\ changes[n].ws > idx.rev
  BY DEF Tree!Pending, IndexTypes
<1>2. \A n : /\ ev(n).path = changes[n].path /\ ev(n).deleted = changes[n].deleted
             /\ ev(n).ws = changes[n].ws /\ ev(n).at = n
  OBVIOUS
<1> HIDE DEF ev
<1>3. ASSUME NEW p PROVE (p \in {e.path : e \in Tree!Pending}) <=> ToldOf(changes, idx.rev, p)
  BY <1>1, <1>2 DEF ToldOf
<1>4. ASSUME NEW p PROVE Tree!Live(Tree!Pending, p) <=> LiveIn(changes, idx.rev, p)
  <2>1. ASSUME Tree!Live(Tree!Pending, p) PROVE LiveIn(changes, idx.rev, p)
    <3>1. PICK e \in Tree!Pending : e.path = p /\ ~e.deleted /\ \A f \in Tree!Pending : f.path = p => f.at <= e.at
      BY <2>1 DEF Tree!Live
    <3>2. PICK n \in 1..Len(changes) : e = ev(n) /\ changes[n].ws > idx.rev
      BY <1>1
    <3>3. ASSUME NEW m \in 1..Len(changes), changes[m].path = p, changes[m].ws > idx.rev PROVE m <= n
      <4>1. ev(m) \in Tree!Pending
        BY <1>1, <3>3
      <4> QED
        BY <4>1, <3>1, <3>2, <3>3, <1>2
    <3> QED
      BY <3>1, <3>2, <3>3, <1>2 DEF LiveIn
  <2>2. ASSUME LiveIn(changes, idx.rev, p) PROVE Tree!Live(Tree!Pending, p)
    <3>1. PICK n \in 1..Len(changes) :
             /\ changes[n].path = p /\ changes[n].ws > idx.rev /\ ~changes[n].deleted
             /\ \A m \in 1..Len(changes) : changes[m].path = p /\ changes[m].ws > idx.rev => m <= n
      BY <2>2 DEF LiveIn
    <3>2. ev(n) \in Tree!Pending
      BY <1>1, <3>1
    <3>3. ASSUME NEW f \in Tree!Pending, f.path = p PROVE f.at <= n
      BY <3>1, <3>3, <1>1, <1>2
    <3> QED
      BY <3>1, <3>2, <3>3, <1>2 DEF Tree!Live
  <2> QED
    BY <2>1, <2>2
<1> QED
  BY <1>3, <1>4

LEMMA PendingRevisions ==
  ASSUME IndexTypes
  PROVE  /\ \A e \in Tree!Pending : e.ws > idx.rev /\ \E n \in 1..Len(changes) : e.ws = changes[n].ws
         /\ \A n \in 1..Len(changes) : changes[n].ws > idx.rev => \E e \in Tree!Pending : e.ws = changes[n].ws
<1> DEFINE ev(n) == [path |-> changes[n].path, deleted |-> changes[n].deleted, ws |-> changes[n].ws, at |-> n]
<1>1. \A e : e \in Tree!Pending <=> \E n \in 1..Len(changes) : e = ev(n) /\ changes[n].ws > idx.rev
  BY DEF Tree!Pending, IndexTypes
<1>2. \A n : ev(n).ws = changes[n].ws
  OBVIOUS
<1> HIDE DEF ev
<1> QED
  BY <1>1, <1>2

\* A cold build has the leaves of the disk, and edges between them.
LEMMA ColdBuild ==
  ASSUME NEW files \in [Paths -> Texts], NEW r
  PROVE  /\ Tree!BuildAt(files, r).rev = r
         /\ Tree!BuildAt(files, r).merkle.leaves = [p \in Paths |-> Leaf(files[p])]
         /\ \A e : e \in Tree!BuildAt(files, r).edges <=> EdgeOK(e, [p \in Paths |-> Leaf(files[p])])
<1> DEFINE ls == [p \in Paths |-> Leaf(files[p])]
<1>1. Tree!Indexed(files) = ls
  BY DEF Tree!Indexed, Tree!IsIndexable, Leaf
<1>2. /\ Tree!BuildAt(files, r).merkle = Tree!MerkleBuild(ls)
      /\ Tree!BuildAt(files, r).edges
           = UNION {Tree!EdgesOf(p, ls[p], Tree!Known(ls)) : p \in Tree!Known(ls)}
      /\ Tree!BuildAt(files, r).rev = r
  BY <1>1 DEF Tree!BuildAt
<1>3. \A l, d, t : Tree!Recompute(l, d, t).leaves = l
  BY DEF Tree!Recompute
<1>4. Tree!MerkleBuild(ls).leaves = ls
  BY <1>3 DEF Tree!MerkleBuild
<1>5. \A e : e \in Tree!BuildAt(files, r).edges <=> EdgeOK(e, ls)
  <2> HIDE DEF ls
  <2>1. \A e : e \in Tree!BuildAt(files, r).edges <=>
                 \E p \in Tree!Known(ls) : e \in Tree!EdgesOf(p, ls[p], Tree!Known(ls))
    BY <1>2
  <2>2. \A p : p \in Tree!Known(ls) <=> p \in Paths /\ ls[p] # Nothing
    BY DEF Tree!Known
  <2>3. \A e, p : e \in Tree!EdgesOf(p, ls[p], Tree!Known(ls)) <=>
                    \E q : q \in Imports[ls[p]] /\ q \in Tree!Known(ls) /\ q # p /\ e = <<p, q>>
    BY DEF Tree!EdgesOf
  <2> QED
    BY <2>1, <2>2, <2>3 DEF EdgeOK
<1> QED
  BY <1>2, <1>4, <1>5

\* What the invariant says of the service, the journal, the index and the checkpoint.
LEMMA TreeInvImplies ==
  ASSUME TreeInv, TreeAssumptions
  PROVE  /\ Tree!LedgerNames /\ Tree!RevisionsAreFresh
         /\ Tree!LeavesAreCold /\ Tree!EdgesAreCold /\ Tree!CheckpointRestores
<1>1. Tree!LedgerNames
  BY DEF Tree!LedgerNames, Tree!AtRest, Tree!Tracked, TreeInv, LedgerOK, FileOK, Dirty, Agrees
<1>2. Tree!RevisionsAreFresh
  BY DEF Tree!RevisionsAreFresh, TreeInv, TreeTypes, IndexTypes, RevsOK, Ordered
<1>3. Tree!CheckpointRestores
  BY DEF Tree!CheckpointRestores, Tree!AtRest, TreeInv, CkptOK, EditOK, InEdit, Restored
<1>4. Flight(op) \subseteq (IF Tree!AtRest THEN {} ELSE Tree!Files)
  <2>1. CASE op = Nothing
    BY <2>1 DEF Flight, Dirty
  <2>2. CASE op # Nothing
    <3>1. OpOK(op) /\ op.ps \in Seq(Paths)
      BY <2>2 DEF TreeInv, TreeTypes, OpOK, Operations
    <3>2. \A k \in 1..Len(op.ps) : op.ps[k] \in Tree!Files
      BY <3>1 DEF Tree!Files, Tree!ToSet
    <3>3. op.to \in Tree!Files
      BY DEF Tree!Files
    <3>4. op.ps[1] \in Tree!Files /\ (op.kind = "txn" => op.ps[2] \in Tree!Files)
      BY <3>1, <3>2 DEF OpOK
    <3>5. op.kind # "txn" => op.n = 1
      BY <3>1 DEF OpOK
    <3> QED
      BY <2>2, <3>3, <3>4, <3>5 DEF Flight, Dirty, Tree!AtRest
  <2> QED
    BY <2>1, <2>2
<1>5. ASSUME NEW p \in Paths \ Tree!Behind PROVE idx.merkle.leaves[p] = Leaf(tree[p])
  <2>1. p \notin unseen \cup Flight(op) /\ ~ToldOf(changes, idx.rev, p)
    BY <1>5, <1>4, PendingTold DEF Tree!Behind, TreeInv, TreeTypes
  <2> QED
    BY <2>1, <1>5 DEF TreeInv, IndexOK, LeafOK
<1>6. Tree!LeavesAreCold
  BY <1>5 DEF Tree!LeavesAreCold, Tree!Indexed, Tree!IsIndexable, Leaf
<1>7. Tree!EdgesAreCold
  <2> SUFFICES ASSUME Tree!Behind = {} PROVE idx.edges \subseteq Tree!BuildAt(tree, 0).edges
    BY DEF Tree!EdgesAreCold
  <2>1. idx.merkle.leaves = [p \in Paths |-> Leaf(tree[p])]
    BY <1>5 DEF TreeInv, TreeTypes, IndexTypes
  <2>2. tree \in [Paths -> Texts]
    BY DEF TreeInv, TreeTypes, DiskTypes
  <2> QED
    BY <2>1, <2>2, ColdBuild DEF TreeInv, EdgesOK
<1> QED
  BY <1>1, <1>2, <1>3, <1>6, <1>7

LEMMA TreeStart == ASSUME Tree!Init, TreeAssumptions PROVE TreeInv
<1>1. tree \in [Paths -> Texts] /\ found = tree
  BY DEF Tree!Init, Tree!Maybe, Texts
<1>2. /\ idx.rev = 0 /\ idx.merkle.leaves = [p \in Paths |-> Leaf(tree[p])]
      /\ \A e \in idx.edges : EdgeOK(e, [p \in Paths |-> Leaf(tree[p])])
  BY <1>1, ColdBuild DEF Tree!Init
<1>3. Tree!NoRecord \in FileRecords /\ Tree!NoEdits \in EditJournals
  BY DEF Tree!NoRecord, Tree!NoEdits, FileRecords, EditJournals, Texts
<1>4. [p \in Paths |-> Leaf(tree[p])] \in [Paths -> Texts]
  BY <1>1 DEF Leaf, Texts
<1>5. changes = <<>> /\ op = Nothing /\ wsrev = 0 /\ unseen = {} /\ foreign = Paths
  BY DEF Tree!Init
<1>6. TreeTypes
  BY <1>1, <1>2, <1>3, <1>4, <1>5 DEF Tree!Init, TreeTypes, DiskTypes, IndexTypes
<1>7. LedgerOK /\ RevsOK
  <2>1. saved.rev = 0
    BY DEF Tree!Init
  <2> QED
    BY <2>1, <1>2, <1>5 DEF LedgerOK, RevsOK, Ordered
<1>8. IndexOK /\ EdgesOK
  BY <1>2, <1>5 DEF IndexOK, EdgesOK, LeafOK, ToldOf, LiveIn
<1>9. CkptOK
  BY <1>1, <1>5 DEF Tree!Init, Tree!NoEdits, CkptOK, EditOK, InEdit, Restored
<1> QED
  BY <1>6, <1>7, <1>8, <1>9 DEF TreeInv

-----------------------------------------------------------------------------
\* The parts of the invariant that a step leaves alone.
LEMMA LedgerKept ==
  ASSUME LedgerOK, Dirty(op') = Dirty(op), Dirty(op) = {}, UNCHANGED <<tree, revs, foreign>>
  PROVE  LedgerOK'
BY DEF LedgerOK, FileOK

LEMMA RevsKept ==
  ASSUME RevsOK, op' = Nothing \/ op'.at # "emit", idx'.rev = idx.rev, UNCHANGED <<saved, wsrev, changes>>
  PROVE  RevsOK'
BY DEF RevsOK, Ordered

LEMMA EdgesKept ==
  ASSUME EdgesOK, UNCHANGED idx
  PROVE  EdgesOK'
BY DEF EdgesOK

LEMMA AtRestOK ==
  /\ Dirty(Nothing) = {} /\ Flight(Nothing) = {}
  /\ \A p : ~InEdit(Nothing, p)
BY DEF Dirty, Flight, InEdit

LEMMA OpBuilt ==
  ASSUME NEW o, o = [kind |-> o.kind, ps |-> o.ps, n |-> o.n, to |-> o.to, bytes |-> o.bytes, rev |-> o.rev,
                     seen |-> o.seen, at |-> o.at],
         o.kind \in OpKinds, o.ps \in Seq(Paths), o.n \in Nat, o.to \in Paths, o.bytes \in Texts, o.rev \in Nat,
         o.seen \in Texts, o.at \in OpPlaces
  PROVE  o \in Operations
BY DEF Operations

LEMMA RecordBuilt ==
  ASSUME NEW r \in Nat, NEW s \in Texts, NEW d \in BOOLEAN
  PROVE  [rev |-> r, sha |-> s, deleted |-> d] \in FileRecords
BY DEF FileRecords

LEMMA RecordFields == \A x \in FileRecords : x.rev \in Nat /\ x.rev + 1 \in Nat /\ x.sha \in Texts /\ x.deleted \in BOOLEAN
BY DEF FileRecords

LEMMA NumbersTyped ==
  ASSUME TreeTypes
  PROVE  /\ idx.rev \in Nat /\ saved.rev \in Nat /\ wsrev \in Nat /\ Len(changes) \in Nat
         /\ \A n \in 1..Len(changes) : changes[n] \in Changes /\ changes[n].ws \in Nat
<1>1. idx.rev \in Nat /\ wsrev \in Nat /\ saved.rev \in Nat
  BY DEF TreeTypes, DiskTypes, IndexTypes
<1>2. \A n \in 1..Len(changes) : changes[n] \in Changes
  BY DEF TreeTypes, IndexTypes
<1>3. Len(changes) \in Nat
  BY DEF TreeTypes, IndexTypes
<1>4. \A e \in Changes : e.ws \in Nat
  BY DEF Changes
<1> QED
  BY <1>1, <1>2, <1>3, <1>4

\* An operation is begun.
LEMMA OpBegins ==
  ASSUME TreeInv, TreeAssumptions, op = Nothing, NEW o, OpOK(o), op' = o, o.at = "touch", o.n = 1, o.kind # "apply",
         UNCHANGED <<tree, revs, wsrev, saved, changes, idx, edits, ckpt, found, unseen, foreign, others>>
  PROVE  TreeInv'
<1>1. o # Nothing
  BY DEF OpOK, TreeAssumptions
<1>2. Dirty(o) = {} /\ Flight(o) = {} /\ \A p : ~InEdit(o, p)
  BY <1>1 DEF Dirty, Flight, InEdit
<1>3. TreeTypes'
  BY DEF TreeInv, TreeTypes, DiskTypes, IndexTypes
<1>4. LedgerOK' /\ RevsOK' /\ EdgesOK'
  BY <1>2, AtRestOK, LedgerKept, RevsKept, EdgesKept DEF TreeInv
<1>5. IndexOK'
  BY <1>2, AtRestOK DEF TreeInv, IndexOK
<1>6. CkptOK'
  BY <1>2, AtRestOK DEF TreeInv, CkptOK, EditOK
<1> QED
  BY <1>3, <1>4, <1>5, <1>6 DEF TreeInv

LEMMA StartStep ==
  ASSUME TreeInv, TreeAssumptions, NEW kind \in {"create", "replace", "delete", "move"}, NEW p \in Paths, NEW q \in Paths,
         NEW c \in Texts, Tree!Start(kind, p, q, c)
  PROVE  TreeInv'
<1>1. PICK o : /\ o = op' /\ o.kind = kind /\ o.ps = <<p>> /\ o.n = 1 /\ o.to = q /\ o.bytes = c
               /\ o.rev = Tree!Revision(p) /\ o.seen = tree[p] /\ o.at = "touch"
               /\ o = [kind |-> kind, ps |-> <<p>>, n |-> 1, to |-> q, bytes |-> c, rev |-> o.rev,
                       seen |-> o.seen, at |-> "touch"]
  BY DEF Tree!Start, Tree!Begin
<1>2. Tree!Revision(p) \in Nat /\ tree[p] \in Texts
  BY DEF TreeInv, TreeTypes, DiskTypes, FileRecords, Tree!Revision
<1>3. <<p>> \in Seq(Paths) /\ Len(<<p>>) = 1 /\ <<p>>[1] = p
  OBVIOUS
<1>4. o \in Operations
  <2>1. kind \in OpKinds /\ "touch" \in OpPlaces /\ 1 \in Nat
    BY DEF OpKinds, OpPlaces
  <2> QED
    BY <1>1, <1>2, <1>3, <2>1, OpBuilt
<1>5. (kind \in {"create", "replace"} <=> c # Nothing) /\ (kind = "move" <=> p # q)
  BY DEF Tree!Start
<1>6. OpOK(o)
  BY <1>1, <1>3, <1>4, <1>5 DEF OpOK
<1>7. /\ op = Nothing
      /\ UNCHANGED <<tree, revs, wsrev, saved, changes, idx, edits, ckpt, found, unseen, foreign, others>>
  BY DEF Tree!Start, Tree!Begin, Tree!AtRest
<1> QED
  BY <1>1, <1>6, <1>7, OpBegins

LEMMA TransactionStep ==
  ASSUME TreeInv, TreeAssumptions, NEW p \in Paths, NEW q \in Paths, NEW c \in Contents, p # q,
         Tree!Transaction(<<p, q>>, c)
  PROVE  TreeInv'
<1>1. PICK o : /\ o = op' /\ o.kind = "txn" /\ o.ps = <<p, q>> /\ o.n = 1 /\ o.to = p /\ o.bytes = c
               /\ o.rev = Tree!Revision(p) /\ o.seen = tree[p] /\ o.at = "touch"
               /\ o = [kind |-> "txn", ps |-> <<p, q>>, n |-> 1, to |-> p, bytes |-> c, rev |-> o.rev,
                       seen |-> o.seen, at |-> "touch"]
  BY DEF Tree!Transaction, Tree!Begin
<1>2. Tree!Revision(p) \in Nat /\ tree[p] \in Texts
  BY DEF TreeInv, TreeTypes, DiskTypes, FileRecords, Tree!Revision
<1>3. <<p, q>> \in Seq(Paths) /\ Len(<<p, q>>) = 2 /\ <<p, q>>[1] = p /\ <<p, q>>[2] = q
  OBVIOUS
<1>4. o \in Operations /\ c # Nothing
  <2>1. "txn" \in OpKinds /\ "touch" \in OpPlaces /\ 1 \in Nat /\ c \in Texts /\ c # Nothing
    BY DEF OpKinds, OpPlaces, Texts, TreeAssumptions
  <2> QED
    BY <1>1, <1>2, <1>3, <2>1, OpBuilt
<1>6. OpOK(o)
  BY <1>1, <1>3, <1>4 DEF OpOK
<1>7. /\ op = Nothing
      /\ UNCHANGED <<tree, revs, wsrev, saved, changes, idx, edits, ckpt, found, unseen, foreign, others>>
  BY DEF Tree!Transaction, Tree!Begin, Tree!AtRest
<1> QED
  BY <1>1, <1>6, <1>7, OpBegins

\* An untracked file is adopted: what that does, besides the operation it may begin.
LEMMA Adopts ==
  ASSUME TreeInv, NEW p \in Paths, Tree!Adopt(p), op = Nothing, tree[p] # Nothing,
         UNCHANGED <<tree, changes, idx, edits, ckpt, found, unseen, others>>
  PROVE  /\ DiskTypes'
         /\ \A q \in Paths \ foreign' : Agrees(revs'[q], tree[q])
         /\ wsrev' \in Nat /\ idx.rev <= saved'.rev /\ saved'.rev <= wsrev'
         /\ \A n \in 1..Len(changes) : changes[n].ws <= saved'.rev
<1>1. \A q \in Paths \ foreign : Agrees(revs[q], tree[q])
  BY AtRestOK DEF TreeInv, LedgerOK, FileOK
<1>2. CASE Tree!Tracked(p)
  BY <1>1, <1>2 DEF Tree!Adopt, TreeInv, TreeTypes, DiskTypes, RevsOK
<1>3. CASE ~Tree!Tracked(p)
  <2>1. PICK x \in FileRecords : x = [rev |-> revs[p].rev + 1, sha |-> tree[p], deleted |-> FALSE]
    <3>1. revs[p] \in FileRecords /\ tree[p] \in Texts
      BY DEF TreeInv, TreeTypes, DiskTypes
    <3>2. revs[p].rev + 1 \in Nat
      BY <3>1, RecordFields
    <3> QED
      BY <3>1, <3>2, RecordBuilt
  <2>2. /\ revs' = [revs EXCEPT ![p] = x] /\ wsrev' = wsrev + 1
        /\ saved' = [files |-> revs', rev |-> wsrev'] /\ foreign' = foreign \ {p}
    BY <1>3, <2>1 DEF Tree!Adopt, Tree!Record
  <2>3. revs' \in [Paths -> FileRecords] /\ wsrev' \in Nat
    BY <2>1, <2>2 DEF TreeInv, TreeTypes, DiskTypes
  <2>4. saved' \in [files : [Paths -> FileRecords], rev : Nat] /\ saved'.rev = wsrev + 1
    BY <2>2, <2>3
  <2>5. DiskTypes'
    BY <2>3, <2>4 DEF TreeInv, TreeTypes, DiskTypes
  <2>6. ASSUME NEW q \in Paths \ foreign' PROVE Agrees(revs'[q], tree[q])
    <3>1. CASE q = p
      <4>1. revs'[q] = x
        BY <3>1, <2>2 DEF TreeInv, TreeTypes, DiskTypes
      <4>2. ~x.deleted /\ x.sha = tree[p]
        BY <2>1
      <4> QED
        BY <3>1, <4>1, <4>2 DEF Agrees
    <3>2. CASE q # p
      <4>1. revs'[q] = revs[q] /\ q \notin foreign
        BY <3>2, <2>2, <2>6 DEF TreeInv, TreeTypes, DiskTypes
      <4> QED
        BY <4>1, <1>1
    <3> QED
      BY <3>1, <3>2
  <2>7. idx.rev \in Nat /\ saved.rev \in Nat /\ wsrev \in Nat /\ \A n \in 1..Len(changes) : changes[n].ws \in Nat
    BY NumbersTyped DEF TreeInv
  <2> QED
    BY <2>2, <2>4, <2>5, <2>6, <2>7 DEF TreeInv, RevsOK
<1> QED
  BY <1>2, <1>3

LEMMA ReadStep ==
  ASSUME TreeInv, TreeAssumptions, NEW p \in Paths, Tree!FsRead(p)
  PROVE  TreeInv'
<1>1. /\ op = Nothing /\ op' = Nothing /\ tree[p] # Nothing /\ Tree!Adopt(p)
      /\ UNCHANGED <<tree, changes, idx, edits, ckpt, found, unseen, others>>
  BY DEF Tree!FsRead, Tree!AtRest
<1>2. /\ DiskTypes'
      /\ \A q \in Paths \ foreign' : Agrees(revs'[q], tree[q])
      /\ idx.rev <= saved'.rev /\ saved'.rev <= wsrev'
      /\ \A n \in 1..Len(changes) : changes[n].ws <= saved'.rev
  BY <1>1, Adopts
<1>3. TreeTypes'
  BY <1>1, <1>2 DEF TreeInv, TreeTypes, IndexTypes
<1>4. LedgerOK' /\ RevsOK'
  BY <1>1, <1>2, AtRestOK DEF TreeInv, LedgerOK, FileOK, RevsOK, Ordered
<1>5. EdgesOK' /\ IndexOK'
  BY <1>1 DEF TreeInv, IndexOK, EdgesOK
<1>6. CkptOK'
  BY <1>1 DEF TreeInv, CkptOK
<1> QED
  BY <1>3, <1>4, <1>5, <1>6 DEF TreeInv

LEMMA ApplyStep ==
  ASSUME TreeInv, TreeAssumptions, NEW p \in Paths, NEW c \in Contents, Tree!ChangeApply(p, c)
  PROVE  TreeInv'
<1>1. /\ op = Nothing /\ tree[p] # Nothing /\ Tree!Adopt(p)
      /\ UNCHANGED <<tree, changes, idx, edits, ckpt, found, unseen, others>>
  BY DEF Tree!ChangeApply, Tree!AtRest
<1>2. /\ DiskTypes'
      /\ \A q \in Paths \ foreign' : Agrees(revs'[q], tree[q])
      /\ idx.rev <= saved'.rev /\ saved'.rev <= wsrev'
      /\ \A n \in 1..Len(changes) : changes[n].ws <= saved'.rev
  BY <1>1, Adopts
<1>3. PICK o : /\ o = op' /\ o.kind = "apply" /\ o.ps = <<p>> /\ o.n = 1 /\ o.to = p /\ o.bytes = c
               /\ o.rev = revs'[p].rev /\ o.seen = tree[p] /\ o.at = "touch"
               /\ o = [kind |-> "apply", ps |-> <<p>>, n |-> 1, to |-> p, bytes |-> c, rev |-> o.rev,
                       seen |-> o.seen, at |-> "touch"]
  BY DEF Tree!ChangeApply
<1>4. revs'[p].rev \in Nat /\ tree[p] \in Texts
  BY <1>2 DEF TreeInv, TreeTypes, DiskTypes, FileRecords
<1>5. <<p>> \in Seq(Paths) /\ Len(<<p>>) = 1 /\ <<p>>[1] = p
  OBVIOUS
<1>6. o \in Operations /\ c # Nothing
  <2>1. "apply" \in OpKinds /\ "touch" \in OpPlaces /\ 1 \in Nat /\ c \in Texts /\ c # Nothing
    BY DEF OpKinds, OpPlaces, Texts, TreeAssumptions
  <2> QED
    BY <1>3, <1>4, <1>5, <2>1, OpBuilt
<1>7. OpOK(o) /\ o # Nothing
  BY <1>1, <1>3, <1>5, <1>6 DEF OpOK, TreeAssumptions
<1>8. Dirty(o) = {} /\ Flight(o) = {} /\ \A q : ~InEdit(o, q)
  BY <1>3, <1>7 DEF Dirty, Flight, InEdit
<1>9. TreeTypes'
  BY <1>1, <1>2, <1>3, <1>7 DEF TreeInv, TreeTypes, IndexTypes
<1>10. LedgerOK' /\ RevsOK'
  BY <1>1, <1>2, <1>3, <1>8 DEF TreeInv, LedgerOK, FileOK, RevsOK, Ordered
<1>11. EdgesOK' /\ IndexOK'
  BY <1>1, <1>3, <1>8, AtRestOK DEF TreeInv, IndexOK, EdgesOK
<1>12. CkptOK'
  BY <1>1, <1>3, <1>5, <1>8, AtRestOK DEF TreeInv, CkptOK, EditOK
<1> QED
  BY <1>9, <1>10, <1>11, <1>12 DEF TreeInv

-----------------------------------------------------------------------------
\* The files of an operation.
LEMMA OpFacts ==
  ASSUME OpOK(op)
  PROVE  /\ op.ps[1] \in Paths /\ op.to \in Paths /\ Tree!path \in Paths
         /\ op.kind # "txn" => /\ Tree!path = op.ps[1] /\ op.n = 1 /\ ~(op.n < Len(op.ps))
                               /\ Tree!Files = {op.ps[1], op.to}
         /\ op.kind = "txn" => /\ op.ps[2] \in Paths /\ Tree!path = op.ps[op.n] /\ op.n \in {1, 2}
                               /\ (op.n < Len(op.ps) <=> op.n = 1) /\ op.to = op.ps[1]
                               /\ Tree!Files = {op.ps[1], op.ps[2]}
<1>1. op.ps \in Seq(Paths) /\ op.to \in Paths
  BY DEF OpOK, Operations
<1>2. \A k \in 1..Len(op.ps) : op.ps[k] \in Paths
  BY <1>1
<1>3. \A p : p \in Tree!Files <=> p = op.to \/ \E k \in 1..Len(op.ps) : p = op.ps[k]
  BY <1>1 DEF Tree!Files, Tree!ToSet
<1>4. CASE op.kind # "txn"
  <2>1. Len(op.ps) = 1 /\ op.n = 1
    BY <1>4 DEF OpOK
  <2>2. 1..1 = {1}
    OBVIOUS
  <2> QED
    BY <1>1, <1>2, <1>3, <1>4, <2>1, <2>2 DEF Tree!path
<1>5. CASE op.kind = "txn"
  <2>1. Len(op.ps) = 2 /\ op.n \in {1, 2} /\ op.to = op.ps[1]
    BY <1>5 DEF OpOK
  <2>2. \A k : k \in 1..2 <=> k = 1 \/ k = 2
    OBVIOUS
  <2> QED
    BY <1>1, <1>2, <1>3, <1>5, <2>1, <2>2 DEF Tree!path
<1> QED
  BY <1>4, <1>5

\* An operation goes on: its files and contents stay.
SameFiles(o, x) ==
  x.kind = o.kind /\ x.ps = o.ps /\ x.to = o.to /\ x.bytes = o.bytes /\ x.seen = o.seen /\ x.rev = o.rev

Advances(o, x, n, a) ==
  \/ x = [o EXCEPT !.n = n, !.at = a]
  \/ x = [o EXCEPT !.n = n] /\ a = o.at
  \/ x = [o EXCEPT !.at = a] /\ n = o.n

LEMMA OpGoesOn ==
  ASSUME NEW o \in Operations, NEW n \in Nat, NEW a \in OpPlaces, NEW x, Advances(o, x, n, a)
  PROVE  x \in Operations /\ SameFiles(o, x) /\ x.n = n /\ x.at = a
<1>1. x \in Operations
  BY DEF Operations, Advances
<1>2. SameFiles(o, x)
  BY DEF Operations, SameFiles, Advances
<1>3. x.n = n /\ x.at = a
  BY DEF Operations, Advances
<1> QED
  BY <1>1, <1>2, <1>3

LEMMA OpMoved ==
  ASSUME NEW o, OpOK(o), NEW x \in Operations, SameFiles(o, x),
         x.n = 1 \/ (o.kind = "txn" /\ x.n = 2),
         o.kind = "txn" => x.at \in {"touch", "commit"},
         x.at \in {"journal", "refresh"} => o.kind = "apply"
  PROVE  OpOK(x)
BY DEF OpOK, SameFiles

\* A stale operation ends where it began.
LEMMA StaleEnds ==
  ASSUME TreeInv, TreeAssumptions, OpOK(op), op.at = "touch", op.kind # "txn", op' = Nothing,
         UNCHANGED <<tree, revs, wsrev, saved, changes, idx, edits, ckpt, found, unseen, foreign, others>>
  PROVE  TreeInv'
<1>1. op # Nothing /\ op.n = 1
  BY DEF OpOK, TreeAssumptions
<1>2. Dirty(op) = {} /\ Flight(op) = {} /\ \A p : ~InEdit(op, p)
  BY <1>1 DEF Dirty, Flight, InEdit
<1>3. TreeTypes'
  BY DEF TreeInv, TreeTypes, DiskTypes, IndexTypes
<1>4. LedgerOK' /\ RevsOK' /\ EdgesOK'
  BY <1>2, AtRestOK, LedgerKept, RevsKept, EdgesKept DEF TreeInv
<1>5. IndexOK'
  BY <1>2, AtRestOK DEF TreeInv, IndexOK
<1>6. CkptOK'
  BY <1>2, AtRestOK DEF TreeInv, CkptOK, EditOK
<1> QED
  BY <1>3, <1>4, <1>5, <1>6 DEF TreeInv

\* The disk after the write of a file.
LEMMA TouchDisk ==
  ASSUME TreeInv, TreeAssumptions, OpOK(op), op.at = "touch",
         tree' = IF op.kind = "move" THEN [tree EXCEPT ![op.to] = tree[Tree!path], ![Tree!path] = Nothing]
                 ELSE [tree EXCEPT ![Tree!path] = op.bytes]
  PROVE  /\ tree' \in [Paths -> Texts]
         /\ \A p \in Paths \ Tree!Wrote : tree'[p] = tree[p]
         /\ op.kind # "move" => tree'[Tree!path] = op.bytes
         /\ op.kind = "move" => tree'[Tree!path] = Nothing /\ tree'[op.to] = tree[Tree!path]
<1>1. tree \in [Paths -> Texts] /\ op.to \in Paths /\ Tree!path \in Paths /\ op.bytes \in Texts /\ Nothing \in Texts
  BY OpFacts DEF TreeInv, TreeTypes, DiskTypes, OpOK, Operations, Texts
<1>2. op.kind = "move" => op.to # Tree!path
  BY OpFacts DEF OpOK
<1> QED
  BY <1>1, <1>2 DEF Tree!Wrote

LEMMA TouchStep ==
  ASSUME TreeInv, TreeAssumptions, Tree!Touch
  PROVE  TreeInv'
<1>1. op # Nothing /\ OpOK(op) /\ op.at = "touch"
  BY DEF Tree!Touch, TreeInv, TreeTypes
<1>2. UNCHANGED <<revs, wsrev, saved, changes, idx, edits, ckpt, found>>
  BY DEF Tree!Touch
<1>3. CASE Tree!Stale
  <2>1. op.kind # "txn"
    BY <1>3 DEF Tree!Stale
  <2>2. op' = Nothing /\ UNCHANGED <<tree, unseen, foreign, others>>
    BY <1>3 DEF Tree!Touch
  <2> QED
    BY <1>1, <1>2, <2>1, <2>2, StaleEnds
<1>4. CASE ~Tree!Stale
  <2>1. tree' = IF op.kind = "move" THEN [tree EXCEPT ![op.to] = tree[Tree!path], ![Tree!path] = Nothing]
                ELSE [tree EXCEPT ![Tree!path] = op.bytes]
    BY <1>4 DEF Tree!Touch
  <2>2. /\ tree' \in [Paths -> Texts]
        /\ \A p \in Paths \ Tree!Wrote : tree'[p] = tree[p]
        /\ op.kind # "move" => tree'[Tree!path] = op.bytes
        /\ op.kind = "move" => tree'[Tree!path] = Nothing /\ tree'[op.to] = tree[Tree!path]
    BY <1>1, <2>1, TouchDisk
  <2>3. op' = IF op.n < Len(op.ps) THEN [op EXCEPT !.n = op.n + 1] ELSE [op EXCEPT !.n = 1, !.at = "commit"]
    BY <1>4 DEF Tree!Touch
  <2>4. /\ unseen' = unseen \ Tree!Wrote
        /\ foreign' = IF op.kind = "move" /\ Tree!path \in foreign THEN foreign \cup {op.to} ELSE foreign \ Tree!Wrote
        /\ others' = IF op.kind = "apply" THEN others ELSE others \cup Tree!Wrote
    BY <1>4 DEF Tree!Touch
  <2>5. PICK x \in Operations : /\ x = op' /\ SameFiles(op, x)
                                /\ IF op.kind = "txn" /\ op.n = 1 THEN x.n = 2 /\ x.at = "touch" ELSE x.n = 1 /\ x.at = "commit"
    <3>1. op \in Operations /\ "touch" \in OpPlaces /\ "commit" \in OpPlaces /\ 1 \in Nat /\ 2 \in Nat
      BY <1>1 DEF OpOK, OpPlaces
    <3>2. CASE op.kind = "txn" /\ op.n = 1
      <4>1. op.n < Len(op.ps)
        BY <1>1, <3>2, OpFacts
      <4>2. Advances(op, op', 2, "touch")
        BY <1>1, <2>3, <3>2, <4>1 DEF Advances
      <4> QED
        BY <3>1, <3>2, <4>2, OpGoesOn
    <3>3. CASE ~(op.kind = "txn" /\ op.n = 1)
      <4>1. ~(op.n < Len(op.ps))
        BY <1>1, <3>3, OpFacts
      <4>2. Advances(op, op', 1, "commit")
        BY <2>3, <4>1 DEF Advances
      <4> QED
        BY <3>1, <3>3, <4>2, OpGoesOn
    <3> QED
      BY <3>2, <3>3
  <2>6. OpOK(x) /\ x # Nothing /\ x.at \in {"touch", "commit"}
    BY <1>1, <2>5, OpMoved DEF TreeAssumptions
  <2>7. Dirty(x) = Dirty(op) \cup Tree!Wrote /\ Flight(x) = Dirty(x) /\ Flight(op) = Dirty(op)
    <3>1. Flight(x) = Dirty(x) /\ Flight(op) = Dirty(op)
      BY <1>1, <2>6 DEF Flight
    <3>2. CASE op.kind # "txn"
      <4>1. Dirty(op) = {} /\ Dirty(x) = {op.ps[1], op.to}
        BY <1>1, <2>5, <2>6, <3>2, OpFacts DEF Dirty, SameFiles
      <4>2. Tree!Wrote = {op.ps[1], op.to}
        BY <1>1, <3>2, OpFacts DEF Tree!Wrote, OpOK
      <4> QED
        BY <3>1, <4>1, <4>2
    <3>3. CASE op.kind = "txn" /\ op.n = 1
      <4>1. Dirty(op) = {} /\ Dirty(x) = {op.ps[1]}
        BY <1>1, <2>5, <2>6, <3>3 DEF Dirty, SameFiles
      <4>2. Tree!Wrote = {op.ps[1]}
        BY <1>1, <3>3, OpFacts DEF Tree!Wrote
      <4> QED
        BY <3>1, <4>1, <4>2
    <3>4. CASE op.kind = "txn" /\ op.n # 1
      <4>0. op.n = 2
        BY <1>1, <3>4, OpFacts
      <4>1. Dirty(op) = {op.ps[1]} /\ Dirty(x) = {op.ps[1], op.ps[2]}
        BY <1>1, <2>5, <2>6, <3>4, <4>0 DEF Dirty, SameFiles
      <4>2. Tree!Wrote = {op.ps[2]}
        BY <1>1, <3>4, <4>0, OpFacts DEF Tree!Wrote
      <4> QED
        BY <3>1, <4>1, <4>2
    <3> QED
      BY <3>2, <3>3, <3>4
  <2>8. TreeTypes'
    BY <1>2, <2>2, <2>5, <2>6 DEF TreeInv, TreeTypes, DiskTypes, IndexTypes
  <2>9. LedgerOK'
    <3>1. ASSUME NEW p \in Paths \ foreign' PROVE FileOK(x, p, tree'[p], revs)
      <4>1. CASE p \in Tree!Wrote
        <5>1. p \in Dirty(x)
          BY <4>1, <2>7
        <5>2. CASE op.kind # "move"
          <6>1. p = Tree!path
            BY <4>1, <5>2 DEF Tree!Wrote
          <6> QED
            BY <5>1, <5>2, <6>1, <2>2, <2>5 DEF FileOK, DirtyOK, SameFiles
        <5>3. CASE op.kind = "move"
          <6>1. Tree!path \notin foreign /\ Tree!path = op.ps[1] /\ op.to # op.ps[1] /\ op.n = 1 /\ Tree!path \in Paths
            BY <1>1, <3>1, <4>1, <5>3, <2>4, OpFacts DEF Tree!Wrote, OpOK
          <6>2. Dirty(op) = {} /\ tree[Tree!path] # Nothing
            BY <1>1, <1>4, <5>3, <6>1 DEF Dirty, Tree!Stale
          <6>3. revs[Tree!path].sha = tree[Tree!path]
            BY <6>1, <6>2 DEF TreeInv, LedgerOK, FileOK, Agrees
          <6> QED
            BY <4>1, <5>1, <5>3, <6>1, <6>2, <6>3, <2>2, <2>5 DEF FileOK, DirtyOK, SameFiles, Tree!Wrote
        <5> QED
          BY <5>2, <5>3
      <4>2. CASE p \notin Tree!Wrote
        <5>1. p \notin foreign /\ tree'[p] = tree[p] /\ (p \in Dirty(x) <=> p \in Dirty(op))
          BY <4>2, <3>1, <2>2, <2>4, <2>7
        <5>2. FileOK(op, p, tree[p], revs)
          BY <5>1 DEF TreeInv, LedgerOK
        <5> QED
          BY <5>1, <5>2, <2>5 DEF FileOK, DirtyOK, SameFiles
      <4> QED
        BY <4>1, <4>2
    <3> QED
      BY <3>1, <1>2, <2>5 DEF LedgerOK
  <2>10. RevsOK' /\ EdgesOK'
    BY <1>2, <2>5, <2>6, RevsKept, EdgesKept DEF TreeInv
  <2>11. IndexOK'
    <3>1. ASSUME NEW p \in Paths \ (unseen' \cup Flight(x))
          PROVE  LeafOK(changes, idx.rev, p, idx.merkle.leaves[p], tree'[p])
      <4>1. p \notin Tree!Wrote /\ p \notin Flight(op)
        BY <3>1, <2>7
      <4>2. p \notin unseen /\ tree'[p] = tree[p]
        BY <3>1, <4>1, <2>2, <2>4
      <4> QED
        BY <4>1, <4>2 DEF TreeInv, IndexOK
    <3>2. op.kind \in {"delete", "move"} => tree'[op.ps[1]] = Nothing
      BY <1>1, <2>2, OpFacts DEF OpOK
    <3> QED
      BY <3>1, <3>2, <1>2, <2>5 DEF IndexOK, SameFiles
  <2>12. CkptOK'
    <3>1. ASSUME NEW p \in Paths \ others'
          PROVE  EditOK(x, p, edits.first[p], edits.last[p], tree'[p], found[p])
      <4>1. p \notin others /\ ~InEdit(op, p)
        BY <1>1, <3>1, <2>4 DEF InEdit
      <4>2. Restored(edits.first[p], edits.last[p], tree[p], found[p])
        BY <4>1 DEF TreeInv, CkptOK, EditOK
      <4>3. CASE op.kind # "apply"
        <5>1. p \notin Tree!Wrote /\ ~InEdit(x, p)
          BY <4>3, <3>1, <2>4, <2>5 DEF InEdit, SameFiles
        <5> QED
          BY <5>1, <4>2, <2>2 DEF EditOK
      <4>4. CASE op.kind = "apply"
        <5>1. Tree!Wrote = {op.ps[1]} /\ op.ps[1] = Tree!path
          BY <1>1, <4>4, OpFacts DEF Tree!Wrote
        <5>2. CASE p # op.ps[1]
          BY <5>1, <5>2, <4>2, <2>2, <2>5 DEF EditOK, InEdit, SameFiles
        <5>3. CASE p = op.ps[1]
          <6>1. op.seen = tree[p] /\ tree'[p] = op.bytes
            BY <1>1, <4>1, <4>4, <5>1, <5>3, <2>2 DEF TreeInv, CkptOK
          <6>2. InEdit(x, p)
            BY <4>4, <5>3, <2>5, <2>6 DEF InEdit, SameFiles
          <6> QED
            BY <6>1, <6>2, <4>2, <2>5 DEF EditOK, Restored, EditWritten, SameFiles
        <5> QED
          BY <5>2, <5>3
      <4> QED
        BY <4>3, <4>4
    <3>2. op.kind = "apply" => x.at = "commit"
      BY <2>5
    <3> QED
      BY <3>1, <3>2, <1>2, <2>5 DEF TreeInv, CkptOK, SameFiles
  <2> QED
    BY <2>8, <2>9, <2>10, <2>11, <2>12 DEF TreeInv
<1> QED
  BY <1>3, <1>4

-----------------------------------------------------------------------------
\* What the operation records makes the ledger agree with what it wrote.
LEMMA RecordedAgrees ==
  ASSUME TreeInv, TreeAssumptions, OpOK(op), revs' = Tree!Recorded
  PROVE  /\ revs' \in [Paths -> FileRecords]
         /\ \A p \in Paths \ Tree!Wrote : revs'[p] = revs[p]
         /\ \A p \in Tree!Wrote : \A c : DirtyOK(op, p, c, revs) => Agrees(revs'[p], c)
<1>1. PICK a \in Paths, b \in Paths, x \in FileRecords : a = Tree!path /\ b = op.to /\ x = revs[a]
  BY OpFacts DEF TreeInv, TreeTypes, DiskTypes
<1>2. x.rev + 1 \in Nat /\ x.sha \in Texts /\ op.bytes \in Texts /\ Nothing \in Texts /\ TRUE \in BOOLEAN /\ FALSE \in BOOLEAN
  BY RecordFields DEF OpOK, Operations, Texts
<1>3. revs \in [Paths -> FileRecords]
  BY DEF TreeInv, TreeTypes, DiskTypes
<1>4. CASE op.kind = "delete"
  <2>1. PICK y \in FileRecords : y = [rev |-> x.rev + 1, sha |-> Nothing, deleted |-> TRUE]
    BY <1>2, RecordBuilt
  <2>2. revs' = [revs EXCEPT ![a] = y] /\ y.deleted
    BY <1>1, <1>4, <2>1 DEF Tree!Recorded, Tree!Tombstone
  <2>3. Tree!Wrote = {a} /\ op.bytes = Nothing
    BY <1>1, <1>4 DEF Tree!Wrote, OpOK
  <2> QED
    BY <1>3, <1>4, <2>2, <2>3 DEF DirtyOK, Agrees
<1>5. CASE op.kind = "move"
  <2>1. PICK y \in FileRecords, z \in FileRecords :
           /\ y = [rev |-> x.rev + 1, sha |-> x.sha, deleted |-> TRUE]
           /\ z = [rev |-> x.rev + 1, sha |-> x.sha, deleted |-> FALSE]
    BY <1>2, RecordBuilt
  <2>2. revs' = [revs EXCEPT ![a] = y, ![b] = z] /\ y.deleted /\ ~z.deleted /\ z.sha = x.sha
    BY <1>1, <1>5, <2>1 DEF Tree!Recorded, Tree!Tombstone
  <2>3. Tree!Wrote = {a, b} /\ a # b /\ a = op.ps[1] /\ b = op.to
    BY <1>1, <1>5, OpFacts DEF Tree!Wrote, OpOK
  <2>4. revs'[a] = y /\ revs'[b] = z /\ \A p \in Paths \ {a, b} : revs'[p] = revs[p]
    BY <1>3, <2>2, <2>3
  <2>5. revs' \in [Paths -> FileRecords]
    BY <1>3, <2>2
  <2>6. ASSUME NEW c, DirtyOK(op, a, c, revs) PROVE Agrees(revs'[a], c)
    BY <1>5, <2>2, <2>3, <2>4, <2>6 DEF DirtyOK, Agrees
  <2>7. ASSUME NEW c, DirtyOK(op, b, c, revs) PROVE Agrees(revs'[b], c)
    <3>1. c # Nothing /\ c = x.sha
      BY <1>1, <1>5, <2>3, <2>7 DEF DirtyOK
    <3> QED
      BY <3>1, <2>2, <2>4 DEF Agrees
  <2> QED
    BY <2>3, <2>4, <2>5, <2>6, <2>7
<1>6. CASE op.kind \notin {"delete", "move"}
  <2>1. PICK y \in FileRecords : y = [rev |-> x.rev + 1, sha |-> op.bytes, deleted |-> FALSE]
    BY <1>2, RecordBuilt
  <2>2. revs' = [revs EXCEPT ![a] = y] /\ ~y.deleted /\ y.sha = op.bytes
    BY <1>1, <1>6, <2>1 DEF Tree!Recorded, Tree!Record
  <2>3. Tree!Wrote = {a} /\ op.bytes # Nothing /\ op.kind # "move"
    BY <1>1, <1>6 DEF Tree!Wrote, OpOK
  <2> QED
    BY <1>3, <2>2, <2>3 DEF DirtyOK, Agrees
<1> QED
  BY <1>4, <1>5, <1>6

LEMMA CommitStep ==
  ASSUME TreeInv, TreeAssumptions, NEW ok \in BOOLEAN, Tree!Commit(ok)
  PROVE  TreeInv'
<1>1. op # Nothing /\ OpOK(op) /\ op.at = "commit"
  BY DEF Tree!Commit, TreeInv, TreeTypes
<1>2. /\ revs' = Tree!Recorded /\ wsrev' = wsrev + 1
      /\ UNCHANGED <<tree, changes, idx, edits, ckpt, found>>
  BY DEF Tree!Commit
<1>3. /\ revs' \in [Paths -> FileRecords]
      /\ \A p \in Paths \ Tree!Wrote : revs'[p] = revs[p]
      /\ \A p \in Tree!Wrote : \A c : DirtyOK(op, p, c, revs) => Agrees(revs'[p], c)
  BY <1>1, <1>2, RecordedAgrees
<1>4. Tree!Wrote \subseteq Dirty(op) /\ Dirty(op) \subseteq Tree!Files /\ Flight(op) = Dirty(op)
  <2>1. CASE op.kind # "txn"
    BY <1>1, <2>1, OpFacts DEF Tree!Wrote, Dirty, Flight
  <2>2. CASE op.kind = "txn"
    BY <1>1, <2>2, OpFacts DEF Tree!Wrote, Dirty, Flight
  <2> QED
    BY <2>1, <2>2
<1>5. \A p \in Tree!Wrote : p \in Paths
  BY <1>1, OpFacts DEF Tree!Wrote
<1>6. \A p \in Paths \ foreign : IF p \in Tree!Wrote \/ p \notin Dirty(op) THEN Agrees(revs'[p], tree[p])
                                 ELSE DirtyOK(op, p, tree[p], revs)
  BY <1>3, <1>4 DEF TreeInv, LedgerOK, FileOK
<1>7. idx.rev \in Nat /\ saved.rev \in Nat /\ wsrev \in Nat /\ \A n \in 1..Len(changes) : changes[n].ws \in Nat
  BY NumbersTyped DEF TreeInv
<1>8. CASE ok
  <2>1. /\ saved' = [files |-> revs', rev |-> wsrev']
        /\ op' = IF op.n < Len(op.ps) THEN [op EXCEPT !.n = op.n + 1]
                 ELSE IF op.kind = "txn" THEN Nothing ELSE [op EXCEPT !.at = "emit"]
        /\ unseen' = IF op.kind = "txn" THEN unseen \cup {Tree!path} ELSE unseen
        /\ UNCHANGED <<foreign, others>>
    BY <1>8 DEF Tree!Commit
  <2>2. saved' \in [files : [Paths -> FileRecords], rev : Nat] /\ saved'.rev = wsrev + 1 /\ wsrev' \in Nat
    BY <1>2, <1>3, <1>7, <2>1
  <2>3. /\ op' = Nothing \/ OpOK(op')
        /\ op' # Nothing => SameFiles(op, op') /\ (op'.at = "emit" <=> op.kind # "txn") /\ op'.at \in {"emit", "commit"}
        /\ Dirty(op') = Dirty(op) \ Tree!Wrote
        /\ Flight(op) \subseteq Flight(op') \cup (IF op.kind = "txn" THEN {Tree!path} ELSE {})
        /\ op' = Nothing => op.kind = "txn"
    <3>0. op \in Operations /\ 2 \in Nat /\ 1 \in Nat /\ "commit" \in OpPlaces /\ "emit" \in OpPlaces
      BY <1>1 DEF OpOK, OpPlaces
    <3>1. CASE op.kind = "txn" /\ op.n = 1
      <4>1. op.n < Len(op.ps) /\ Tree!path = op.ps[1] /\ op.ps[1] # op.ps[2]
        BY <1>1, <3>1, OpFacts DEF OpOK
      <4>2. Advances(op, op', 2, "commit")
        BY <1>1, <2>1, <3>1, <4>1 DEF Advances
      <4>3. op' \in Operations /\ SameFiles(op, op') /\ op'.n = 2 /\ op'.at = "commit"
        BY <3>0, <4>2, OpGoesOn
      <4>4. OpOK(op') /\ op' # Nothing
        BY <1>1, <3>1, <4>3, OpMoved DEF TreeAssumptions
      <4>5. Dirty(op') = {op.ps[2]} /\ Dirty(op) = {op.ps[1], op.ps[2]} /\ Flight(op') = Dirty(op')
        BY <1>1, <3>1, <4>3, <4>4 DEF Dirty, Flight, SameFiles
      <4>6. Tree!Wrote = {op.ps[1]}
        BY <3>1, <4>1 DEF Tree!Wrote
      <4> QED
        BY <1>4, <3>1, <4>1, <4>3, <4>4, <4>5, <4>6
    <3>2. CASE op.kind = "txn" /\ op.n # 1
      <4>1. ~(op.n < Len(op.ps)) /\ Tree!path = op.ps[2] /\ op.n = 2
        BY <1>1, <3>2, OpFacts
      <4>2. op' = Nothing
        BY <2>1, <3>2, <4>1
      <4>3. Dirty(op) = {op.ps[2]} /\ Tree!Wrote = {op.ps[2]}
        BY <1>1, <3>2, <4>1 DEF Dirty, Tree!Wrote
      <4> QED
        BY <1>4, <3>2, <4>1, <4>2, <4>3, AtRestOK
    <3>3. CASE op.kind # "txn"
      <4>1. ~(op.n < Len(op.ps)) /\ Tree!path = op.ps[1] /\ op.n = 1
        BY <1>1, <3>3, OpFacts
      <4>2. Advances(op, op', 1, "emit")
        BY <2>1, <3>3, <4>1 DEF Advances
      <4>3. op' \in Operations /\ SameFiles(op, op') /\ op'.n = 1 /\ op'.at = "emit"
        BY <3>0, <4>2, OpGoesOn
      <4>4. OpOK(op') /\ op' # Nothing
        BY <1>1, <3>3, <4>3, OpMoved DEF TreeAssumptions
      <4>5. Dirty(op') = {} /\ Dirty(op) = {op.ps[1], op.to} /\ Flight(op') = {op.ps[1], op.to}
        BY <1>1, <3>3, <4>3, <4>4 DEF Dirty, Flight, SameFiles
      <4>6. Tree!Wrote = {op.ps[1], op.to}
        BY <1>1, <3>3, <4>1 DEF Tree!Wrote, OpOK
      <4> QED
        BY <1>4, <3>3, <4>3, <4>4, <4>5, <4>6
    <3> QED
      BY <3>1, <3>2, <3>3
  <2>4. TreeTypes'
    BY <1>2, <1>3, <2>2, <2>3 DEF TreeInv, TreeTypes, DiskTypes, IndexTypes
  <2>5. LedgerOK'
    <3>1. ASSUME NEW p \in Paths \ foreign PROVE FileOK(op', p, tree[p], revs')
      <4>1. CASE p \in Dirty(op')
        <5>1. DirtyOK(op, p, tree[p], revs) /\ op' # Nothing /\ op.kind # "move"
          BY <1>6, <3>1, <4>1, <2>3, AtRestOK DEF Flight, Dirty
        <5> QED
          BY <4>1, <5>1, <2>3 DEF FileOK, DirtyOK, SameFiles
      <4>2. CASE p \notin Dirty(op')
        BY <1>6, <3>1, <4>2, <2>3 DEF FileOK
      <4> QED
        BY <4>1, <4>2
    <3> QED
      BY <3>1, <1>2, <2>1 DEF LedgerOK
  <2>6. RevsOK'
    <3>1. idx.rev <= saved.rev /\ saved.rev <= wsrev /\ \A n \in 1..Len(changes) : changes[n].ws <= saved.rev
      BY DEF TreeInv, RevsOK
    <3>2. idx.rev < wsrev + 1 /\ \A n \in 1..Len(changes) : changes[n].ws < wsrev + 1 /\ changes[n].ws <= wsrev + 1
      BY <3>1, <1>7
    <3> QED
      BY <1>2, <1>7, <2>2, <3>2 DEF TreeInv, RevsOK, Ordered
  <2>7. IndexOK'
    <3>1. unseen \cup Flight(op) \subseteq unseen' \cup Flight(op')
      BY <2>1, <2>3
    <3>2. op' # Nothing /\ op'.kind \in {"delete", "move"} /\ op'.ps[1] \notin unseen' => tree[op'.ps[1]] = Nothing
      BY <1>1, <2>1, <2>3 DEF TreeInv, IndexOK, SameFiles
    <3> QED
      BY <1>2, <3>1, <3>2 DEF TreeInv, IndexOK
  <2>8. CkptOK'
    <3>1. \A p : InEdit(op', p) <=> InEdit(op, p)
      BY <1>1, <2>3 DEF InEdit, SameFiles
    <3>2. \A p, f, c, b : InEdit(op, p) => (EditWritten(op', f, c, b) <=> EditWritten(op, f, c, b))
      BY <2>3, <3>1 DEF InEdit, EditWritten, SameFiles
    <3>3. ASSUME NEW p \in Paths \ others
          PROVE  EditOK(op', p, edits.first[p], edits.last[p], tree[p], found[p])
      <4>1. EditOK(op, p, edits.first[p], edits.last[p], tree[p], found[p])
        BY <3>3 DEF TreeInv, CkptOK
      <4> QED
        BY <4>1, <3>1, <3>2 DEF EditOK
    <3>4. op' # Nothing => op'.at # "touch"
      BY <2>3
    <3> QED
      BY <1>2, <2>1, <3>3, <3>4 DEF TreeInv, CkptOK
  <2> QED
    BY <1>2, <2>4, <2>5, <2>6, <2>7, <2>8, EdgesKept DEF TreeInv
<1>9. CASE ~ok
  <2>1. /\ op' = Nothing /\ UNCHANGED saved
        /\ unseen' = unseen \cup Tree!Files /\ foreign' = foreign \cup (Tree!Files \ {Tree!path, op.to})
        /\ others' = others \cup Tree!Files
    BY <1>9 DEF Tree!Commit
  <2>2. TreeTypes'
    BY <1>2, <1>3, <1>7, <2>1 DEF TreeInv, TreeTypes, DiskTypes, IndexTypes
  <2>3. LedgerOK'
    <3>1. ASSUME NEW p \in Paths \ foreign' PROVE Agrees(revs'[p], tree[p])
      <4>1. p \in Tree!Wrote \/ p \notin Dirty(op)
        <5>1. CASE op.kind # "txn"
          BY <1>1, <5>1, OpFacts DEF Dirty, Tree!Wrote, OpOK
        <5>2. CASE op.kind = "txn"
          BY <1>1, <3>1, <2>1, <5>2, OpFacts DEF Dirty, Tree!Wrote
        <5> QED
          BY <5>1, <5>2
      <4> QED
        BY <3>1, <4>1, <1>6, <2>1
    <3> QED
      BY <3>1, <1>2, <2>1, AtRestOK DEF LedgerOK, FileOK
  <2>4. RevsOK'
    <3>1. saved.rev <= wsrev + 1
      BY <1>7 DEF TreeInv, RevsOK
    <3> QED
      BY <1>2, <2>1, <3>1 DEF TreeInv, RevsOK, Ordered
  <2>5. IndexOK'
    BY <1>2, <1>4, <2>1, AtRestOK DEF TreeInv, IndexOK
  <2>6. CkptOK'
    <3>1. ASSUME NEW p \in Paths \ others' PROVE ~InEdit(op, p) /\ p \notin others
      BY <1>1, <2>1, <3>1, OpFacts DEF InEdit
    <3> QED
      BY <1>2, <2>1, <3>1, AtRestOK DEF TreeInv, CkptOK, EditOK
  <2> QED
    BY <1>2, <2>2, <2>3, <2>4, <2>5, <2>6, EdgesKept DEF TreeInv
<1> QED
  BY <1>8, <1>9

-----------------------------------------------------------------------------
\* An event is appended: what it says of its own path, and of no other.
LEMMA ToldAppend ==
  ASSUME NEW s \in Seq(Changes), NEW e \in Changes, NEW r \in Nat
  PROVE  /\ Append(s, e) \in Seq(Changes)
         /\ \A p : p # e.path => /\ ToldOf(Append(s, e), r, p) <=> ToldOf(s, r, p)
                                 /\ LiveIn(Append(s, e), r, p) <=> LiveIn(s, r, p)
         /\ e.ws > r => ToldOf(Append(s, e), r, e.path)
         /\ e.ws > r /\ ~e.deleted => LiveIn(Append(s, e), r, e.path)
<1>0. Append(s, e) \in Seq(Changes) /\ Len(s) \in Nat
  OBVIOUS
<1>1. PICK n \in Nat, t \in Seq(Changes) : n = Len(s) /\ t = Append(s, e)
  BY <1>0
<1>2. Len(t) = n + 1 /\ t[n + 1] = e /\ \A k \in 1..n : t[k] = s[k]
  BY <1>1
<1>3. \A k : k \in 1..(n + 1) <=> k \in 1..n \/ k = n + 1
  BY <1>1
<1>4. \A k \in 1..(n + 1) : k <= n + 1
  OBVIOUS
<1>5. ASSUME NEW p, p # e.path
      PROVE  /\ ToldOf(t, r, p) <=> ToldOf(s, r, p)
             /\ LiveIn(t, r, p) <=> LiveIn(s, r, p)
  BY <1>1, <1>2, <1>3, <1>5 DEF ToldOf, LiveIn
<1>6. e.ws > r => ToldOf(t, r, e.path)
  BY <1>2, <1>3 DEF ToldOf
<1>7. e.ws > r /\ ~e.deleted => LiveIn(t, r, e.path)
  BY <1>2, <1>3, <1>4 DEF LiveIn
<1> QED
  BY <1>1, <1>5, <1>6, <1>7

LEMMA OrderedAppend ==
  ASSUME NEW s \in Seq(Changes), NEW e \in Changes, Ordered(s),
         \A n \in 1..Len(s) : s[n].ws < e.ws \/ (s[n].ws = e.ws /\ s[n].deleted)
  PROVE  Ordered(Append(s, e))
<1>0. Append(s, e) \in Seq(Changes) /\ Len(s) \in Nat
  OBVIOUS
<1>1. PICK n \in Nat, t \in Seq(Changes) : n = Len(s) /\ t = Append(s, e)
  BY <1>0
<1>2. Len(t) = n + 1 /\ t[n + 1] = e /\ \A k \in 1..n : t[k] = s[k]
  BY <1>1
<1>3. \A k, m \in 1..(n + 1) : k < m => k \in 1..n /\ (m \in 1..n \/ m = n + 1)
  BY <1>1
<1> QED
  BY <1>1, <1>2, <1>3 DEF Ordered

LEMMA TwoAppends ==
  ASSUME NEW s \in Seq(Changes), NEW d \in Changes, NEW e \in Changes
  PROVE  s \o <<d, e>> = Append(Append(s, d), e)
<1>0. Append(s, d) \in Seq(Changes)
  OBVIOUS
<1>1. PICK t \in Seq(Changes) : t = Append(s, d)
  BY <1>0
<1>2. Len(t) = Len(s) + 1 /\ t[Len(s) + 1] = d /\ \A i \in 1..Len(s) : t[i] = s[i]
  BY <1>1
<1>3. PICK u \in Seq(Changes), v \in Seq(Changes) : u = s \o <<d, e>> /\ v = Append(t, e)
  <2>1. <<d, e>> \in Seq(Changes) /\ Append(t, e) \in Seq(Changes)
    OBVIOUS
  <2>2. s \o <<d, e>> \in Seq(Changes)
    BY <2>1
  <2> QED
    BY <2>1, <2>2
<1>4. Len(u) = Len(s) + 2 /\ u[Len(s) + 1] = d /\ u[Len(s) + 2] = e /\ \A i \in 1..Len(s) : u[i] = s[i]
  BY <1>3
<1>5. Len(v) = Len(s) + 2 /\ v[Len(s) + 2] = e /\ \A i \in 1..Len(t) : v[i] = t[i]
  BY <1>2, <1>3
<1>6. \A i \in 1..Len(u) : u[i] = v[i]
  <2>1. Len(s) \in Nat
    OBVIOUS
  <2>2. \A i \in 1..Len(u) : i \in 1..Len(s) \/ i = Len(s) + 1 \/ i = Len(s) + 2
    BY <1>4, <2>1
  <2>3. \A i \in 1..Len(s) : i \in 1..Len(t)
    BY <1>2, <2>1
  <2>4. Len(s) + 1 \in 1..Len(t)
    BY <1>2, <2>1
  <2> QED
    BY <1>2, <1>4, <1>5, <2>2, <2>3, <2>4
<1>7. u = v
  BY <1>4, <1>5, <1>6, SeqEqual
<1> QED
  BY <1>1, <1>3, <1>7

LEMMA EmitStep ==
  ASSUME TreeInv, TreeAssumptions, NEW ok \in BOOLEAN, Tree!Emit(ok)
  PROVE  TreeInv'
<1>1. op # Nothing /\ OpOK(op) /\ op.at = "emit" /\ op.kind # "txn"
  BY DEF Tree!Emit, TreeInv, TreeTypes, OpOK
<1>2. UNCHANGED <<tree, revs, wsrev, saved, idx, edits, ckpt, found, foreign>>
  BY DEF Tree!Emit
<1>3. /\ Tree!path = op.ps[1] /\ Tree!Files = {op.ps[1], op.to} /\ op.ps[1] \in Paths /\ op.to \in Paths /\ op.n = 1
      /\ Flight(op) = {op.ps[1], op.to} /\ Dirty(op) = {}
  BY <1>1, OpFacts DEF Flight, Dirty
<1>4. idx.rev \in Nat /\ wsrev \in Nat /\ idx.rev < wsrev /\ saved.rev = wsrev
      /\ \A n \in 1..Len(changes) : changes[n].ws \in Nat /\ changes[n].ws < wsrev
  BY <1>1, NumbersTyped DEF TreeInv, RevsOK
<1>5. CASE ok
  <2>1. /\ changes' = changes \o (IF op.kind = "move" THEN <<Tree!Event(Tree!path, TRUE), Tree!Event(op.to, FALSE)>>
                                  ELSE <<Tree!Event(Tree!path, op.kind = "delete")>>)
        /\ op' = IF op.kind = "apply" THEN [op EXCEPT !.at = "journal"] ELSE Nothing
        /\ UNCHANGED <<unseen, others>>
    BY <1>5 DEF Tree!Emit
  <2>2. /\ op' = Nothing \/ OpOK(op')
        /\ op' # Nothing => op.kind = "apply" /\ SameFiles(op, op') /\ op'.at = "journal"
        /\ op' = Nothing => op.kind # "apply"
        /\ Dirty(op') = {} /\ Flight(op') = {}
    <3>1. CASE op.kind # "apply"
      BY <2>1, <3>1, AtRestOK
    <3>2. CASE op.kind = "apply"
      <4>1. op \in Operations /\ 1 \in Nat /\ "journal" \in OpPlaces
        BY <1>1 DEF OpOK, OpPlaces
      <4>2. Advances(op, op', 1, "journal")
        BY <2>1, <3>2, <1>3 DEF Advances
      <4>3. op' \in Operations /\ SameFiles(op, op') /\ op'.n = 1 /\ op'.at = "journal"
        BY <4>1, <4>2, OpGoesOn
      <4>4. OpOK(op') /\ op' # Nothing
        BY <1>1, <3>2, <4>3, OpMoved DEF TreeAssumptions
      <4> QED
        BY <3>2, <4>3, <4>4 DEF Dirty, Flight
    <3> QED
      BY <3>1, <3>2
  <2>3. /\ changes' \in Seq(Changes) /\ Ordered(changes')
        /\ \A n \in 1..Len(changes') : changes'[n].ws <= wsrev
        /\ \A p : p \notin Flight(op) => /\ ToldOf(changes', idx.rev, p) <=> ToldOf(changes, idx.rev, p)
                                         /\ LiveIn(changes', idx.rev, p) <=> LiveIn(changes, idx.rev, p)
        /\ \A p \in Flight(op) : ToldOf(changes', idx.rev, p)
        /\ LiveIn(changes', idx.rev, op.to) \/ op.kind = "delete"
    <3>1. changes \in Seq(Changes) /\ Ordered(changes)
      BY DEF TreeInv, TreeTypes, IndexTypes, RevsOK
    <3>2. CASE op.kind # "move"
      <4>1. PICK b \in BOOLEAN : b = (op.kind = "delete")
        OBVIOUS
      <4>2. PICK e \in Changes : e = [path |-> op.ps[1], deleted |-> b, ws |-> wsrev]
        BY <1>3, <1>4 DEF Changes
      <4>3. e.path = op.ps[1] /\ e.deleted = b /\ e.ws = wsrev
        BY <4>2
      <4>4. changes' = Append(changes, e)
        <5>1. e = Tree!Event(Tree!path, op.kind = "delete")
          BY <1>3, <4>1, <4>2 DEF Tree!Event
        <5>2. changes' = changes \o <<e>>
          BY <2>1, <3>2, <5>1
        <5> QED
          BY <5>2, <3>1
      <4>5. op.to = op.ps[1]
        BY <1>1, <3>2 DEF OpOK
      <4>6. changes' \in Seq(Changes) /\ Ordered(changes')
        BY <1>4, <3>1, <4>3, <4>4, OrderedAppend
      <4>7. \A n \in 1..Len(changes') : changes'[n].ws <= wsrev
        <5>1. Len(changes') = Len(changes) + 1 /\ changes'[Len(changes) + 1] = e
              /\ \A n \in 1..Len(changes) : changes'[n] = changes[n]
          BY <3>1, <4>4
        <5>2. Len(changes) \in Nat
          BY <3>1
        <5> QED
          BY <5>1, <5>2, <1>4, <4>3
      <4>8. /\ \A p : p # e.path => /\ ToldOf(changes', idx.rev, p) <=> ToldOf(changes, idx.rev, p)
                                    /\ LiveIn(changes', idx.rev, p) <=> LiveIn(changes, idx.rev, p)
            /\ ToldOf(changes', idx.rev, e.path) /\ (~e.deleted => LiveIn(changes', idx.rev, e.path))
        BY <1>4, <3>1, <4>3, <4>4, ToldAppend
      <4> QED
        BY <1>3, <4>1, <4>3, <4>5, <4>6, <4>7, <4>8
    <3>3. CASE op.kind = "move"
      <4>1. PICK d \in Changes, e \in Changes : /\ d = [path |-> op.ps[1], deleted |-> TRUE, ws |-> wsrev]
                                                /\ e = [path |-> op.to, deleted |-> FALSE, ws |-> wsrev]
        BY <1>3, <1>4 DEF Changes
      <4>2. /\ d.path = op.ps[1] /\ d.deleted /\ d.ws = wsrev
            /\ e.path = op.to /\ ~e.deleted /\ e.ws = wsrev
        BY <4>1
      <4>3. PICK t \in Seq(Changes) : t = Append(changes, d) /\ changes' = Append(t, e)
        <5>1. d = Tree!Event(Tree!path, TRUE) /\ e = Tree!Event(op.to, FALSE)
          BY <1>3, <4>1 DEF Tree!Event
        <5>2. changes' = changes \o <<d, e>>
          BY <2>1, <3>3, <5>1
        <5>3. changes' = Append(Append(changes, d), e)
          BY <5>2, <3>1, TwoAppends
        <5>4. Append(changes, d) \in Seq(Changes)
          BY <3>1
        <5> QED
          BY <5>3, <5>4
      <4>4. op.to # op.ps[1]
        BY <1>1, <3>3 DEF OpOK
      <4>5. /\ Len(t) \in Nat /\ Len(changes) \in Nat /\ Len(t) = Len(changes) + 1 /\ t[Len(changes) + 1] = d
            /\ \A n \in 1..Len(changes) : t[n] = changes[n]
        BY <3>1, <4>3
      <4>6. \A n \in 1..Len(t) : t[n].ws < wsrev \/ (t[n].ws = wsrev /\ t[n].deleted)
        BY <1>4, <4>2, <4>5
      <4>7. Ordered(t)
        BY <1>4, <3>1, <4>2, <4>3, OrderedAppend
      <4>8. changes' \in Seq(Changes) /\ Ordered(changes')
        <5>1. Append(t, e) \in Seq(Changes)
          BY <4>3
        <5>2. Ordered(Append(t, e))
          BY <4>2, <4>3, <4>6, <4>7, OrderedAppend
        <5> QED
          BY <4>3, <5>1, <5>2
      <4>9. \A n \in 1..Len(changes') : changes'[n].ws <= wsrev
        <5>1. /\ Len(changes') = Len(t) + 1 /\ changes'[Len(t) + 1] = e
              /\ \A n \in 1..Len(t) : changes'[n] = t[n]
          BY <4>3
        <5>2. \A n \in 1..Len(t) : t[n].ws <= wsrev
          <6>1. \A n \in 1..Len(t) : t[n] \in Changes
            BY <4>3
          <6>2. \A x \in Changes : x.ws \in Nat
            BY DEF Changes
          <6> QED
            BY <4>6, <6>1, <6>2, <1>4
        <5> QED
          BY <5>1, <5>2, <4>5, <1>4, <4>2
      <4>10. /\ \A p : p # d.path => /\ ToldOf(t, idx.rev, p) <=> ToldOf(changes, idx.rev, p)
                                     /\ LiveIn(t, idx.rev, p) <=> LiveIn(changes, idx.rev, p)
             /\ ToldOf(t, idx.rev, d.path)
        BY <1>4, <3>1, <4>2, <4>3, ToldAppend
      <4>11. /\ \A p : p # e.path => /\ ToldOf(changes', idx.rev, p) <=> ToldOf(t, idx.rev, p)
                                     /\ LiveIn(changes', idx.rev, p) <=> LiveIn(t, idx.rev, p)
             /\ ToldOf(changes', idx.rev, e.path) /\ LiveIn(changes', idx.rev, e.path)
        BY <1>4, <4>2, <4>3, ToldAppend
      <4> QED
        BY <1>3, <4>2, <4>4, <4>8, <4>9, <4>10, <4>11
    <3> QED
      BY <3>2, <3>3
  <2>4. TreeTypes'
    BY <1>2, <2>2, <2>3 DEF TreeInv, TreeTypes, DiskTypes, IndexTypes
  <2>5. LedgerOK'
    BY <1>2, <1>3, <2>2, LedgerKept DEF TreeInv
  <2>6. RevsOK'
    <3>1. op' = Nothing \/ op'.at # "emit"
      BY <2>2
    <3> QED
      BY <1>2, <1>4, <2>3, <3>1 DEF TreeInv, RevsOK
  <2>7. IndexOK'
    <3>1. ASSUME NEW p \in Paths \ unseen
          PROVE  LeafOK(changes', idx.rev, p, idx.merkle.leaves[p], tree[p])
      <4>1. CASE p \notin Flight(op)
        <5>1. LeafOK(changes, idx.rev, p, idx.merkle.leaves[p], tree[p])
          BY <3>1, <4>1 DEF TreeInv, IndexOK
        <5> QED
          BY <4>1, <5>1, <2>3 DEF LeafOK
      <4>2. CASE p \in Flight(op)
        <5>1. ToldOf(changes', idx.rev, p)
          BY <4>2, <2>3
        <5>2. LiveIn(changes', idx.rev, p) \/ tree[p] = Nothing
          <6>1. CASE p = op.to /\ op.kind # "delete"
            BY <6>1, <2>3
          <6>2. CASE ~(p = op.to /\ op.kind # "delete")
            <7>1. p = op.ps[1] /\ op.kind \in {"delete", "move"}
              BY <1>1, <1>3, <4>2, <6>2 DEF OpOK
            <7> QED
              BY <7>1, <3>1, <1>1 DEF TreeInv, IndexOK
          <6> QED
            BY <6>1, <6>2
        <5> QED
          BY <5>1, <5>2 DEF LeafOK
      <4> QED
        BY <4>1, <4>2
    <3> QED
      BY <3>1, <1>2, <2>1, <2>2 DEF IndexOK
  <2>8. CkptOK'
    <3>1. \A p : InEdit(op', p) <=> InEdit(op, p)
      BY <1>1, <2>2 DEF InEdit, SameFiles
    <3>2. \A p, f, c, b : InEdit(op, p) => (EditWritten(op', f, c, b) <=> EditWritten(op, f, c, b))
      BY <2>2, <3>1 DEF InEdit, EditWritten, SameFiles
    <3>3. ASSUME NEW p \in Paths \ others
          PROVE  EditOK(op', p, edits.first[p], edits.last[p], tree[p], found[p])
      <4>1. EditOK(op, p, edits.first[p], edits.last[p], tree[p], found[p])
        BY <3>3 DEF TreeInv, CkptOK
      <4> QED
        BY <4>1, <3>1, <3>2 DEF EditOK
    <3>4. op' # Nothing => op'.at # "touch"
      BY <2>2
    <3> QED
      BY <1>2, <2>1, <3>3, <3>4 DEF TreeInv, CkptOK
  <2> QED
    BY <1>2, <2>4, <2>5, <2>6, <2>7, <2>8, EdgesKept DEF TreeInv
<1>6. CASE ~ok
  <2>1. /\ op' = Nothing /\ UNCHANGED changes
        /\ unseen' = unseen \cup Tree!Files /\ others' = others \cup Tree!Files
    BY <1>6 DEF Tree!Emit
  <2>2. TreeTypes'
    BY <1>2, <2>1 DEF TreeInv, TreeTypes, DiskTypes, IndexTypes
  <2>3. LedgerOK' /\ RevsOK'
    BY <1>2, <1>3, <2>1, AtRestOK, LedgerKept, RevsKept DEF TreeInv
  <2>4. IndexOK'
    BY <1>2, <1>3, <2>1, AtRestOK DEF TreeInv, IndexOK
  <2>5. CkptOK'
    <3>1. ASSUME NEW p \in Paths \ others' PROVE ~InEdit(op, p) /\ p \notin others
      BY <1>1, <1>3, <2>1, <3>1 DEF InEdit
    <3> QED
      BY <1>2, <2>1, <3>1, AtRestOK DEF TreeInv, CkptOK, EditOK
  <2> QED
    BY <1>2, <2>2, <2>3, <2>4, <2>5, EdgesKept DEF TreeInv
<1> QED
  BY <1>5, <1>6

-----------------------------------------------------------------------------
LEMMA JournalStep ==
  ASSUME TreeInv, TreeAssumptions, Tree!JournalEdit
  PROVE  TreeInv'
<1>1. op # Nothing /\ OpOK(op) /\ op.at = "journal" /\ op.kind = "apply"
  BY DEF Tree!JournalEdit, TreeInv, TreeTypes, OpOK
<1>2. UNCHANGED <<tree, revs, wsrev, saved, changes, idx, found, unseen, foreign, others>>
  BY DEF Tree!JournalEdit
<1>3. PICK a \in Paths, b \in Texts, s \in Texts :
         a = Tree!path /\ a = op.ps[1] /\ b = op.bytes /\ b # Nothing /\ s = op.seen /\ s # Nothing /\ op.n = 1
  BY <1>1, OpFacts DEF OpOK, Operations
<1>4. PICK f \in Texts : f = IF edits.first[a] = Nothing THEN s ELSE edits.first[a]
  BY DEF TreeInv, TreeTypes, DiskTypes, EditJournals
<1>5. PICK n \in Nat : n = edits.n + 1
  BY DEF TreeInv, TreeTypes, DiskTypes, EditJournals
<1>6. PICK fs \in [Paths -> Texts], ls \in [Paths -> Texts] :
         fs = [edits.first EXCEPT ![a] = f] /\ ls = [edits.last EXCEPT ![a] = b]
  BY DEF TreeInv, TreeTypes, DiskTypes, EditJournals
<1>7. edits' = [first |-> fs, last |-> ls, n |-> n]
  BY <1>3, <1>4, <1>5, <1>6 DEF Tree!JournalEdit
<1>8. edits' \in EditJournals /\ edits'.first = fs /\ edits'.last = ls /\ edits'.n = n
  BY <1>7 DEF EditJournals
<1>9. ckpt' = IF edits'.n > MaxDeltas THEN ckpt ELSE edits'
  BY DEF Tree!JournalEdit
<1>10. OpOK(op') /\ op' # Nothing /\ SameFiles(op, op') /\ op'.at = "refresh"
  <2>1. op \in Operations /\ 1 \in Nat /\ "refresh" \in OpPlaces
    BY <1>1 DEF OpOK, OpPlaces
  <2>2. Advances(op, op', 1, "refresh")
    BY <1>3 DEF Advances, Tree!JournalEdit
  <2>3. op' \in Operations /\ SameFiles(op, op') /\ op'.n = 1 /\ op'.at = "refresh"
    BY <2>1, <2>2, OpGoesOn
  <2> QED
    BY <1>1, <2>3, OpMoved DEF TreeAssumptions
<1>11. Dirty(op) = {} /\ Dirty(op') = {} /\ Flight(op) = {} /\ Flight(op') = {}
  BY <1>1, <1>10 DEF Dirty, Flight
<1>12. TreeTypes'
  BY <1>2, <1>8, <1>9, <1>10 DEF TreeInv, TreeTypes, DiskTypes, IndexTypes
<1>13. LedgerOK' /\ RevsOK' /\ EdgesOK'
  BY <1>2, <1>10, <1>11, LedgerKept, RevsKept, EdgesKept DEF TreeInv
<1>14. IndexOK'
  BY <1>2, <1>10, <1>11 DEF TreeInv, IndexOK
<1>15. CkptOK'
  <2>1. ASSUME NEW p \in Paths \ others PROVE EditOK(op', p, fs[p], ls[p], tree[p], found[p])
    <3>1. EditOK(op, p, edits.first[p], edits.last[p], tree[p], found[p]) /\ ~InEdit(op', p)
      BY <2>1, <1>10 DEF TreeInv, CkptOK, InEdit
    <3>2. CASE p # a
      <4>1. fs[p] = edits.first[p] /\ ls[p] = edits.last[p] /\ ~InEdit(op, p)
        BY <1>3, <1>6, <3>2 DEF InEdit, TreeInv, TreeTypes, DiskTypes, EditJournals
      <4> QED
        BY <3>1, <4>1 DEF EditOK
    <3>3. CASE p = a
      <4>1. fs[p] = f /\ ls[p] = b /\ InEdit(op, p)
        BY <1>1, <1>3, <1>6, <3>3 DEF InEdit, TreeInv, TreeTypes, DiskTypes, EditJournals
      <4>2. tree[p] = b /\ found[p] = f /\ f # Nothing
        BY <3>1, <3>3, <4>1, <1>3, <1>4 DEF EditOK, EditWritten
      <4> QED
        BY <3>1, <4>1, <4>2, <1>3 DEF EditOK, Restored
    <3> QED
      BY <3>2, <3>3
  <2>2. edits'.n <= MaxDeltas => ckpt' = edits'
    <3>1. n \in Nat /\ MaxDeltas \in Nat
      BY DEF TreeAssumptions
    <3> QED
      BY <1>8, <1>9, <3>1
  <2> QED
    BY <2>1, <2>2, <1>2, <1>8, <1>10 DEF CkptOK
<1> QED
  BY <1>12, <1>13, <1>14, <1>15 DEF TreeInv

-----------------------------------------------------------------------------
\* What a refresh leaves of the index: nothing is pending, and a path that an event told
\* of is as it is on disk when its last event says that it is there.
LEMMA RefreshedIndex ==
  ASSUME TreeInv, NEW i, i = Tree!Refreshed
  PROVE  /\ i.rev \in Nat /\ i.rev <= saved.rev /\ \A p : ~ToldOf(changes, i.rev, p)
         /\ i.merkle.leaves \in [Paths -> Texts]
         /\ \A p \in Paths : i.merkle.leaves[p] = IF ~ToldOf(changes, idx.rev, p) THEN idx.merkle.leaves[p]
                                                  ELSE IF LiveIn(changes, idx.rev, p) THEN Leaf(tree[p]) ELSE Nothing
         /\ \A e \in i.edges : EdgeOK(e, i.merkle.leaves)
<1>1. /\ IndexTypes /\ tree \in [Paths -> Texts] /\ idx.rev \in Nat /\ saved.rev \in Nat /\ Len(changes) \in Nat
      /\ idx.merkle.leaves \in [Paths -> Texts]
      /\ \A n \in 1..Len(changes) : changes[n].ws \in Nat /\ changes[n].ws <= saved.rev
  BY NumbersTyped DEF TreeInv, TreeTypes, DiskTypes, IndexTypes, RevsOK
<1>2. CASE Tree!Pending = {}
  <2>1. i = idx
    BY <1>2 DEF Tree!Refreshed
  <2>2. \A p : ~ToldOf(changes, idx.rev, p)
    BY <1>1, <1>2, PendingTold
  <2> QED
    BY <1>1, <2>1, <2>2 DEF TreeInv, RevsOK, EdgesOK
<1>3. CASE Tree!Pending # {}
  <2> DEFINE W == {e.ws : e \in Tree!Pending}
             w == CHOOSE x \in W : \A e \in Tree!Pending : e.ws <= x
             touched == {e.path : e \in Tree!Pending}
             fresh == [p \in Paths |-> IF Tree!Live(Tree!Pending, p) /\ Tree!IsIndexable(tree[p]) THEN tree[p] ELSE Nothing]
             ls == [p \in Paths |-> IF p \in touched THEN fresh[p] ELSE idx.merkle.leaves[p]]
             m == Tree!ApplyChanges(idx.merkle, fresh, touched)
             known == Tree!Known(m.leaves)
             stay == {e \in idx.edges : e[1] \notin touched /\ e[2] \in known}
             new == UNION {Tree!EdgesOf(p, fresh[p], known) : p \in {q \in touched : fresh[q] # Nothing}}
  <2>1. i = [merkle |-> m, edges |-> stay \cup new, rev |-> w]
    BY <1>3 DEF Tree!Refreshed, Tree!ApplyDelta
  <2>2. i.merkle = m /\ i.edges = stay \cup new /\ i.rev = w
    <3> HIDE DEF m, stay, new, w
    <3> QED
      BY <2>1
  <2>3. m.leaves = ls
    <3>1. \A l, d, t : Tree!Recompute(l, d, t).leaves = l
      BY DEF Tree!Recompute
    <3> QED
      BY <3>1 DEF Tree!ApplyChanges
  <2>4. \A p : p \in touched <=> ToldOf(changes, idx.rev, p)
    BY <1>1, PendingTold
  <2>5. \A p \in Paths : fresh[p] = IF LiveIn(changes, idx.rev, p) THEN Leaf(tree[p]) ELSE Nothing
    BY <1>1, PendingTold DEF Tree!IsIndexable, Leaf
  <2>6. \A p \in Paths : ls[p] = IF ToldOf(changes, idx.rev, p) THEN fresh[p] ELSE idx.merkle.leaves[p]
    BY <2>4
  <2>7. fresh \in [Paths -> Texts] /\ ls \in [Paths -> Texts]
    BY <1>1 DEF Texts
  <2>8. w \in Nat /\ w <= saved.rev /\ \A p : ~ToldOf(changes, w, p)
    <3>1. /\ \A e \in Tree!Pending : e.ws > idx.rev /\ \E n \in 1..Len(changes) : e.ws = changes[n].ws
          /\ \A n \in 1..Len(changes) : changes[n].ws > idx.rev => \E e \in Tree!Pending : e.ws = changes[n].ws
      BY <1>1, PendingRevisions
    <3>2. PICK k \in 1..Len(changes) : changes[k].ws > idx.rev
      BY <1>3, <3>1
    <3>3. PICK z \in 1..Len(changes) : z = Len(changes)
      BY <1>1, <3>2
    <3>4. \A n \in 1..Len(changes) : changes[n].ws <= changes[z].ws
      <4>1. \A n \in 1..Len(changes) : n = z \/ n < z
        BY <1>1, <3>3
      <4>2. \A n \in 1..Len(changes) : n < z => changes[n].ws < changes[z].ws \/ changes[n].ws = changes[z].ws
        BY <3>3 DEF TreeInv, RevsOK, Ordered
      <4> QED
        BY <1>1, <3>3, <4>1, <4>2
    <3>5. changes[z].ws > idx.rev
      BY <1>1, <3>2, <3>4
    <3>6. \E x \in W : \A e \in Tree!Pending : e.ws <= x
      <4>1. changes[z].ws \in W
        BY <3>1, <3>5
      <4>2. \A e \in Tree!Pending : e.ws <= changes[z].ws
        BY <3>1, <3>4
      <4> QED
        BY <4>1, <4>2
    <3>7. w \in W /\ \A e \in Tree!Pending : e.ws <= w
      BY <3>6
    <3> HIDE DEF w
    <3>8. PICK y \in 1..Len(changes) : w = changes[y].ws /\ w > idx.rev
      BY <3>1, <3>7
    <3>9. w \in Nat /\ w <= saved.rev
      BY <1>1, <3>8
    <3>10. \A n \in 1..Len(changes) : ~(changes[n].ws > w)
      <4>1. ASSUME NEW n \in 1..Len(changes), changes[n].ws > w PROVE FALSE
        <5>1. changes[n].ws > idx.rev
          BY <1>1, <3>8, <4>1
        <5>2. changes[n].ws <= w
          BY <3>1, <3>7, <5>1
        <5> QED
          BY <1>1, <3>9, <4>1, <5>2
      <4> QED
        BY <4>1
    <3> QED
      BY <3>9, <3>10 DEF ToldOf
  <2> HIDE DEF w, touched, fresh, ls, m, W
  <2>9. \A e \in stay \cup new : EdgeOK(e, ls)
    <3>1. \A q : q \in known <=> q \in Paths /\ ls[q] # Nothing
      BY <2>3 DEF Tree!Known
    <3>2. ASSUME NEW e \in stay PROVE EdgeOK(e, ls)
      <4>1. EdgeOK(e, idx.merkle.leaves) /\ e[1] \notin touched /\ e[2] \in known
        BY <3>2 DEF TreeInv, EdgesOK
      <4>2. PICK p \in Paths, q \in Paths : /\ e = <<p, q>> /\ p # q /\ q \in Imports[idx.merkle.leaves[p]]
                                            /\ idx.merkle.leaves[p] # Nothing
        BY <4>1 DEF EdgeOK
      <4>3. ls[p] = idx.merkle.leaves[p] /\ ls[q] # Nothing
        BY <4>1, <4>2, <2>4, <2>6, <3>1
      <4> QED
        BY <4>2, <4>3 DEF EdgeOK
    <3>3. ASSUME NEW e \in new PROVE EdgeOK(e, ls)
      <4>1. PICK p \in touched : fresh[p] # Nothing /\ e \in Tree!EdgesOf(p, fresh[p], known)
        BY <3>3
      <4>2. PICK q : q \in Imports[fresh[p]] /\ q \in known /\ q # p /\ e = <<p, q>>
        BY <4>1 DEF Tree!EdgesOf
      <4>3. p \in Paths
        <5>1. \A n \in 1..Len(changes) : changes[n].path \in Paths
          <6>1. \A x \in Changes : x.path \in Paths
            BY DEF Changes
          <6> QED
            BY <6>1, NumbersTyped DEF TreeInv
        <5> QED
          BY <5>1, <2>4 DEF ToldOf
      <4>4. ls[p] = fresh[p]
        BY <2>4, <2>6, <4>3
      <4> QED
        BY <4>1, <4>2, <4>3, <4>4, <3>1 DEF EdgeOK
    <3> QED
      BY <3>2, <3>3
  <2> QED
    BY <2>2, <2>3, <2>5, <2>6, <2>7, <2>8, <2>9
<1> QED
  BY <1>2, <1>3

LEMMA RefreshStep ==
  ASSUME TreeInv, TreeAssumptions, Tree!RefreshIndex, op = Nothing \/ op.at = "refresh"
  PROVE  TreeInv'
<1>1. /\ idx' = Tree!Refreshed /\ op' = Nothing /\ unseen' = unseen \ Tree!SeenAgain
      /\ UNCHANGED <<tree, revs, wsrev, saved, changes, edits, ckpt, found, foreign, others>>
  BY DEF Tree!RefreshIndex
<1>2. /\ idx'.rev \in Nat /\ idx'.rev <= saved.rev /\ \A p : ~ToldOf(changes, idx'.rev, p)
      /\ idx'.merkle.leaves \in [Paths -> Texts]
      /\ \A p \in Paths : idx'.merkle.leaves[p] = IF ~ToldOf(changes, idx.rev, p) THEN idx.merkle.leaves[p]
                                                  ELSE IF LiveIn(changes, idx.rev, p) THEN Leaf(tree[p]) ELSE Nothing
      /\ \A e \in idx'.edges : EdgeOK(e, idx'.merkle.leaves)
  <2>1. PICK i : i = idx'
    OBVIOUS
  <2>2. i = Tree!Refreshed
    BY <1>1, <2>1
  <2> QED
    BY <2>1, <2>2, RefreshedIndex
<1>3. Dirty(op) = {} /\ Flight(op) = {} /\ \A p : ~InEdit(op, p)
  BY AtRestOK DEF Dirty, Flight, InEdit
<1>4. TreeTypes'
  BY <1>1, <1>2 DEF TreeInv, TreeTypes, DiskTypes, IndexTypes
<1>5. LedgerOK'
  BY <1>1, <1>3, AtRestOK, LedgerKept DEF TreeInv
<1>6. RevsOK' /\ EdgesOK'
  BY <1>1, <1>2 DEF TreeInv, RevsOK, EdgesOK, Ordered
<1>7. IndexOK'
  <2>1. ASSUME NEW p \in Paths \ unseen' PROVE idx'.merkle.leaves[p] = Leaf(tree[p])
    <3>1. p \in unseen => LiveIn(changes, idx.rev, p)
      BY <1>1, <2>1, PendingTold DEF Tree!SeenAgain, TreeInv, TreeTypes
    <3>2. LiveIn(changes, idx.rev, p) => ToldOf(changes, idx.rev, p)
      BY DEF LiveIn, ToldOf
    <3>3. p \notin unseen => LeafOK(changes, idx.rev, p, idx.merkle.leaves[p], tree[p])
      BY <1>3 DEF TreeInv, IndexOK
    <3>4. Leaf(Nothing) = Nothing
      BY DEF Leaf
    <3> QED
      BY <1>2, <3>1, <3>2, <3>3, <3>4 DEF LeafOK
  <2> QED
    BY <1>1, <1>2, <2>1, AtRestOK DEF IndexOK, LeafOK
<1>8. CkptOK'
  BY <1>1, <1>3, AtRestOK DEF TreeInv, CkptOK, EditOK
<1> QED
  BY <1>4, <1>5, <1>6, <1>7, <1>8 DEF TreeInv

-----------------------------------------------------------------------------
LEMMA ShellStep ==
  ASSUME TreeInv, TreeAssumptions, NEW p \in Paths, NEW c \in Texts, Tree!Shell(p, c)
  PROVE  TreeInv'
<1>1. /\ tree' = [tree EXCEPT ![p] = c]
      /\ unseen' = unseen \cup {p} /\ foreign' = foreign \cup {p} /\ others' = others \cup {p}
      /\ UNCHANGED <<revs, wsrev, saved, changes, op, idx, edits, ckpt, found>>
  BY DEF Tree!Shell
<1>2. tree' \in [Paths -> Texts] /\ \A q \in Paths \ {p} : tree'[q] = tree[q]
  BY <1>1 DEF TreeInv, TreeTypes, DiskTypes
<1>3. TreeTypes'
  BY <1>1, <1>2 DEF TreeInv, TreeTypes, DiskTypes, IndexTypes
<1>4. op # Nothing => op.ps[1] \in Paths
  BY OpFacts DEF TreeInv, TreeTypes
<1>5. LedgerOK'
  BY <1>1, <1>2 DEF TreeInv, LedgerOK
<1>6. RevsOK' /\ EdgesOK'
  BY <1>1 DEF TreeInv, RevsOK, Ordered, EdgesOK
<1>7. IndexOK'
  BY <1>1, <1>2, <1>4 DEF TreeInv, IndexOK
<1>8. CkptOK'
  BY <1>1, <1>2, <1>4 DEF TreeInv, CkptOK
<1> QED
  BY <1>3, <1>5, <1>6, <1>7, <1>8 DEF TreeInv

LEMMA RestartStep ==
  ASSUME TreeInv, TreeAssumptions, Tree!Restart
  PROVE  TreeInv'
<1>1. /\ revs' = saved.files /\ wsrev' = saved.rev
      /\ foreign' = foreign \cup {p \in Paths : saved.files[p] # revs[p]}
                            \cup (IF op # Nothing /\ op.at \in {"touch", "commit"} THEN Tree!Files ELSE {})
      /\ idx' = Tree!BuildAt(tree, saved.rev)
      /\ op' = Nothing /\ edits' = Tree!NoEdits /\ ckpt' = Tree!NoEdits
      /\ found' = tree /\ unseen' = {} /\ others' = {}
      /\ UNCHANGED <<tree, saved, changes>>
  BY DEF Tree!Restart
<1>2. tree \in [Paths -> Texts] /\ saved.files \in [Paths -> FileRecords] /\ saved.rev \in Nat
  BY DEF TreeInv, TreeTypes, DiskTypes
<1>3. /\ idx'.rev = saved.rev /\ idx'.merkle.leaves = [p \in Paths |-> Leaf(tree[p])]
      /\ \A e \in idx'.edges : EdgeOK(e, idx'.merkle.leaves)
  BY <1>1, <1>2, ColdBuild
<1>4. [p \in Paths |-> Leaf(tree[p])] \in [Paths -> Texts]
  BY <1>2 DEF Leaf, Texts
<1>5. Tree!NoEdits \in EditJournals
  BY DEF Tree!NoEdits, EditJournals, Texts
<1>6. TreeTypes'
  BY <1>1, <1>2, <1>3, <1>4, <1>5 DEF TreeInv, TreeTypes, DiskTypes, IndexTypes
<1>7. LedgerOK'
  <2>1. ASSUME NEW p \in Paths \ foreign' PROVE Agrees(revs'[p], tree[p])
    <3>1. p \notin foreign /\ saved.files[p] = revs[p]
      BY <1>1, <2>1
    <3>2. p \notin Dirty(op)
      <4>1. CASE op = Nothing
        BY <4>1, AtRestOK
      <4>2. CASE op # Nothing
        <5>1. OpOK(op)
          BY <4>2 DEF TreeInv, TreeTypes
        <5>2. op.at \in {"touch", "commit"} => p \notin Tree!Files
          BY <1>1, <2>1, <4>2
        <5> QED
          BY <5>1, <5>2, OpFacts DEF Dirty
      <4> QED
        BY <4>1, <4>2
    <3> QED
      BY <3>1, <3>2, <1>1 DEF TreeInv, LedgerOK, FileOK
  <2> QED
    BY <2>1, <1>1, AtRestOK DEF LedgerOK, FileOK
<1>8. RevsOK' /\ EdgesOK'
  BY <1>1, <1>2, <1>3 DEF TreeInv, RevsOK, Ordered, EdgesOK
<1>9. IndexOK'
  <2>1. \A p : ~ToldOf(changes, saved.rev, p)
    BY NumbersTyped DEF TreeInv, RevsOK, ToldOf
  <2> QED
    BY <1>1, <1>3, <2>1, AtRestOK DEF IndexOK, LeafOK
<1>10. CkptOK'
  BY <1>1, AtRestOK DEF CkptOK, EditOK, Restored, Tree!NoEdits
<1> QED
  BY <1>6, <1>7, <1>8, <1>9, <1>10 DEF TreeInv

LEMMA TreeStep ==
  ASSUME TreeInv, TreeAssumptions, [Tree!Next]_Tree!treeVars
  PROVE  TreeInv'
<1>0. Tree!Maybe(Contents) = Texts
  BY DEF Tree!Maybe, Texts
<1>1. CASE UNCHANGED Tree!treeVars
  BY <1>1 DEF Tree!treeVars, TreeInv, TreeTypes, DiskTypes, IndexTypes, LedgerOK, RevsOK, Ordered, IndexOK, EdgesOK, CkptOK
<1>2. CASE \E kind \in {"create", "replace", "delete", "move"}, p, q \in Paths, c \in Tree!Maybe(Contents) :
             Tree!Start(kind, p, q, c)
  BY <1>0, <1>2, StartStep
<1>3. CASE \E p \in Paths, c \in Contents : Tree!ChangeApply(p, c)
  BY <1>3, ApplyStep
<1>4. CASE \E p, q \in Paths, c \in Contents : p # q /\ Tree!Transaction(<<p, q>>, c)
  BY <1>4, TransactionStep
<1>5. CASE \E p \in Paths : Tree!FsRead(p)
  BY <1>5, ReadStep
<1>6. CASE Tree!Touch
  BY <1>6, TouchStep
<1>7. CASE Tree!JournalEdit
  BY <1>7, JournalStep
<1>8. CASE Tree!AfterEdit
  BY <1>8, RefreshStep DEF Tree!AfterEdit
<1>9. CASE Tree!Query
  BY <1>9, RefreshStep DEF Tree!Query, Tree!AtRest
<1>10. CASE Tree!Restart
  BY <1>10, RestartStep
<1>11. CASE \E ok \in BOOLEAN : Tree!Commit(ok)
  BY <1>11, CommitStep
<1>12. CASE \E ok \in BOOLEAN : Tree!Emit(ok)
  BY <1>12, EmitStep
<1>13. CASE \E p \in Paths, c \in Tree!Maybe(Contents) : Tree!Shell(p, c)
  BY <1>0, <1>13, ShellStep
<1> QED
  BY <1>1, <1>2, <1>3, <1>4, <1>5, <1>6, <1>7, <1>8, <1>9, <1>10, <1>11, <1>12, <1>13 DEF Tree!Next

\* The worktree of a run (workspace/lib.rs, scheduler.rs, retrieval/task_index.rs), for any
\* files, contents, imports, writes of commands, failed calls and crashes: the ledger names
\* what is on disk, no revision is given twice, the index has the files and no import
\* beyond those a cold build would find, and a checkpoint rebuilds what change.apply wrote.
THEOREM WorktreeIsFaithful ==
  TreeAssumptions => (Tree!TreeSpec => [](/\ Tree!LedgerNames /\ Tree!RevisionsAreFresh /\ Tree!LeavesAreCold
                                          /\ Tree!EdgesAreCold /\ Tree!CheckpointRestores))
<1> SUFFICES ASSUME TreeAssumptions
             PROVE  Tree!TreeSpec => [](/\ Tree!LedgerNames /\ Tree!RevisionsAreFresh /\ Tree!LeavesAreCold
                                        /\ Tree!EdgesAreCold /\ Tree!CheckpointRestores)
  OBVIOUS
<1>1. Tree!Init => TreeInv
  BY TreeStart
<1>2. TreeInv /\ [Tree!Next]_Tree!treeVars => TreeInv'
  BY TreeStep
<1>3. TreeInv => /\ Tree!LedgerNames /\ Tree!RevisionsAreFresh /\ Tree!LeavesAreCold
                 /\ Tree!EdgesAreCold /\ Tree!CheckpointRestores
  BY TreeInvImplies
<1> QED
  BY <1>1, <1>2, <1>3, PTL DEF Tree!TreeSpec

-----------------------------------------------------------------------------
(***************************************************************************)
(* The stream of a model invocation.  What stands in the two channels, one *)
(* behind the other, carries the frames of the last attempt that the run   *)
(* has not consumed yet, each once and in order; and while no frame was    *)
(* delivered, which is when the supervisor may retry, none is on its way   *)
(* out either.                                                             *)
(***************************************************************************)
CONSTANTS MaxAttempts, MaxFrames, MaxToolCalls

VARIABLES provider, io, sent, inbox, sup, token, outbox, parsed, answer, stop

Strm == INSTANCE ModelStream WITH MaxCalls <- MaxToolCalls, events <- parsed

FrameKinds == {"text", "finish", "usage", "done", "open", "args"}
SseFrames == [a : Nat, n : Nat, k : FrameKinds, i : {0} \cup (1..MaxToolCalls)]
StreamErrors == {"timeout", "busy", "refused", "interrupted", "cancelled"}
StreamItems == [t : {"usage", "eof"}] \cup [t : {"error"}, e : StreamErrors] \cup [t : {"data"}, f : SseFrames]
ParsedEvents == [e : {"fragment"}, f : SseFrames, id : BOOLEAN] \cup [e : {"usage", "completed", "delta"}, f : SseFrames]

\* The items of the channel o, then those of the channel b.
Pipe(o, b) == [i \in 1..(Len(o) + Len(b)) |-> IF i <= Len(o) THEN o[i] ELSE b[i - Len(o)]]

\* The data of q are frames of the attempt a behind the first e, none beyond m, in order and without a gap.
InOrder(q, e, a, m) ==
  \A i \in 1..Len(q) : q[i].t = "data" =>
    /\ q[i].f.a = a /\ e < q[i].f.n /\ q[i].f.n <= m
    /\ q[i].f.n = e + 1 \/ \E j \in 1..Len(q) : j < i /\ q[j].t = "data" /\ q[j].f.n + 1 = q[i].f.n
    /\ \A j \in 1..Len(q) : j < i /\ q[j].t = "data" => q[j].f.n < q[i].f.n

\* The last frame that was sent is the last one of q, or was consumed.
Reached(q, e, m) == e <= m /\ (e = m \/ \E i \in 1..Len(q) : q[i].t = "data" /\ q[i].f.n = m)

NoData(q) == \A i \in 1..Len(q) : q[i].t # "data"

SentOf(s) == IF s = <<>> THEN 0 ELSE Len(s[Len(s)])

StreamTypes ==
  /\ provider \in {"openai", "anthropic"}
  /\ sent \in Seq(Seq(SseFrames)) /\ inbox \in Seq(StreamItems) /\ outbox \in Seq(StreamItems)
  /\ parsed \in Seq(ParsedEvents)
  /\ sup \in [at : {"idle", "forwarding", "backoff", "ended"}, first : BOOLEAN]
  /\ io \in {"idle", "connecting", "streaming", "ended"}

SupervisorOK ==
  /\ sup.at = "idle" <=> sent = <<>>
  /\ sup.at \in {"idle", "backoff"} => ~sup.first /\ inbox = <<>>
  /\ ~sup.first => parsed = <<>> /\ NoData(outbox)
  /\ io \in {"connecting", "streaming"} => sup.at = "forwarding"

FlowOK ==
  /\ InOrder(Pipe(outbox, inbox), Len(parsed), Len(sent), SentOf(sent))
  /\ io \in {"connecting", "streaming"} => Reached(Pipe(outbox, inbox), Len(parsed), SentOf(sent))

StreamInv == StreamTypes /\ SupervisorOK /\ FlowOK /\ Strm!NothingReplayed

-----------------------------------------------------------------------------
LEMMA ItemTypes ==
  ASSUME NEW q \in Seq(StreamItems), NEW i \in 1..Len(q)
  PROVE  q[i] \in StreamItems /\ (q[i].t = "data" => q[i].f \in SseFrames /\ q[i].f.n \in Nat /\ q[i].f.a \in Nat)
<1>1. q[i] \in StreamItems
  OBVIOUS
<1>2. q[i].t = "data" => q[i] \in [t : {"data"}, f : SseFrames]
  BY <1>1 DEF StreamItems
<1>3. q[i].t = "data" => q[i].f \in SseFrames
  BY <1>2
<1> QED
  BY <1>1, <1>3 DEF SseFrames

Joins(q, o, b) ==
  /\ q \in Seq(StreamItems) /\ Len(q) = Len(o) + Len(b)
  /\ \A i \in 1..Len(o) : q[i] = o[i]
  /\ \A i \in 1..Len(b) : q[Len(o) + i] = b[i]

LEMMA PipeFacts ==
  ASSUME NEW o \in Seq(StreamItems), NEW b \in Seq(StreamItems) PROVE Joins(Pipe(o, b), o, b)
<1> PICK q : q = Pipe(o, b)
  OBVIOUS
<1>1. Len(o) \in Nat /\ Len(b) \in Nat /\ Len(o) + Len(b) \in Nat
  OBVIOUS
<1>2. \A i \in 1..(Len(o) + Len(b)) : (IF i <= Len(o) THEN o[i] ELSE b[i - Len(o)]) \in StreamItems
  <2> TAKE i \in 1..(Len(o) + Len(b))
  <2>1. CASE i <= Len(o)
    BY <2>1, <1>1
  <2>2. CASE ~(i <= Len(o))
    <3>1. i - Len(o) \in 1..Len(b)
      BY <2>2, <1>1
    <3> QED
      BY <3>1, <2>2
  <2> QED
    BY <2>1, <2>2
<1>3. q \in [1..(Len(o) + Len(b)) -> StreamItems]
  BY <1>2 DEF Pipe
<1>4. q \in Seq(StreamItems) /\ Len(q) = Len(o) + Len(b)
  BY <1>1, <1>3
<1>5. \A i \in 1..Len(o) : q[i] = o[i]
  BY <1>1 DEF Pipe
<1>6. ASSUME NEW i \in 1..Len(b) PROVE q[Len(o) + i] = b[i]
  <2>1. Len(o) + i \in 1..(Len(o) + Len(b)) /\ ~(Len(o) + i <= Len(o)) /\ (Len(o) + i) - Len(o) = i
    BY <1>1
  <2> QED
    BY <2>1 DEF Pipe
<1> QED
  BY <1>4, <1>5, <1>6 DEF Joins

LEMMA SameSeq ==
  ASSUME NEW p \in Seq(StreamItems), NEW q \in Seq(StreamItems), Len(p) = Len(q), \A i \in 1..Len(p) : p[i] = q[i]
  PROVE  p = q
OBVIOUS

LEMMA AppendFacts ==
  ASSUME NEW q \in Seq(StreamItems), NEW x \in StreamItems
  PROVE  /\ Append(q, x) \in Seq(StreamItems) /\ Len(Append(q, x)) = Len(q) + 1 /\ Append(q, x)[Len(q) + 1] = x
         /\ \A i \in 1..Len(q) : Append(q, x)[i] = q[i]
OBVIOUS

LEMMA TailFacts ==
  ASSUME NEW q \in Seq(StreamItems), q # <<>>, NEW r, r = Tail(q)
  PROVE  /\ r \in Seq(StreamItems) /\ Len(r) = Len(q) - 1 /\ Len(q) \in Nat /\ 1 \in 1..Len(q)
         /\ \A i \in 1..Len(r) : r[i] = q[i + 1] /\ i + 1 \in 1..Len(q)
         /\ \A i \in 1..Len(q) : i = 1 \/ (i - 1 \in 1..Len(r) /\ r[i - 1] = q[i])
<1>1. r \in Seq(StreamItems) /\ Len(r) = Len(q) - 1 /\ Len(q) \in Nat /\ Len(q) >= 1 /\ \A i \in 1..Len(r) : r[i] = q[i + 1]
  OBVIOUS
<1>2. ASSUME NEW i \in 1..Len(q), i # 1 PROVE i - 1 \in 1..Len(r) /\ r[i - 1] = q[i]
  <2>1. i - 1 \in 1..Len(r) /\ (i - 1) + 1 = i
    BY <1>1, <1>2
  <2> QED
    BY <2>1, <1>1
<1>3. \A i \in 1..Len(r) : i + 1 \in 1..Len(q)
  BY <1>1
<1> QED
  BY <1>1, <1>2, <1>3

LEMMA PipeGrows ==
  ASSUME NEW o \in Seq(StreamItems), NEW b \in Seq(StreamItems), NEW x \in StreamItems
  PROVE  Pipe(o, Append(b, x)) = Append(Pipe(o, b), x)
<1> PICK c : c = Append(b, x)
  OBVIOUS
<1> PICK q : q = Pipe(o, b)
  OBVIOUS
<1> PICK r : r = Pipe(o, c)
  OBVIOUS
<1>1. c \in Seq(StreamItems) /\ Len(c) = Len(b) + 1 /\ c[Len(b) + 1] = x /\ \A i \in 1..Len(b) : c[i] = b[i]
  OBVIOUS
<1>0. Joins(q, o, b) /\ Joins(r, o, c)
  BY <1>1, PipeFacts
<1>2. /\ q \in Seq(StreamItems) /\ Len(q) = Len(o) + Len(b)
      /\ (\A i \in 1..Len(o) : q[i] = o[i]) /\ (\A i \in 1..Len(b) : q[Len(o) + i] = b[i])
  BY <1>0 DEF Joins
<1>3. /\ r \in Seq(StreamItems) /\ Len(r) = Len(o) + Len(c)
      /\ (\A i \in 1..Len(o) : r[i] = o[i]) /\ (\A i \in 1..Len(c) : r[Len(o) + i] = c[i])
  BY <1>0 DEF Joins
<1>4. Len(o) \in Nat /\ Len(b) \in Nat
  OBVIOUS
<1>5. ASSUME NEW i \in 1..Len(q) PROVE r[i] = q[i]
  <2>1. CASE i \in 1..Len(o)
    BY <2>1, <1>2, <1>3
  <2>2. CASE i \notin 1..Len(o)
    <3> PICK j : j = i - Len(o)
      OBVIOUS
    <3>1. j \in 1..Len(b) /\ j \in 1..Len(c) /\ Len(o) + j = i
      BY <1>1, <1>2, <1>4, <2>2
    <3>2. r[Len(o) + j] = c[j] /\ q[Len(o) + j] = b[j] /\ c[j] = b[j]
      BY <3>1, <1>1, <1>2, <1>3
    <3> QED
      BY <3>1, <3>2
  <2> QED
    BY <2>1, <2>2
<1>6. Len(b) + 1 \in 1..Len(c) /\ Len(o) + (Len(b) + 1) = Len(q) + 1 /\ Len(r) = Len(q) + 1
  BY <1>1, <1>2, <1>3, <1>4
<1>7. r[Len(q) + 1] = x
  BY <1>1, <1>3, <1>6
<1>8. r = Append(q, x)
  <2>1. Append(q, x) \in Seq(StreamItems) /\ Len(Append(q, x)) = Len(q) + 1 /\ Append(q, x)[Len(q) + 1] = x
        /\ \A i \in 1..Len(q) : Append(q, x)[i] = q[i]
    BY <1>2, AppendFacts
  <2>2. \A i \in 1..Len(r) : i \in 1..Len(q) \/ i = Len(q) + 1
    <3>1. Len(q) \in Nat
      BY <1>2
    <3> QED
      BY <3>1, <1>6
  <2> QED
    BY <1>3, <1>5, <1>6, <1>7, <2>1, <2>2, SameSeq
<1> QED
  BY <1>8

LEMMA PipeGrowsTwice ==
  ASSUME NEW o \in Seq(StreamItems), NEW b \in Seq(StreamItems), NEW u \in StreamItems, NEW x \in StreamItems
  PROVE  Pipe(o, Append(Append(b, u), x)) = Append(Append(Pipe(o, b), u), x)
<1>1. Append(b, u) \in Seq(StreamItems)
  BY AppendFacts
<1>2. \A c \in Seq(StreamItems) : Pipe(o, Append(c, x)) = Append(Pipe(o, c), x)
  BY PipeGrows
<1>3. Pipe(o, Append(Append(b, u), x)) = Append(Pipe(o, Append(b, u)), x)
  BY <1>1, <1>2
<1>4. Pipe(o, Append(b, u)) = Append(Pipe(o, b), u)
  BY PipeGrows
<1> QED
  BY <1>3, <1>4

LEMMA PipePasses ==
  ASSUME NEW o \in Seq(StreamItems), NEW b \in Seq(StreamItems), b # <<>>
  PROVE  Pipe(Append(o, Head(b)), Tail(b)) = Pipe(o, b)
<1> PICK x : x = Head(b)
  OBVIOUS
<1> PICK u : u = Append(o, x)
  OBVIOUS
<1> PICK v : v = Tail(b)
  OBVIOUS
<1> PICK q : q = Pipe(o, b)
  OBVIOUS
<1> PICK r : r = Pipe(u, v)
  OBVIOUS
<1>1. /\ x \in StreamItems /\ x = b[1] /\ Len(b) \in Nat /\ Len(b) >= 1 /\ Len(o) \in Nat
      /\ u \in Seq(StreamItems) /\ Len(u) = Len(o) + 1 /\ u[Len(o) + 1] = x /\ (\A i \in 1..Len(o) : u[i] = o[i])
      /\ v \in Seq(StreamItems) /\ Len(v) = Len(b) - 1 /\ (\A i \in 1..Len(v) : v[i] = b[i + 1])
  OBVIOUS
<1>2. /\ q \in Seq(StreamItems) /\ Len(q) = Len(o) + Len(b)
      /\ (\A i \in 1..Len(o) : q[i] = o[i]) /\ (\A i \in 1..Len(b) : q[Len(o) + i] = b[i])
  <2>1. Joins(q, o, b)
    BY PipeFacts
  <2> QED
    BY <2>1 DEF Joins
<1>3. /\ r \in Seq(StreamItems) /\ Len(r) = Len(u) + Len(v)
      /\ (\A i \in 1..Len(u) : r[i] = u[i]) /\ (\A i \in 1..Len(v) : r[Len(u) + i] = v[i])
  <2>1. Joins(r, u, v)
    BY <1>1, PipeFacts
  <2> QED
    BY <2>1 DEF Joins
<1>4. ASSUME NEW i \in 1..Len(q) PROVE r[i] = q[i]
  <2>1. CASE i \in 1..Len(o)
    <3>1. i \in 1..Len(u)
      BY <2>1, <1>1
    <3> QED
      BY <2>1, <3>1, <1>1, <1>2, <1>3
  <2>2. CASE i = Len(o) + 1
    <3>1. i \in 1..Len(u) /\ 1 \in 1..Len(b)
      BY <2>2, <1>1
    <3>2. q[i] = b[1] /\ r[i] = x
      BY <2>2, <3>1, <1>1, <1>2, <1>3
    <3> QED
      BY <3>2, <1>1
  <2>3. CASE i \notin 1..Len(o) /\ i # Len(o) + 1
    <3> PICK j : j = i - Len(u)
      OBVIOUS
    <3>1. j \in 1..Len(v) /\ Len(u) + j = i /\ j + 1 \in 1..Len(b) /\ Len(o) + (j + 1) = i
      BY <2>3, <1>1, <1>2
    <3>2. r[i] = v[j] /\ q[i] = b[j + 1]
      BY <3>1, <1>2, <1>3
    <3> QED
      BY <3>1, <3>2, <1>1
  <2> QED
    BY <2>1, <2>2, <2>3
<1>5. Len(r) = Len(q)
  BY <1>1, <1>2, <1>3
<1>6. r = q
  BY <1>2, <1>3, <1>4, <1>5, SameSeq
<1> QED
  BY <1>6

LEMMA PipeYields ==
  ASSUME NEW o \in Seq(StreamItems), NEW b \in Seq(StreamItems), o # <<>>
  PROVE  /\ Pipe(Tail(o), b) = Tail(Pipe(o, b)) /\ Pipe(o, b)[1] = Head(o) /\ Pipe(o, b) # <<>>
         /\ Pipe(o, b) \in Seq(StreamItems)
<1> PICK u : u = Tail(o)
  OBVIOUS
<1> PICK q : q = Pipe(o, b)
  OBVIOUS
<1> PICK r : r = Pipe(u, b)
  OBVIOUS
<1>1. /\ Len(b) \in Nat /\ Len(o) \in Nat /\ Len(o) >= 1 /\ Head(o) = o[1]
      /\ u \in Seq(StreamItems) /\ Len(u) = Len(o) - 1 /\ (\A i \in 1..Len(u) : u[i] = o[i + 1])
  OBVIOUS
<1>2. /\ q \in Seq(StreamItems) /\ Len(q) = Len(o) + Len(b)
      /\ (\A i \in 1..Len(o) : q[i] = o[i]) /\ (\A i \in 1..Len(b) : q[Len(o) + i] = b[i])
  <2>1. Joins(q, o, b)
    BY PipeFacts
  <2> QED
    BY <2>1 DEF Joins
<1>3. /\ r \in Seq(StreamItems) /\ Len(r) = Len(u) + Len(b)
      /\ (\A i \in 1..Len(u) : r[i] = u[i]) /\ (\A i \in 1..Len(b) : r[Len(u) + i] = b[i])
  <2>1. Joins(r, u, b)
    BY <1>1, PipeFacts
  <2> QED
    BY <2>1 DEF Joins
<1>4. q # <<>> /\ Tail(q) \in Seq(StreamItems) /\ Len(Tail(q)) = Len(q) - 1 /\ \A i \in 1..Len(Tail(q)) : Tail(q)[i] = q[i + 1]
  <2>1. Len(q) # 0
    BY <1>1, <1>2
  <2>2. q # <<>>
    BY <2>1
  <2> QED
    BY <1>2, <2>2, TailFacts
<1>5. ASSUME NEW i \in 1..Len(r) PROVE r[i] = q[i + 1]
  <2>1. CASE i \in 1..Len(u)
    <3>1. i + 1 \in 1..Len(o)
      BY <2>1, <1>1
    <3> QED
      BY <2>1, <3>1, <1>1, <1>2, <1>3
  <2>2. CASE i \notin 1..Len(u)
    <3> PICK j : j = i - Len(u)
      OBVIOUS
    <3>1. j \in 1..Len(b) /\ Len(u) + j = i /\ Len(o) + j = i + 1
      BY <2>2, <1>1, <1>3
    <3>2. r[i] = b[j] /\ q[i + 1] = b[j]
      BY <3>1, <1>2, <1>3
    <3> QED
      BY <3>2
  <2> QED
    BY <2>1, <2>2
<1>6. Len(r) = Len(Tail(q)) /\ \A i \in 1..Len(r) : r[i] = Tail(q)[i]
  BY <1>1, <1>2, <1>3, <1>4, <1>5
<1>7. r = Tail(q)
  BY <1>3, <1>4, <1>6, SameSeq
<1>8. q[1] = Head(o)
  BY <1>1, <1>2
<1> QED
  BY <1>2, <1>4, <1>7, <1>8

\* An item that is no frame changes nothing about the order.
LEMMA OrderOther ==
  ASSUME NEW q \in Seq(StreamItems), NEW x \in StreamItems, x.t # "data", NEW e, NEW a, NEW m, InOrder(q, e, a, m)
  PROVE  InOrder(Append(q, x), e, a, m) /\ (Reached(q, e, m) => Reached(Append(q, x), e, m))
<1> PICK r : r = Append(q, x)
  OBVIOUS
<1>1. Len(r) = Len(q) + 1 /\ Len(q) \in Nat /\ r[Len(q) + 1] = x /\ \A i \in 1..Len(q) : r[i] = q[i] /\ i \in 1..Len(r)
  OBVIOUS
<1>2. \A i \in 1..Len(r) : r[i].t = "data" => i \in 1..Len(q)
  BY <1>1
<1>3. InOrder(r, e, a, m)
  <2> SUFFICES ASSUME NEW i \in 1..Len(r), r[i].t = "data"
               PROVE  /\ r[i].f.a = a /\ e < r[i].f.n /\ r[i].f.n <= m
                      /\ r[i].f.n = e + 1 \/ \E j \in 1..Len(r) : j < i /\ r[j].t = "data" /\ r[j].f.n + 1 = r[i].f.n
                      /\ \A j \in 1..Len(r) : j < i /\ r[j].t = "data" => r[j].f.n < r[i].f.n
    BY DEF InOrder
  <2>1. i \in 1..Len(q) /\ r[i] = q[i] /\ q[i].t = "data"
    BY <1>1, <1>2
  <2>2. /\ q[i].f.a = a /\ e < q[i].f.n /\ q[i].f.n <= m
        /\ q[i].f.n = e + 1 \/ \E j \in 1..Len(q) : j < i /\ q[j].t = "data" /\ q[j].f.n + 1 = q[i].f.n
        /\ \A j \in 1..Len(q) : j < i /\ q[j].t = "data" => q[j].f.n < q[i].f.n
    BY <2>1 DEF InOrder
  <2>3. \A j \in 1..Len(r) : j < i /\ r[j].t = "data" => r[j].f.n < r[i].f.n
    BY <1>1, <1>2, <2>1, <2>2
  <2> QED
    BY <1>1, <2>1, <2>2, <2>3
<1>4. Reached(q, e, m) => Reached(r, e, m)
  BY <1>1 DEF Reached
<1> QED
  BY <1>3, <1>4

\* The next frame is appended.
LEMMA OrderFrame ==
  ASSUME NEW q \in Seq(StreamItems), NEW x \in StreamItems, x.t = "data", NEW e \in Nat, NEW a, NEW m \in Nat,
         x.f.a = a, x.f.n = m + 1, InOrder(q, e, a, m), Reached(q, e, m)
  PROVE  InOrder(Append(q, x), e, a, m + 1) /\ Reached(Append(q, x), e, m + 1)
<1> PICK r : r = Append(q, x)
  OBVIOUS
<1>1. Len(r) = Len(q) + 1 /\ Len(q) \in Nat /\ r[Len(q) + 1] = x /\ \A i \in 1..Len(q) : r[i] = q[i] /\ i \in 1..Len(r)
  OBVIOUS
<1>2. \A i \in 1..Len(r) : i \in 1..Len(q) \/ i = Len(q) + 1
  BY <1>1
<1>3. \A i \in 1..Len(q) : q[i].t = "data" => q[i].f.n \in Nat /\ q[i].f.n <= m /\ e < q[i].f.n /\ q[i].f.a = a
  BY ItemTypes DEF InOrder
<1>4. e <= m
  BY DEF Reached
<1>5. InOrder(r, e, a, m + 1)
  <2> SUFFICES ASSUME NEW i \in 1..Len(r), r[i].t = "data"
               PROVE  /\ r[i].f.a = a /\ e < r[i].f.n /\ r[i].f.n <= m + 1
                      /\ r[i].f.n = e + 1 \/ \E j \in 1..Len(r) : j < i /\ r[j].t = "data" /\ r[j].f.n + 1 = r[i].f.n
                      /\ \A j \in 1..Len(r) : j < i /\ r[j].t = "data" => r[j].f.n < r[i].f.n
    BY DEF InOrder
  <2>1. CASE i \in 1..Len(q)
    <3>1. r[i] = q[i] /\ q[i].t = "data" /\ \A j \in 1..Len(r) : j < i => j \in 1..Len(q) /\ r[j] = q[j]
      BY <1>1, <1>2, <2>1
    <3>2. /\ q[i].f.n = e + 1 \/ \E j \in 1..Len(q) : j < i /\ q[j].t = "data" /\ q[j].f.n + 1 = q[i].f.n
          /\ \A j \in 1..Len(q) : j < i /\ q[j].t = "data" => q[j].f.n < q[i].f.n
      BY <3>1, <2>1 DEF InOrder
    <3>3. q[i].f.a = a /\ e < q[i].f.n /\ q[i].f.n <= m + 1
      BY <1>3, <2>1, <3>1
    <3> QED
      BY <1>1, <3>1, <3>2, <3>3
  <2>2. CASE i = Len(q) + 1
    <3>1. r[i] = x
      BY <1>1, <2>2
    <3>2. r[i].f.a = a /\ e < r[i].f.n /\ r[i].f.n <= m + 1
      BY <3>1, <1>4
    <3>3. ASSUME NEW j \in 1..Len(r), j < i, r[j].t = "data" PROVE r[j].f.n < r[i].f.n
      <4>1. j \in 1..Len(q) /\ r[j] = q[j]
        BY <3>3, <2>2, <1>1, <1>2
      <4> QED
        BY <4>1, <3>1, <3>3, <1>3
    <3>4. r[i].f.n = e + 1 \/ \E j \in 1..Len(r) : j < i /\ r[j].t = "data" /\ r[j].f.n + 1 = r[i].f.n
      <4>1. CASE e = m
        BY <4>1, <3>1
      <4>2. CASE e # m
        <5>1. PICK j \in 1..Len(q) : q[j].t = "data" /\ q[j].f.n = m
          BY <4>2 DEF Reached
        <5>2. j \in 1..Len(r) /\ j < i /\ r[j] = q[j]
          BY <1>1, <2>2
        <5> QED
          BY <5>1, <5>2, <3>1
      <4> QED
        BY <4>1, <4>2
    <3> QED
      BY <3>2, <3>3, <3>4
  <2> QED
    BY <1>2, <2>1, <2>2
<1>6. Reached(r, e, m + 1)
  <2>1. Len(q) + 1 \in 1..Len(r)
    BY <1>1
  <2> QED
    BY <1>1, <1>4, <2>1 DEF Reached
<1> QED
  BY <1>5, <1>6

\* The first item is taken: no frame ...
LEMMA OrderSkips ==
  ASSUME NEW q \in Seq(StreamItems), q # <<>>, q[1].t # "data", NEW e, NEW a, NEW m, InOrder(q, e, a, m)
  PROVE  InOrder(Tail(q), e, a, m) /\ (Reached(q, e, m) => Reached(Tail(q), e, m))
<1> PICK r : r = Tail(q)
  OBVIOUS
<1>1. /\ Len(r) = Len(q) - 1 /\ Len(q) \in Nat
      /\ (\A i \in 1..Len(r) : r[i] = q[i + 1] /\ i + 1 \in 1..Len(q))
      /\ (\A i \in 1..Len(q) : i = 1 \/ (i - 1 \in 1..Len(r) /\ r[i - 1] = q[i]))
  BY TailFacts
<1>2. InOrder(r, e, a, m)
  <2> SUFFICES ASSUME NEW i \in 1..Len(r), r[i].t = "data"
               PROVE  /\ r[i].f.a = a /\ e < r[i].f.n /\ r[i].f.n <= m
                      /\ r[i].f.n = e + 1 \/ \E j \in 1..Len(r) : j < i /\ r[j].t = "data" /\ r[j].f.n + 1 = r[i].f.n
                      /\ \A j \in 1..Len(r) : j < i /\ r[j].t = "data" => r[j].f.n < r[i].f.n
    BY DEF InOrder
  <2> PICK k : k = i + 1
    OBVIOUS
  <2>1. k \in 1..Len(q) /\ r[i] = q[k]
    BY <1>1
  <2>2. /\ q[k].f.a = a /\ e < q[k].f.n /\ q[k].f.n <= m
        /\ q[k].f.n = e + 1 \/ \E j \in 1..Len(q) : j < k /\ q[j].t = "data" /\ q[j].f.n + 1 = q[k].f.n
        /\ \A j \in 1..Len(q) : j < k /\ q[j].t = "data" => q[j].f.n < q[k].f.n
    BY <2>1 DEF InOrder
  <2>3. ASSUME NEW j \in 1..Len(q), j < k, q[j].t = "data", q[j].f.n + 1 = q[k].f.n
        PROVE  \E l \in 1..Len(r) : l < i /\ r[l].t = "data" /\ r[l].f.n + 1 = r[i].f.n
    <3> PICK l : l = j - 1
      OBVIOUS
    <3>1. l \in 1..Len(r) /\ r[l] = q[j] /\ l < i
      BY <1>1, <2>3
    <3> QED
      BY <3>1, <2>1, <2>3
  <2>4. ASSUME NEW j \in 1..Len(r), j < i, r[j].t = "data" PROVE r[j].f.n < r[i].f.n
    <3> PICK l : l = j + 1
      OBVIOUS
    <3>1. l \in 1..Len(q) /\ r[j] = q[l] /\ l < k
      BY <1>1, <2>4
    <3> QED
      BY <3>1, <2>1, <2>2, <2>4
  <2> QED
    BY <2>1, <2>2, <2>3, <2>4
<1>3. Reached(q, e, m) => Reached(r, e, m)
  <2>1. ASSUME NEW i \in 1..Len(q), q[i].t = "data", q[i].f.n = m
        PROVE  \E j \in 1..Len(r) : r[j].t = "data" /\ r[j].f.n = m
    <3>1. i - 1 \in 1..Len(r) /\ r[i - 1] = q[i]
      BY <1>1, <2>1
    <3> QED
      BY <3>1, <2>1
  <2> QED
    BY <2>1 DEF Reached
<1> QED
  BY <1>2, <1>3

\* ... or the next one the run has to consume.
LEMMA OrderYields ==
  ASSUME NEW q \in Seq(StreamItems), q # <<>>, q[1].t = "data", NEW e \in Nat, NEW a, NEW m \in Nat, InOrder(q, e, a, m)
  PROVE  /\ q[1].f.a = a /\ q[1].f.n = e + 1
         /\ InOrder(Tail(q), e + 1, a, m) /\ (Reached(q, e, m) => Reached(Tail(q), e + 1, m))
<1> PICK r : r = Tail(q)
  OBVIOUS
<1>1. /\ Len(r) = Len(q) - 1 /\ Len(q) \in Nat /\ 1 \in 1..Len(q)
      /\ (\A i \in 1..Len(r) : r[i] = q[i + 1] /\ i + 1 \in 1..Len(q))
      /\ (\A i \in 1..Len(q) : i = 1 \/ (i - 1 \in 1..Len(r) /\ r[i - 1] = q[i]))
  BY TailFacts
<1>2. q[1].f.a = a /\ q[1].f.n = e + 1 /\ q[1].f.n <= m
  <2>1. \A j \in 1..Len(q) : ~(j < 1)
    BY <1>1
  <2> QED
    BY <1>1, <2>1 DEF InOrder
<1>3. InOrder(r, e + 1, a, m)
  <2> SUFFICES ASSUME NEW i \in 1..Len(r), r[i].t = "data"
               PROVE  /\ r[i].f.a = a /\ e + 1 < r[i].f.n /\ r[i].f.n <= m
                      /\ r[i].f.n = (e + 1) + 1 \/ \E j \in 1..Len(r) : j < i /\ r[j].t = "data" /\ r[j].f.n + 1 = r[i].f.n
                      /\ \A j \in 1..Len(r) : j < i /\ r[j].t = "data" => r[j].f.n < r[i].f.n
    BY DEF InOrder
  <2> PICK k : k = i + 1
    OBVIOUS
  <2>1. k \in 1..Len(q) /\ r[i] = q[k] /\ 1 < k
    BY <1>1
  <2>2. /\ q[k].f.a = a /\ e < q[k].f.n /\ q[k].f.n <= m
        /\ q[k].f.n = e + 1 \/ \E j \in 1..Len(q) : j < k /\ q[j].t = "data" /\ q[j].f.n + 1 = q[k].f.n
        /\ \A j \in 1..Len(q) : j < k /\ q[j].t = "data" => q[j].f.n < q[k].f.n
    BY <2>1 DEF InOrder
  <2>3. e + 1 < q[k].f.n /\ q[k].f.n \in Nat
    BY <1>1, <1>2, <2>1, <2>2, ItemTypes
  <2>4. ASSUME NEW j \in 1..Len(q), j < k, q[j].t = "data", q[j].f.n + 1 = q[k].f.n
        PROVE  \/ r[i].f.n = (e + 1) + 1
               \/ \E l \in 1..Len(r) : l < i /\ r[l].t = "data" /\ r[l].f.n + 1 = r[i].f.n
    <3>1. CASE j = 1
      BY <3>1, <1>2, <2>1, <2>4
    <3>2. CASE j # 1
      <4> PICK l : l = j - 1
        OBVIOUS
      <4>1. l \in 1..Len(r) /\ r[l] = q[j] /\ l < i
        BY <1>1, <2>4, <3>2
      <4> QED
        BY <4>1, <2>1, <2>4
    <3> QED
      BY <3>1, <3>2
  <2>5. ASSUME NEW j \in 1..Len(r), j < i, r[j].t = "data" PROVE r[j].f.n < r[i].f.n
    <3> PICK l : l = j + 1
      OBVIOUS
    <3>1. l \in 1..Len(q) /\ r[j] = q[l] /\ l < k
      BY <1>1, <2>5
    <3> QED
      BY <3>1, <2>1, <2>2, <2>5
  <2>6. q[k].f.n # e + 1
    BY <2>3
  <2> QED
    BY <2>1, <2>2, <2>3, <2>4, <2>5, <2>6
<1>4. Reached(q, e, m) => Reached(r, e + 1, m)
  <2> SUFFICES ASSUME Reached(q, e, m) PROVE Reached(r, e + 1, m)
    OBVIOUS
  <2>1. e + 1 <= m
    BY <1>2
  <2>2. PICK i \in 1..Len(q) : q[i].t = "data" /\ q[i].f.n = m
    BY <2>1 DEF Reached
  <2>3. CASE i = 1
    BY <2>1, <2>2, <2>3, <1>2 DEF Reached
  <2>4. CASE i # 1
    <3>1. i - 1 \in 1..Len(r) /\ r[i - 1] = q[i]
      BY <1>1, <2>4
    <3> QED
      BY <2>1, <2>2, <3>1 DEF Reached
  <2> QED
    BY <2>3, <2>4
<1> QED
  BY <1>2, <1>3, <1>4

LEMMA PipeAlone == ASSUME NEW o \in Seq(StreamItems) PROVE Pipe(o, <<>>) = o
<1> PICK r : r = Pipe(o, <<>>)
  OBVIOUS
<1>1. <<>> \in Seq(StreamItems)
  OBVIOUS
<1>2. Joins(r, o, <<>>)
  BY <1>1, PipeFacts
<1>3. r \in Seq(StreamItems) /\ Len(r) = Len(o) + Len(<<>>) /\ \A i \in 1..Len(o) : r[i] = o[i]
  BY <1>2 DEF Joins
<1>4. Len(r) = Len(o)
  BY <1>3
<1> QED
  BY <1>3, <1>4, SameSeq

\* The second channel is dropped.
LEMMA OrderCut ==
  ASSUME NEW o \in Seq(StreamItems), NEW b \in Seq(StreamItems), NEW e, NEW a, NEW m, InOrder(Pipe(o, b), e, a, m)
  PROVE  InOrder(o, e, a, m)
<1> PICK q : q = Pipe(o, b)
  OBVIOUS
<1>1. Len(q) = Len(o) + Len(b) /\ Len(o) \in Nat /\ Len(b) \in Nat /\ \A i \in 1..Len(o) : q[i] = o[i]
  <2>1. Joins(q, o, b)
    BY PipeFacts
  <2> QED
    BY <2>1 DEF Joins
<1>2. \A i \in 1..Len(o) : i \in 1..Len(q) /\ \A j \in 1..Len(q) : j < i => j \in 1..Len(o)
  BY <1>1
<1>3. InOrder(o, e, a, m)
  <2> SUFFICES ASSUME NEW i \in 1..Len(o), o[i].t = "data"
               PROVE  /\ o[i].f.a = a /\ e < o[i].f.n /\ o[i].f.n <= m
                      /\ o[i].f.n = e + 1 \/ \E j \in 1..Len(o) : j < i /\ o[j].t = "data" /\ o[j].f.n + 1 = o[i].f.n
                      /\ \A j \in 1..Len(o) : j < i /\ o[j].t = "data" => o[j].f.n < o[i].f.n
    BY DEF InOrder
  <2>1. i \in 1..Len(q) /\ q[i] = o[i]
    BY <1>1, <1>2
  <2>2. /\ q[i].f.a = a /\ e < q[i].f.n /\ q[i].f.n <= m
        /\ q[i].f.n = e + 1 \/ \E j \in 1..Len(q) : j < i /\ q[j].t = "data" /\ q[j].f.n + 1 = q[i].f.n
        /\ \A j \in 1..Len(q) : j < i /\ q[j].t = "data" => q[j].f.n < q[i].f.n
    BY <2>1 DEF InOrder
  <2> QED
    BY <1>1, <1>2, <2>1, <2>2
<1> QED
  BY <1>3

LEMMA StreamFacts ==
  ASSUME StreamInv
  PROVE  /\ outbox \in Seq(StreamItems) /\ inbox \in Seq(StreamItems) /\ Len(parsed) \in Nat /\ SentOf(sent) \in Nat
         /\ Pipe(outbox, inbox) \in Seq(StreamItems) /\ Len(sent) \in Nat
         /\ sup.first \in BOOLEAN /\ sup.at \in {"idle", "forwarding", "backoff", "ended"}
         /\ sup = [at |-> sup.at, first |-> sup.first]
<1>1. /\ outbox \in Seq(StreamItems) /\ inbox \in Seq(StreamItems) /\ Len(parsed) \in Nat /\ Len(sent) \in Nat
      /\ sent \in Seq(Seq(SseFrames)) /\ sup \in [at : {"idle", "forwarding", "backoff", "ended"}, first : BOOLEAN]
  BY DEF StreamInv, StreamTypes
<1>2. SentOf(sent) \in Nat
  <2>1. CASE sent = <<>>
    BY <2>1 DEF SentOf
  <2>2. CASE sent # <<>>
    <3>1. Len(sent) \in 1..Len(sent)
      BY <1>1, <2>2
    <3>2. sent[Len(sent)] \in Seq(SseFrames)
      BY <1>1, <3>1
    <3> QED
      BY <3>2, <2>2 DEF SentOf
  <2> QED
    BY <2>1, <2>2
<1>3. Pipe(outbox, inbox) \in Seq(StreamItems)
  BY <1>1, PipeFacts DEF Joins
<1> QED
  BY <1>1, <1>2, <1>3

\* Steps that touch neither what was sent nor what was consumed.
LEMMA StreamSame ==
  ASSUME StreamInv, UNCHANGED <<provider, sent, inbox, sup, outbox, parsed>>,
         io' = io \/ (io = "connecting" /\ io' = "streaming")
  PROVE  StreamInv'
<1>1. StreamTypes'
  BY DEF StreamInv, StreamTypes
<1>2. SupervisorOK'
  BY DEF StreamInv, SupervisorOK
<1>3. FlowOK'
  BY DEF StreamInv, FlowOK
<1>4. Strm!NothingReplayed'
  BY DEF StreamInv, Strm!NothingReplayed, Strm!Attempt
<1> QED
  BY <1>1, <1>2, <1>3, <1>4 DEF StreamInv

LEMMA AttemptStep == ASSUME StreamInv, Strm!StartAttempt PROVE StreamInv'
<1>1. /\ sup.at \in {"idle", "backoff"} /\ sup' = [at |-> "forwarding", first |-> FALSE] /\ io' = "connecting"
      /\ sent' = Append(sent, <<>>) /\ inbox' = <<>> /\ provider' = provider /\ outbox' = outbox /\ parsed' = parsed
  BY DEF Strm!StartAttempt
<1>2. /\ ~sup.first /\ inbox = <<>> /\ parsed = <<>> /\ NoData(outbox)
  BY <1>1 DEF StreamInv, SupervisorOK
<1>3. sent \in Seq(Seq(SseFrames)) /\ outbox \in Seq(StreamItems)
  BY DEF StreamInv, StreamTypes
<1>4. sent' \in Seq(Seq(SseFrames)) /\ sent' # <<>> /\ sent'[Len(sent')] = <<>>
  <2>1. <<>> \in Seq(SseFrames) /\ Len(sent) \in Nat
    BY <1>3
  <2>2. sent' \in Seq(Seq(SseFrames)) /\ Len(sent') = Len(sent) + 1 /\ sent'[Len(sent) + 1] = <<>>
    BY <1>1, <1>3, <2>1
  <2> QED
    BY <2>1, <2>2
<1>5. StreamTypes'
  <2>1. sup' \in [at : {"idle", "forwarding", "backoff", "ended"}, first : BOOLEAN] /\ inbox' \in Seq(StreamItems)
    BY <1>1
  <2> QED
    BY <1>1, <1>4, <2>1 DEF StreamInv, StreamTypes
<1>6. SupervisorOK'
  <2>1. sup'.at = "forwarding" /\ sup'.first = FALSE
    BY <1>1
  <2> QED
    BY <1>1, <1>2, <1>4, <2>1 DEF SupervisorOK, NoData
<1>7. FlowOK'
  <2>1. Pipe(outbox', inbox') = outbox
    <3>1. Pipe(outbox, <<>>) = outbox
      BY <1>3, PipeAlone
    <3> QED
      BY <1>1, <3>1
  <2>2. Len(parsed') = 0 /\ SentOf(sent') = 0
    BY <1>1, <1>2, <1>4 DEF SentOf
  <2>3. InOrder(outbox, 0, Len(sent'), 0) /\ Reached(outbox, 0, 0)
    BY <1>2 DEF InOrder, Reached, NoData
  <2> QED
    BY <2>1, <2>2, <2>3 DEF FlowOK
<1>8. Strm!NothingReplayed'
  <2>1. \A n \in DOMAIN parsed' : FALSE
    BY <1>1, <1>2
  <2> QED
    BY <2>1 DEF Strm!NothingReplayed
<1> QED
  BY <1>5, <1>6, <1>7, <1>8 DEF StreamInv

\* The attempt ends: an item that is no frame is the last of its channel.
LEMMA EndStep ==
  ASSUME StreamInv, NEW x, x \in StreamItems, x.t # "data", io \in {"connecting", "streaming"},
         Strm!EndIo(x), UNCHANGED <<provider, sent, sup, outbox, parsed>>
  PROVE  StreamInv'
<1>1. io' = "ended" /\ inbox' = Append(inbox, x)
  BY DEF Strm!EndIo
<1>2. outbox \in Seq(StreamItems) /\ inbox \in Seq(StreamItems) /\ Pipe(outbox, inbox) \in Seq(StreamItems)
  BY StreamFacts
<1>3. sup.at = "forwarding"
  BY DEF StreamInv, SupervisorOK
<1>4. StreamTypes'
  <2>1. inbox' \in Seq(StreamItems)
    BY <1>1, <1>2
  <2> QED
    BY <1>1, <2>1 DEF StreamInv, StreamTypes
<1>5. SupervisorOK'
  BY <1>1, <1>3 DEF StreamInv, SupervisorOK
<1>6. FlowOK'
  <2>1. Pipe(outbox, inbox') = Append(Pipe(outbox, inbox), x)
    BY <1>1, <1>2, PipeGrows
  <2>2. InOrder(Append(Pipe(outbox, inbox), x), Len(parsed), Len(sent), SentOf(sent))
    BY <1>2, OrderOther DEF StreamInv, FlowOK
  <2> QED
    BY <1>1, <2>1, <2>2 DEF FlowOK
<1>7. Strm!NothingReplayed'
  BY DEF StreamInv, Strm!NothingReplayed, Strm!Attempt
<1> QED
  BY <1>4, <1>5, <1>6, <1>7 DEF StreamInv

LEMMA EndItems ==
  /\ \A e \in StreamErrors : Strm!Error(e) \in StreamItems /\ Strm!Error(e).t # "data" /\ Strm!Error(e).e = e
  /\ Strm!Eof \in StreamItems /\ Strm!Eof.t # "data"
BY DEF Strm!Error, Strm!Eof, StreamItems

\* A frame x enters the channel b, perhaps behind the usage snapshot u.
Carries(b, u, x, c) == c = Append(b, x) \/ c = Append(Append(b, u), x)

LEMMA FlowFrame ==
  ASSUME NEW o \in Seq(StreamItems), NEW b \in Seq(StreamItems), NEW u \in StreamItems, NEW x \in StreamItems, NEW c,
         Carries(b, u, x, c), x.t = "data", u.t # "data", NEW e \in Nat, NEW a, NEW m \in Nat,
         x.f.a = a, x.f.n = m + 1, InOrder(Pipe(o, b), e, a, m), Reached(Pipe(o, b), e, m)
  PROVE  InOrder(Pipe(o, c), e, a, m + 1) /\ Reached(Pipe(o, c), e, m + 1)
<1> PICK q : q = Pipe(o, b)
  OBVIOUS
<1>1. q \in Seq(StreamItems) /\ InOrder(q, e, a, m) /\ Reached(q, e, m)
  BY PipeFacts DEF Joins
<1>2. CASE c = Append(b, x)
  <2>1. Pipe(o, c) = Append(q, x)
    BY <1>2, PipeGrows
  <2> QED
    BY <1>1, <2>1, OrderFrame
<1>3. CASE c = Append(Append(b, u), x)
  <2> PICK r : r = Append(q, u)
    OBVIOUS
  <2>1. Pipe(o, c) = Append(r, x)
    BY <1>3, PipeGrowsTwice
  <2>2. r \in Seq(StreamItems) /\ InOrder(r, e, a, m) /\ Reached(r, e, m)
    BY <1>1, AppendFacts, OrderOther
  <2> QED
    BY <2>1, <2>2, OrderFrame
<1> QED
  BY <1>2, <1>3 DEF Carries

LEMMA FrameStep ==
  ASSUME StreamInv, NEW k \in FrameKinds, NEW i \in {0} \cup (1..MaxToolCalls), Strm!Frame(k, i) PROVE StreamInv'
<1> PICK m : m = SentOf(sent)
  OBVIOUS
<1> PICK f : f = [a |-> Len(sent), n |-> m + 1, k |-> k, i |-> i]
  OBVIOUS
<1> PICK x : x = [t |-> "data", f |-> f]
  OBVIOUS
<1> PICK u : u = [t |-> "usage"]
  OBVIOUS
<1>0. io = "streaming" /\ sup.at = "forwarding" /\ sent # <<>>
  BY DEF Strm!Frame, StreamInv, SupervisorOK
<1>1. /\ outbox \in Seq(StreamItems) /\ inbox \in Seq(StreamItems) /\ Pipe(outbox, inbox) \in Seq(StreamItems)
      /\ m \in Nat /\ Len(sent) \in Nat /\ Len(parsed) \in Nat /\ sent \in Seq(Seq(SseFrames))
  BY StreamFacts DEF StreamInv, StreamTypes
<1>2. Strm!Frames = sent[Len(sent)] /\ Len(Strm!Frames) = m /\ Strm!Attempt = Len(sent)
  BY <1>0 DEF Strm!Frames, Strm!Attempt, SentOf
<1>3. /\ sent' = [sent EXCEPT ![Len(sent)] = Append(sent[Len(sent)], f)]
      /\ inbox' = Append(inbox, x) \/ inbox' = Append(Append(inbox, u), x)
      /\ UNCHANGED <<provider, io, sup, outbox, parsed>>
  BY <1>2 DEF Strm!Frame
<1>4. f \in SseFrames /\ x \in StreamItems /\ u \in StreamItems /\ x.t = "data" /\ u.t # "data" /\ x.f = f /\ f.a = Len(sent)
      /\ f.n = m + 1
  <2>1. f \in SseFrames /\ f.a = Len(sent) /\ f.n = m + 1
    BY <1>1 DEF SseFrames
  <2> QED
    BY <2>1 DEF StreamItems
<1>5. /\ sent' \in Seq(Seq(SseFrames)) /\ Len(sent') = Len(sent) /\ sent' # <<>>
      /\ SentOf(sent') = m + 1
  <2> PICK s : s = sent[Len(sent)]
    OBVIOUS
  <2> PICK h : h = Append(s, f)
    OBVIOUS
  <2>1. Len(sent) \in 1..Len(sent) /\ s \in Seq(SseFrames) /\ Len(s) = m
    <3>1. Len(sent) \in 1..Len(sent)
      BY <1>0, <1>1
    <3> QED
      BY <3>1, <1>1, <1>2
  <2>2. h \in Seq(SseFrames) /\ Len(h) = m + 1
    BY <2>1, <1>4
  <2>3. sent' \in Seq(Seq(SseFrames)) /\ Len(sent') = Len(sent) /\ sent'[Len(sent)] = h
    BY <1>1, <1>3, <2>1, <2>2
  <2>4. sent' # <<>>
    BY <2>1, <2>3
  <2> QED
    BY <2>2, <2>3, <2>4 DEF SentOf
<1>6. inbox' \in Seq(StreamItems)
  <2> PICK b : b = Append(inbox, u)
    OBVIOUS
  <2>1. b \in Seq(StreamItems)
    BY <1>1, <1>4, AppendFacts
  <2>2. Append(b, x) \in Seq(StreamItems) /\ Append(inbox, x) \in Seq(StreamItems)
    BY <1>1, <1>4, <2>1, AppendFacts
  <2> QED
    BY <1>3, <2>2
<1>7. StreamTypes'
  BY <1>3, <1>5, <1>6 DEF StreamInv, StreamTypes
<1>8. SupervisorOK'
  BY <1>0, <1>3, <1>5 DEF StreamInv, SupervisorOK
<1>9. FlowOK'
  <2> PICK e : e = Len(parsed)
    OBVIOUS
  <2> PICK a : a = Len(sent)
    OBVIOUS
  <2>1. InOrder(Pipe(outbox, inbox), e, a, m) /\ Reached(Pipe(outbox, inbox), e, m) /\ e \in Nat
    BY <1>0, <1>1 DEF StreamInv, FlowOK
  <2>2. Carries(inbox, u, x, inbox') /\ x.f.a = a /\ x.f.n = m + 1
    BY <1>3, <1>4 DEF Carries
  <2>3. InOrder(Pipe(outbox, inbox'), e, a, m + 1) /\ Reached(Pipe(outbox, inbox'), e, m + 1)
    BY <1>1, <1>4, <2>1, <2>2, FlowFrame
  <2> QED
    BY <1>3, <1>5, <2>3 DEF FlowOK
<1>10. Strm!NothingReplayed'
  BY <1>3, <1>5 DEF StreamInv, Strm!NothingReplayed, Strm!Attempt
<1> QED
  BY <1>7, <1>8, <1>9, <1>10 DEF StreamInv

\* io.abort(): the attempt's channel is dropped, and a retry comes only before a frame was delivered.
LEMMA SettleStep ==
  ASSUME StreamInv, NEW e, e \in StreamErrors \cup {"none"}, sup.at = "forwarding", Strm!Settle(e),
         UNCHANGED <<provider, sent, parsed>>
  PROVE  StreamInv'
<1> PICK x : x = IF e = "none" THEN Strm!Eof ELSE Strm!Error(e)
  OBVIOUS
<1>1. /\ io' = "ended" /\ inbox' = <<>> /\ x \in StreamItems /\ x.t # "data"
      /\ \/ ~sup.first /\ sup' = [at |-> "backoff", first |-> sup.first] /\ outbox' = outbox
         \/ sup' = [at |-> "ended", first |-> sup.first] /\ outbox' = Append(outbox, x)
  <2>1. x \in StreamItems /\ x.t # "data"
    BY EndItems
  <2> QED
    BY <2>1 DEF Strm!Settle, Strm!MayRetry
<1>2. /\ outbox \in Seq(StreamItems) /\ inbox \in Seq(StreamItems) /\ sup.first \in BOOLEAN
      /\ InOrder(Pipe(outbox, inbox), Len(parsed), Len(sent), SentOf(sent)) /\ sent # <<>>
  BY StreamFacts DEF StreamInv, FlowOK, SupervisorOK
<1>3. InOrder(outbox, Len(parsed), Len(sent), SentOf(sent))
  BY <1>2, OrderCut
<1>4. /\ outbox' \in Seq(StreamItems) /\ InOrder(outbox', Len(parsed), Len(sent), SentOf(sent))
      /\ (NoData(outbox) => NoData(outbox'))
  <2>1. CASE outbox' = outbox
    BY <2>1, <1>2, <1>3
  <2>2. CASE outbox' = Append(outbox, x)
    <3>1. InOrder(outbox', Len(parsed), Len(sent), SentOf(sent))
      BY <2>2, <1>1, <1>2, <1>3, OrderOther
    <3>2. /\ outbox' \in Seq(StreamItems) /\ Len(outbox') = Len(outbox) + 1 /\ outbox'[Len(outbox) + 1] = x
          /\ Len(outbox) \in Nat /\ \A i \in 1..Len(outbox) : outbox'[i] = outbox[i]
      BY <2>2, <1>1, <1>2, AppendFacts
    <3>3. \A i \in 1..Len(outbox') : i \in 1..Len(outbox) \/ i = Len(outbox) + 1
      BY <3>2
    <3>4. NoData(outbox) => NoData(outbox')
      BY <1>1, <3>2, <3>3 DEF NoData
    <3> QED
      BY <3>1, <3>2, <3>4
  <2> QED
    BY <1>1, <2>1, <2>2
<1>5. sup'.first = sup.first /\ sup'.at \in {"backoff", "ended"} /\ (sup'.at = "backoff" => ~sup.first)
      /\ sup' \in [at : {"idle", "forwarding", "backoff", "ended"}, first : BOOLEAN]
  <2>1. CASE ~sup.first /\ sup' = [at |-> "backoff", first |-> sup.first]
    BY <2>1, <1>2
  <2>2. CASE sup' = [at |-> "ended", first |-> sup.first]
    BY <2>2, <1>2
  <2> QED
    BY <1>1, <2>1, <2>2
<1>6. StreamTypes'
  <2>1. inbox' \in Seq(StreamItems)
    BY <1>1
  <2> QED
    BY <1>1, <1>4, <1>5, <2>1 DEF StreamInv, StreamTypes
<1>7. SupervisorOK'
  <2>1. ~sup.first => parsed = <<>> /\ NoData(outbox)
    BY DEF StreamInv, SupervisorOK
  <2>2. ~sup'.first => parsed' = <<>> /\ NoData(outbox)'
    BY <1>4, <1>5, <2>1 DEF NoData
  <2> QED
    BY <1>1, <1>2, <1>5, <2>2 DEF SupervisorOK
<1>8. FlowOK'
  <2>1. Pipe(outbox', <<>>) = outbox'
    BY <1>4, PipeAlone
  <2> QED
    BY <1>1, <1>4, <2>1 DEF FlowOK
<1>9. Strm!NothingReplayed'
  BY DEF StreamInv, Strm!NothingReplayed, Strm!Attempt
<1> QED
  BY <1>6, <1>7, <1>8, <1>9 DEF StreamInv

LEMMA ForwardStep == ASSUME StreamInv, Strm!Forward PROVE StreamInv'
<1> PICK x : x = Head(inbox)
  OBVIOUS
<1>1. sup.at = "forwarding" /\ inbox # <<>> /\ UNCHANGED <<provider, sent, parsed>>
  BY DEF Strm!Forward
<1>2. /\ outbox \in Seq(StreamItems) /\ inbox \in Seq(StreamItems) /\ sup.first \in BOOLEAN
      /\ InOrder(Pipe(outbox, inbox), Len(parsed), Len(sent), SentOf(sent)) /\ sent # <<>>
  BY <1>1, StreamFacts DEF StreamInv, FlowOK, SupervisorOK
<1>3. x \in StreamItems /\ x.t \in {"usage", "eof", "error", "data"} /\ (x.t = "error" => x.e \in StreamErrors)
  <2>1. x \in StreamItems
    BY <1>1, <1>2
  <2> QED
    BY <2>1 DEF StreamItems
<1>4. CASE x.t \in {"usage", "data"}
  <2>1. /\ sup' = [at |-> sup.at, first |-> sup.first \/ x.t = "data"] /\ outbox' = Append(outbox, x)
        /\ inbox' = Tail(inbox) /\ io' = io
    BY <1>4 DEF Strm!Forward
  <2>2. Pipe(outbox', inbox') = Pipe(outbox, inbox)
    BY <1>1, <1>2, <2>1, PipePasses
  <2>3. outbox' \in Seq(StreamItems) /\ inbox' \in Seq(StreamItems)
        /\ Len(outbox') = Len(outbox) + 1 /\ outbox'[Len(outbox) + 1] = x
        /\ Len(outbox) \in Nat /\ \A i \in 1..Len(outbox) : outbox'[i] = outbox[i]
    BY <1>1, <1>2, <1>3, <2>1
  <2>4. \A i \in 1..Len(outbox') : i \in 1..Len(outbox) \/ i = Len(outbox) + 1
    BY <2>3
  <2>5. sup'.at = "forwarding" /\ sup'.first \in BOOLEAN /\ (~sup'.first => ~sup.first /\ x.t # "data")
        /\ sup' \in [at : {"idle", "forwarding", "backoff", "ended"}, first : BOOLEAN]
    BY <1>1, <1>2, <2>1
  <2>6. StreamTypes'
    BY <1>1, <2>1, <2>3, <2>5 DEF StreamInv, StreamTypes
  <2>7. ~sup'.first => parsed' = <<>> /\ NoData(outbox)'
    <3>1. ~sup.first => parsed = <<>> /\ NoData(outbox)
      BY DEF StreamInv, SupervisorOK
    <3> QED
      BY <1>1, <2>3, <2>4, <2>5, <3>1 DEF NoData
  <2>8. SupervisorOK'
    BY <1>1, <1>2, <2>1, <2>5, <2>7 DEF SupervisorOK
  <2>9. FlowOK'
    BY <1>1, <2>1, <2>2 DEF StreamInv, FlowOK
  <2>10. Strm!NothingReplayed'
    BY <1>1 DEF StreamInv, Strm!NothingReplayed, Strm!Attempt
  <2> QED
    BY <2>6, <2>8, <2>9, <2>10 DEF StreamInv
<1>5. CASE x.t \notin {"usage", "data"}
  <2> PICK e : e = IF x.t = "eof" THEN "none" ELSE x.e
    OBVIOUS
  <2>1. Strm!Settle(e)
    BY <1>5 DEF Strm!Forward
  <2>2. e \in StreamErrors \cup {"none"}
    BY <1>3, <1>5
  <2> QED
    BY <1>1, <2>1, <2>2, SettleStep
<1> QED
  BY <1>4, <1>5

LEMMA ParsedFrame == ASSUME NEW f \in SseFrames, NEW p, p = Strm!Parse(f) PROVE p \in ParsedEvents /\ p.f = f
BY DEF Strm!Parse, Strm!ParseOpenAi, Strm!ParseAnthropic, ParsedEvents

LEMMA RecvStep == ASSUME StreamInv, Strm!Recv PROVE StreamInv'
<1> PICK x : x = Head(outbox)
  OBVIOUS
<1> PICK q : q = Pipe(outbox, inbox)
  OBVIOUS
<1>1. /\ outbox # <<>> /\ outbox' = Tail(outbox) /\ UNCHANGED <<provider, io, sent, inbox, sup>>
      /\ parsed' = IF x.t = "data" THEN Append(parsed, Strm!Parse(x.f)) ELSE parsed
  BY DEF Strm!Recv
<1>2. /\ outbox \in Seq(StreamItems) /\ inbox \in Seq(StreamItems) /\ parsed \in Seq(ParsedEvents)
      /\ InOrder(q, Len(parsed), Len(sent), SentOf(sent)) /\ Len(parsed) \in Nat /\ SentOf(sent) \in Nat
      /\ (io \in {"connecting", "streaming"} => Reached(q, Len(parsed), SentOf(sent)))
  BY StreamFacts DEF StreamInv, FlowOK, StreamTypes
<1>3. Pipe(outbox', inbox') = Tail(q) /\ q[1] = x /\ q # <<>> /\ q \in Seq(StreamItems)
  BY <1>1, <1>2, PipeYields
<1>4. outbox' \in Seq(StreamItems) /\ (NoData(outbox) => NoData(outbox') /\ x.t # "data")
  <2>1. /\ Len(outbox) \in Nat /\ Len(outbox) >= 1 /\ x = outbox[1] /\ outbox' \in Seq(StreamItems)
        /\ Len(outbox') = Len(outbox) - 1
        /\ \A i \in 1..Len(outbox') : outbox'[i] = outbox[i + 1]
    BY <1>1, <1>2
  <2>2. 1 \in 1..Len(outbox) /\ \A i \in 1..Len(outbox') : i + 1 \in 1..Len(outbox)
    BY <2>1
  <2> QED
    BY <2>1, <2>2 DEF NoData
<1>5. CASE x.t # "data"
  <2>1. parsed' = parsed
    BY <1>1, <1>5
  <2>2. StreamTypes'
    BY <1>1, <1>4, <2>1 DEF StreamInv, StreamTypes
  <2>3. SupervisorOK'
    <3>1. ~sup.first => parsed = <<>> /\ NoData(outbox)
      BY DEF StreamInv, SupervisorOK
    <3>2. ~sup.first => NoData(outbox)'
      BY <3>1, <1>4 DEF NoData
    <3> QED
      BY <1>1, <2>1, <3>2 DEF StreamInv, SupervisorOK
  <2>4. FlowOK'
    <3>1. /\ InOrder(Tail(q), Len(parsed), Len(sent), SentOf(sent))
          /\ (Reached(q, Len(parsed), SentOf(sent)) => Reached(Tail(q), Len(parsed), SentOf(sent)))
      BY <1>2, <1>3, <1>5, OrderSkips
    <3> QED
      BY <1>1, <1>2, <1>3, <2>1, <3>1 DEF FlowOK
  <2>5. Strm!NothingReplayed'
    BY <1>1, <2>1 DEF StreamInv, Strm!NothingReplayed, Strm!Attempt
  <2> QED
    BY <2>2, <2>3, <2>4, <2>5 DEF StreamInv
<1>6. CASE x.t = "data"
  <2> PICK p : p = Strm!Parse(x.f)
    OBVIOUS
  <2>0. x.f \in SseFrames
    <3>1. x \in StreamItems
      BY <1>1, <1>2
    <3>2. x \in [t : {"data"}, f : SseFrames]
      BY <1>6, <3>1 DEF StreamItems
    <3> QED
      BY <3>2
  <2>1. p \in ParsedEvents /\ p.f = x.f
    BY <2>0, ParsedFrame
  <2>2. /\ parsed' = Append(parsed, p) /\ parsed' \in Seq(ParsedEvents) /\ Len(parsed') = Len(parsed) + 1
        /\ parsed'[Len(parsed) + 1] = p /\ (\A n \in 1..Len(parsed) : parsed'[n] = parsed[n])
        /\ DOMAIN parsed' = 1..(Len(parsed) + 1) /\ DOMAIN parsed = 1..Len(parsed)
    BY <1>1, <1>2, <1>6, <2>1
  <2>3. StreamTypes'
    BY <1>1, <1>4, <2>2 DEF StreamInv, StreamTypes
  <2>4. sup.first
    BY <1>4, <1>6 DEF StreamInv, SupervisorOK
  <2>5. SupervisorOK'
    BY <1>1, <2>4 DEF StreamInv, SupervisorOK
  <2>6. /\ x.f.a = Len(sent) /\ x.f.n = Len(parsed) + 1
        /\ InOrder(Tail(q), Len(parsed) + 1, Len(sent), SentOf(sent))
        /\ (Reached(q, Len(parsed), SentOf(sent)) => Reached(Tail(q), Len(parsed) + 1, SentOf(sent)))
    BY <1>2, <1>3, <1>6, OrderYields
  <2>7. FlowOK'
    BY <1>1, <1>2, <1>3, <2>2, <2>6 DEF FlowOK
  <2>8. Strm!NothingReplayed'
    <3> SUFFICES ASSUME NEW n \in 1..(Len(parsed) + 1) PROVE parsed'[n].f.a = Len(sent) /\ parsed'[n].f.n = n
      BY <1>1, <2>2 DEF Strm!NothingReplayed, Strm!Attempt
    <3>1. CASE n = Len(parsed) + 1
      BY <3>1, <2>1, <2>2, <2>6
    <3>2. CASE n # Len(parsed) + 1
      <4>1. n \in 1..Len(parsed)
        BY <3>2, <1>2
      <4> QED
        BY <4>1, <2>2 DEF StreamInv, Strm!NothingReplayed, Strm!Attempt
    <3> QED
      BY <3>1, <3>2
  <2> QED
    BY <2>3, <2>5, <2>7, <2>8 DEF StreamInv
<1> QED
  BY <1>5, <1>6

LEMMA StreamStarts == ASSUME Strm!Init PROVE StreamInv
<1>1. /\ provider \in {"openai", "anthropic"} /\ io = "idle" /\ sent = <<>> /\ inbox = <<>> /\ outbox = <<>> /\ parsed = <<>>
      /\ sup = [at |-> "idle", first |-> FALSE]
  BY DEF Strm!Init
<1>2. StreamTypes
  BY <1>1 DEF StreamTypes
<1>3. SupervisorOK
  BY <1>1 DEF SupervisorOK, NoData
<1>4. FlowOK
  <2>1. <<>> \in Seq(StreamItems)
    OBVIOUS
  <2>2. Len(Pipe(<<>>, <<>>)) = Len(<<>>) + Len(<<>>)
    BY <2>1, PipeFacts DEF Joins
  <2>3. \A i \in 1..Len(Pipe(<<>>, <<>>)) : FALSE
    BY <2>2
  <2> QED
    BY <1>1, <2>3 DEF FlowOK, InOrder
<1>5. Strm!NothingReplayed
  BY <1>1 DEF Strm!NothingReplayed
<1> QED
  BY <1>2, <1>3, <1>4, <1>5 DEF StreamInv

LEMMA StreamSteps == ASSUME StreamInv, [Strm!Next]_(Strm!streamVars) PROVE StreamInv'
<1>1. CASE Strm!Refuse \/ Strm!Connected \/ Strm!StopRun \/ Strm!FireToken \/ Strm!TickStop \/ UNCHANGED Strm!streamVars
  <2>1. UNCHANGED <<provider, sent, inbox, sup, outbox, parsed>> /\ (io' = io \/ (io = "connecting" /\ io' = "streaming"))
    BY <1>1 DEF Strm!Refuse, Strm!Connected, Strm!StopRun, Strm!FireToken, Strm!TickStop, Strm!streamVars
  <2> QED
    BY <2>1, StreamSame
<1>2. CASE Strm!NotConnected \/ Strm!IoCancelled \/ Strm!StreamEnds
  <2>1. PICK x : x \in StreamItems /\ x.t # "data" /\ Strm!EndIo(x)
    BY <1>2, EndItems DEF Strm!NotConnected, Strm!IoCancelled, Strm!StreamEnds, StreamErrors
  <2>2. io \in {"connecting", "streaming"} /\ UNCHANGED <<provider, sent, sup, outbox, parsed>>
    BY <1>2 DEF Strm!NotConnected, Strm!IoCancelled, Strm!StreamEnds
  <2> QED
    BY <2>1, <2>2, EndStep
<1>3. ASSUME NEW k \in {"text", "finish", "usage", "done"}, Strm!Frame(k, 0) PROVE StreamInv'
  BY <1>3, FrameStep DEF FrameKinds
<1>4. ASSUME NEW k \in {"open", "args"}, NEW i \in 1..MaxToolCalls, Strm!Frame(k, i) PROVE StreamInv'
  BY <1>4, FrameStep DEF FrameKinds
<1>5. CASE Strm!SeesCancel
  <2>1. sup.at = "forwarding" /\ Strm!Settle("cancelled") /\ UNCHANGED <<provider, sent, parsed>>
    BY <1>5 DEF Strm!SeesCancel
  <2> QED
    BY <2>1, SettleStep DEF StreamErrors
<1> QED
  BY <1>1, <1>2, <1>3, <1>4, <1>5, AttemptStep, ForwardStep, RecvStep DEF Strm!Next

\* providers/transport.rs, LiveGatewayTransport::stream: whatever fails, is
\* cancelled or times out, and whenever, what the run has consumed are the first
\* frames of the attempt that is being read, each once and in order.  No retry
\* repeats a frame, because none starts once one was delivered.
THEOREM StreamNeverReplays == Strm!StreamSpec => []Strm!NothingReplayed
<1>1. StreamInv => Strm!NothingReplayed
  BY DEF StreamInv
<1> QED
  BY <1>1, StreamStarts, StreamSteps, PTL DEF Strm!StreamSpec

=============================================================================
