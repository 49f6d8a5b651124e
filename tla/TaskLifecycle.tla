--------------------------- MODULE TaskLifecycle ---------------------------
(***************************************************************************)
(* The task state machine of crates/domain: which event a task accepts in  *)
(* which state (task.rs), how a stream of events folds into a state, and   *)
(* what queueing a user input does to a task (input_queue.rs).             *)
(*                                                                         *)
(* The reason carried by a waiting state and the texts of events are left  *)
(* out: no guard of the state machine looks at them.                       *)
(***************************************************************************)
EXTENDS Naturals, Sequences

TaskStates == {"created", "queued", "running", "waiting",
               "ready_for_review", "completed", "failed", "cancelled"}

Terminal == {"completed", "failed", "cancelled"}

TaskEvents == {"task_created", "task_queued", "task_started", "task_waiting",
               "task_ready_for_review", "task_completed", "task_failed",
               "task_cancelled", "task_steered", "goal_set",
               "task_input_queued", "review_hunk_resolved",
               "review_comment_added"}

None     == "none"      \* fold_task of an empty stream
Poisoned == "poisoned"  \* fold_task returned an error, which then sticks

FoldResults == TaskStates \cup {None, Poisoned}

(***************************************************************************)
(* apply_task_event: the states in which an event is legal ...             *)
(***************************************************************************)
AcceptedFrom(ev) ==
  CASE ev = "task_created"          -> {"created"}
    [] ev = "task_queued"           -> {"created"}
    [] ev = "task_started"          -> {"queued", "waiting"}
    [] ev = "task_waiting"          -> {"running"}
    [] ev = "task_ready_for_review" -> {"running", "waiting"}
    [] ev = "task_completed"        -> {"ready_for_review"}
    [] ev = "task_failed"           -> {"running", "waiting", "ready_for_review"}
    [] ev = "task_cancelled"        -> {"created", "queued", "running", "waiting"}
    [] ev = "task_steered"          -> {"running", "waiting"}
    [] ev = "goal_set"              -> TaskStates
    [] ev = "task_input_queued"     -> TaskStates \ Terminal
    [] ev \in {"review_hunk_resolved", "review_comment_added"} ->
                                {"running", "waiting", "ready_for_review", "completed"}
    [] OTHER                        -> {}

\* ... and the state it leads to.  The events not listed leave it alone.
StateAfter(state, ev) ==
  CASE ev = "task_queued"           -> "queued"
    [] ev = "task_started"          -> "running"
    [] ev = "task_waiting"          -> "waiting"
    [] ev = "task_ready_for_review" -> "ready_for_review"
    [] ev = "task_completed"        -> "completed"
    [] ev = "task_failed"           -> "failed"
    [] ev = "task_cancelled"        -> "cancelled"
    [] OTHER                        -> state

ApplyTaskEvent(state, ev) ==
  IF state \in AcceptedFrom(ev) THEN StateAfter(state, ev) ELSE Poisoned

\* One step of fold_task: the first event must create the task; an error sticks.
FoldStep(acc, ev) ==
  IF acc = None
  THEN IF ev = "task_created" THEN "created" ELSE Poisoned
  ELSE IF acc = Poisoned THEN Poisoned ELSE ApplyTaskEvent(acc, ev)

FoldTask(evs) ==
  LET fold[n \in 0..Len(evs)] ==
        IF n = 0 THEN None ELSE FoldStep(fold[n - 1], evs[n])
  IN  fold[Len(evs)]

(***************************************************************************)
(* input_effect: what queueing an input of a mode does, or its rejection.  *)
(***************************************************************************)
InputModes == {"steer", "collect", "follow_up", "side_question"}

InputStates(mode) ==
  CASE mode = "steer"         -> {"running", "waiting", "queued"}
    [] mode = "collect"       -> {"running", "waiting"}
    [] mode = "follow_up"     -> {"queued", "running", "waiting", "ready_for_review"}
    [] mode = "side_question" -> TaskStates \ {"created", "completed", "cancelled"}
    [] OTHER                  -> {}

RedirectsTask(mode) == mode = "steer"
=============================================================================
