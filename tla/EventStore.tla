----------------------------- MODULE EventStore -----------------------------
(***************************************************************************)
(* The durable core of crates/event-store: the append-only events table,   *)
(* the idempotent command processor, the transactional projections and the *)
(* session mutation leases.  Every operation below runs under the store's  *)
(* mutex in one SQLite transaction, so each is one action.                 *)
(***************************************************************************)
EXTENDS TaskLifecycle, FiniteSets

CONSTANTS
  Sessions, Tasks, Runs,  \* aggregate ids that may be generated
  Inputs,                 \* input ids chosen by clients
  Leases,                 \* lease ids of run-plane writers
  Kinds,                  \* the command kinds the clients of this instance send
  NoArg, NoRow, NoLease,
  MaxCommands,            \* bound: distinct command ids presented
  MaxLog                  \* bound: rows of the events table

Aggregates == Sessions \cup Tasks \cup Runs

\* Commands of the generic lifecycle branch, with the event each one appends
\* (lifecycle_event).  CompleteTask comes in two flavours: see CompleteTask.
LifecycleEvent(kind) ==
  CASE kind = "QueueTask"          -> "task_queued"
    [] kind = "StartTask"          -> "task_started"
    [] kind = "TaskWaiting"        -> "task_waiting"
    [] kind = "TaskReadyForReview" -> "task_ready_for_review"
    [] kind = "FailTask"           -> "task_failed"
    [] kind = "CancelTask"         -> "task_cancelled"
    [] kind = "SteerTask"          -> "task_steered"
    [] kind = "ResolveReviewHunk"  -> "review_hunk_resolved"
    [] kind = "AddReviewComment"   -> "review_comment_added"
    [] OTHER                       -> "task_completed"

LifecycleKinds == {"QueueTask", "StartTask", "TaskWaiting", "TaskReadyForReview",
                   "FailTask", "CancelTask", "SteerTask", "ResolveReviewHunk",
                   "AddReviewComment"}

CommandKinds == LifecycleKinds \cup
  {"CreateSession", "CreateTask", "CompleteTask", "QueueTaskInput",
   "AskSideQuestion", "SetGoal", "ForkSession", "RewindSession"}

SessionEvents == {"session_created", "session_forked", "side_question_asked"}

EventTypes == TaskEvents \cup SessionEvents \cup {"run_event"}

CommandIds == 1..MaxCommands

ASSUME BoundsAssumption == MaxCommands \in Nat /\ MaxLog \in Nat
ASSUME IdsAssumption ==
  /\ Sessions \cap Tasks = {} /\ Sessions \cap Runs = {} /\ Tasks \cap Runs = {}
  /\ NoRow \notin [state : TaskStates, gen : Nat]
  /\ NoArg \notin Sessions \cup Inputs \cup {"verified", "claimed"}
  /\ Leases \cap Nat = {}
  /\ NoLease \notin Leases \cup Nat \cup [session : Sessions, gen : Nat]
  /\ Kinds \subseteq CommandKinds

(***************************************************************************)
(* An argument is what later steps read back from an event: the session of *)
(* a created task, the id of a queued input.  For a completion it records  *)
(* whether the host verified it, which the row itself does not keep and    *)
(* only the properties read; `by' likewise names the command or the lease  *)
(* the row was written under.                                              *)
(***************************************************************************)
Args == Sessions \cup Inputs \cup {NoArg, "verified", "claimed"}
Row  == [seq : Nat \ {0}, type : EventTypes, arg : Args, by : CommandIds \cup Leases \cup {NoLease}]
Event(type, arg) == [type |-> type, arg |-> arg]

VARIABLES
  stream,       \* per aggregate, its rows in insertion order
  log,          \* the events table in rowid order: aggregate and sequence
  folded,       \* fold_task of each task's stream, carried along the inserts
  cmdlog,       \* command_log: status and result_event_ids of a command id
  sessionRows,  \* projection: ids in the sessions table
  taskRow,      \* projection: the tasks table
  taskInputs,   \* projection: the task_inputs table
  lease,        \* session_leases: current lease of each session
  granted       \* the session and generation acquire returned for a lease id

events      == <<stream, log, folded>>
projections == <<sessionRows, taskRow, taskInputs>>
leases      == <<lease, granted>>
vars        == <<events, cmdlog, projections, leases>>

CmdEntry == [status : {"none", "APPLIED", "REJECTED"},
             ids : SUBSET (Aggregates \X Nat)]

TypeOK ==
  /\ stream \in [Aggregates -> Seq(Row)]
  /\ log \in Seq([agg : Aggregates, seq : Nat \ {0}])
  /\ folded \in [Tasks -> FoldResults]
  /\ cmdlog \in [CommandIds -> CmdEntry]
  /\ sessionRows \subseteq Sessions
  /\ taskRow \in [Tasks -> [state : TaskStates, gen : Nat] \cup {NoRow}]
  /\ taskInputs \subseteq [input : Inputs, task : Tasks, seq : Nat]
  /\ lease \in [Sessions -> [id : Leases \cup {NoLease}, gen : Nat]]
  /\ granted \in [Leases -> [session : Sessions, gen : Nat \ {0}] \cup {NoLease}]

Init ==
  /\ stream = [a \in Aggregates |-> <<>>]
  /\ log = <<>>
  /\ folded = [t \in Tasks |-> None]
  /\ cmdlog = [c \in CommandIds |-> [status |-> "none", ids |-> {}]]
  /\ sessionRows = {}
  /\ taskRow = [t \in Tasks |-> NoRow]
  /\ taskInputs = {}
  /\ lease = [s \in Sessions |-> [id |-> NoLease, gen |-> 0]]
  /\ granted = [l \in Leases |-> NoLease]

-----------------------------------------------------------------------------
(***************************************************************************)
(* Reading the events table.                                               *)
(***************************************************************************)
Exists(a) == stream[a] # <<>>

\* SELECT MAX(sequence) ... WHERE aggregate_id, 0 when there is no row.
MaxSequence(a) ==
  CHOOSE n \in {0} \cup {stream[a][i].seq : i \in DOMAIN stream[a]} :
    \A i \in DOMAIN stream[a] : stream[a][i].seq <= n

HasEvent(a, type) == \E i \in DOMAIN stream[a] : stream[a][i].type = type

(***************************************************************************)
(* Inserting rows, and projecting them in the same transaction.            *)
(***************************************************************************)
Rows(by, first, evs) ==
  [i \in DOMAIN evs |-> [seq |-> first + i - 1, type |-> evs[i].type,
                         arg |-> evs[i].arg, by |-> by]]

\* Mutant: the continuity check is dropped.
AnyNumbers(a, rows) == TRUE

\* Each row must continue the aggregate's committed stream.
Continuous(a, rows) ==
  \A i \in DOMAIN rows : rows[i].seq = MaxSequence(a) + i

\* One event, or two when a steering input also emits task_steered.
ForEach(Step(_, _), acc, rows) ==
  IF Len(rows) = 1 THEN Step(acc, rows[1]) ELSE Step(Step(acc, rows[1]), rows[2])

FoldRow(acc, row) == FoldStep(acc, row.type)

\* Mutant: only the first row of a batch is folded.
InsertFoldsFirst(a, rows) ==
  /\ Len(log) + Len(rows) <= MaxLog
  /\ stream' = [stream EXCEPT ![a] = @ \o rows]
  /\ log' = log \o [i \in DOMAIN rows |-> [agg |-> a, seq |-> rows[i].seq]]
  /\ folded' = IF a \in Tasks THEN [folded EXCEPT ![a] = FoldRow(@, rows[1])] ELSE folded

Insert(a, rows) ==
  /\ Len(log) + Len(rows) <= MaxLog
  /\ stream' = [stream EXCEPT ![a] = @ \o rows]
  /\ log' = log \o [i \in DOMAIN rows |-> [agg |-> a, seq |-> rows[i].seq]]
  /\ folded' = IF a \in Tasks
               THEN [folded EXCEPT ![a] = ForEach(FoldRow, @, rows)]
               ELSE folded

\* Mutant: a queued input replaces the one with its id.
ProjectsReplacing(a, row) ==
  /\ row.type = "task_created" => row.arg \in sessionRows
  /\ row.type = "task_input_queued" => taskRow[a] # NoRow

\* The constraints a projection statement can fail on: tasks.session_id and
\* task_inputs.task_id are foreign keys, task_inputs.input_id is a primary key.
Projects(a, row) ==
  /\ row.type = "task_created" => row.arg \in sessionRows
  /\ row.type = "task_input_queued" =>
       /\ taskRow[a] # NoRow
       /\ \A r \in taskInputs : r.input # row.arg

\* Mutant: the update for a waiting task is missing.
LifecycleEventsNoWaiting == {"task_queued", "task_started", "task_ready_for_review",
                             "task_completed", "task_failed", "task_cancelled",
                             "task_steered"}

\* project_task on the tasks row.  UPDATE statements miss a row that is absent.
LifecycleEvents == {"task_queued", "task_started", "task_waiting",
                    "task_ready_for_review", "task_completed", "task_failed",
                    "task_cancelled", "task_steered"}

\* Mutant: a review comment puts the task back to work.
ProjectTaskRowReopening(old, row) ==
  IF row.type = "task_created" THEN [state |-> "created", gen |-> row.seq]
  ELSE IF old # NoRow /\ row.type = "review_comment_added"
       THEN [state |-> "running", gen |-> row.seq]
  ELSE IF old # NoRow /\ row.type \in LifecycleEvents
       THEN [state |-> StateAfter(old.state, row.type), gen |-> row.seq]
       ELSE old

ProjectTaskRow(old, row) ==
  IF row.type = "task_created" THEN [state |-> "created", gen |-> row.seq]
  ELSE IF old # NoRow /\ row.type \in LifecycleEvents
       THEN [state |-> StateAfter(old.state, row.type), gen |-> row.seq]
       ELSE old

Project(a, rows) ==
  /\ sessionRows' = IF rows[1].type = "session_created"
                    THEN sessionRows \cup {a} ELSE sessionRows
  /\ taskRow' = IF a \in Tasks
                THEN [taskRow EXCEPT ![a] = ForEach(ProjectTaskRow, @, rows)]
                ELSE taskRow
  /\ taskInputs' = IF rows[1].type = "task_input_queued"
                   THEN taskInputs \cup {[input |-> rows[1].arg, task |-> a,
                                          seq |-> rows[1].seq]}
                   ELSE taskInputs

-----------------------------------------------------------------------------
(***************************************************************************)
(* CommandProcessor::execute.  A seen command id replays its outcome and   *)
(* writes nothing.  Otherwise the outcome and the events are committed     *)
(* together, and a rejection is committed too: whatever plan_and_append    *)
(* had inserted before it failed stays.                                    *)
(***************************************************************************)
\* Mutant: the command log is not consulted.
NeverSeen(c) == FALSE

Seen(c) == cmdlog[c].status # "none"

\* Ids are numbered in the order in which clients first present them.
Fresh(c) == ~Seen(c) /\ \A d \in 1..(c - 1) : Seen(d)

Record(c, status, ids) ==
  cmdlog' = [cmdlog EXCEPT ![c] = [status |-> status, ids |-> ids]]

Reject(c) ==
  /\ Record(c, "REJECTED", {})
  /\ UNCHANGED <<events, projections, leases>>

\* The tail of plan_and_append: number, check, insert and project the rows.  The
\* only projection that can fail is that of the first row.
Commit(c, a, evs) ==
  LET rows == Rows(c, Len(stream[a]) + 1, evs)
  IN  /\ Continuous(a, rows)
      /\ \/ /\ Projects(a, rows[1])
            /\ Insert(a, rows)
            /\ Project(a, rows)
            /\ Record(c, "APPLIED", {<<a, rows[i].seq>> : i \in DOMAIN rows})
         \/ /\ ~Projects(a, rows[1])
            /\ Insert(a, <<rows[1]>>)
            /\ Record(c, "REJECTED", {})
            /\ UNCHANGED projections
      /\ UNCHANGED leases

CreateSession(c, s) ==
  /\ ~Exists(s)
  /\ Commit(c, s, <<Event("session_created", NoArg)>>)

CreateTask(c, s, t) ==
  /\ ~Exists(t)
  /\ IF Exists(s)
     THEN Commit(c, t, <<Event("task_created", s)>>)
     ELSE Reject(c)

QueueTaskInput(c, t, i, mode) ==
  IF folded[t] \in InputStates(mode)
  THEN Commit(c, t, IF RedirectsTask(mode)
                    THEN <<Event("task_input_queued", i), Event("task_steered", NoArg)>>
                    ELSE <<Event("task_input_queued", i)>>)
  ELSE Reject(c)

AskSideQuestion(c, s) ==
  IF Exists(s) THEN Commit(c, s, <<Event("side_question_asked", NoArg)>>)
               ELSE Reject(c)

SetGoal(c, t) ==
  IF Exists(t) THEN Commit(c, t, <<Event("goal_set", NoArg)>>) ELSE Reject(c)

ForkSession(c, source, at, fork) ==
  /\ ~Exists(fork)
  /\ IF at \in 1..Len(stream[source])
     THEN Commit(c, fork, <<Event("session_forked", source)>>)
     ELSE Reject(c)

\* load_session_envelopes reads payload_inline, which holds the bare event, as a
\* whole envelope: it fails on every row, and without rows there is no last hash.
RewindSession(c) == Reject(c)

\* Mutant: only a goal set by the latest event counts.
GoalModeLatest(t) == Exists(t) /\ stream[t][Len(stream[t])].type = "goal_set"

\* The generic branch.  In goal mode an unverified completion is refused.
GoalMode(t) == HasEvent(t, "goal_set")

\* Mutant: the state machine is not asked.
LifecycleUnchecked(c, t, kind, arg) ==
  IF Exists(t) /\ ~(arg = "claimed" /\ GoalMode(t))
  THEN Commit(c, t, <<Event(LifecycleEvent(kind), arg)>>)
  ELSE Reject(c)

Lifecycle(c, t, kind, arg) ==
  IF /\ folded[t] \in AcceptedFrom(LifecycleEvent(kind))
     /\ ~(arg = "claimed" /\ GoalMode(t))
  THEN Commit(c, t, <<Event(LifecycleEvent(kind), arg)>>)
  ELSE Reject(c)

Execute(c) ==
  /\ Fresh(c)
  /\ \/ "CreateSession" \in Kinds /\ \E s \in Sessions : CreateSession(c, s)
     \/ "CreateTask" \in Kinds
          /\ \E s \in Sessions, t \in Tasks : CreateTask(c, s, t)
     \/ "QueueTaskInput" \in Kinds
          /\ \E t \in Tasks, i \in Inputs, m \in InputModes : QueueTaskInput(c, t, i, m)
     \/ "AskSideQuestion" \in Kinds /\ \E s \in Sessions : AskSideQuestion(c, s)
     \/ "SetGoal" \in Kinds /\ \E t \in Tasks : SetGoal(c, t)
     \/ "ForkSession" \in Kinds
          /\ \E s, f \in Sessions, at \in 0..MaxLog : ForkSession(c, s, at, f)
     \/ "RewindSession" \in Kinds /\ RewindSession(c)
     \/ \E t \in Tasks, k \in Kinds \cap LifecycleKinds : Lifecycle(c, t, k, NoArg)
     \/ "CompleteTask" \in Kinds
          /\ \E t \in Tasks, v \in {"verified", "claimed"} : Lifecycle(c, t, "CompleteTask", v)

Replay(c) == Seen(c) /\ UNCHANGED vars

-----------------------------------------------------------------------------
(***************************************************************************)
(* leases::acquire: the new lease replaces the old one, whose holder       *)
(* is fenced from then on.  Each writer takes a lease id of its own.       *)
(***************************************************************************)
AcquireLease(s, l) ==
  /\ granted[l] = NoLease
  /\ LET gen == lease[s].gen + 1
     IN  /\ lease' = [lease EXCEPT ![s] = [id |-> l, gen |-> gen]]
         /\ granted' = [granted EXCEPT ![l] = [session |-> s, gen |-> gen]]
  /\ UNCHANGED <<events, cmdlog, projections>>

\* Mutant: any lease ever granted for the session will do.
WasCurrent(s, l) == granted[l] # NoLease /\ granted[l].session = s

IsCurrent(s, l) == lease[s].id = l

\* append on a run aggregate (no projection).  The writer numbers its event from
\* its own cache, so any number may arrive; one that does not continue the
\* stream is a SequenceConflict and writes nothing.
Append1(by, r, n) ==
  LET rows == Rows(by, n, <<Event("run_event", NoArg)>>)
  IN  IF Continuous(r, rows)
      THEN Insert(r, rows) /\ UNCHANGED <<cmdlog, projections, leases>>
      ELSE UNCHANGED vars

\* append_with_lease: the same, for the session's current mutation owner only.
AppendWithLease(l, r, n) ==
  /\ granted[l] # NoLease
  /\ IF IsCurrent(granted[l].session, l) THEN Append1(l, r, n) ELSE UNCHANGED vars

\* A run whose lease acquisition failed writes without one.
AppendUnfenced(r, n) == Append1(NoLease, r, n)

-----------------------------------------------------------------------------
(***************************************************************************)
(* The queries of clients and recovery.                                    *)
(***************************************************************************)
\* events.session_id of a row.  A run writes under the session of its lease; the
\* session of a writer without a lease is not modelled.
SessionOf(k) ==
  LET a == log[k].agg
      row == stream[a][log[k].seq]
  IN  IF a \in Sessions THEN a
      ELSE IF a \in Tasks THEN stream[a][1].arg
      ELSE IF row.by \in Leases THEN granted[row.by].session ELSE NoArg

\* The rows of a session behind an offset, which is a rowid of the whole table: at
\* most `limit' of them, the first in rowid order.
PageOf(s, after, limit) ==
  LET hits == {k \in DOMAIN log : k > after /\ SessionOf(k) = s}
  IN  {k \in hits : Cardinality({j \in hits : j < k}) < limit}

\* Mutant: the offset to resume from counts the rows returned.
SessionEventsCounted(s, after, limit) ==
  LET page == PageOf(s, after, limit)
  IN  [rows |-> page, offset |-> after + Cardinality(page)]

\* session_events_since: a page, by rowids, and the offset to go on from.
SessionEventsSince(s, after, limit) ==
  LET page == PageOf(s, after, limit)
  IN  [rows |-> page,
       offset |-> IF page = {} THEN after ELSE CHOOSE k \in page : \A j \in page : j <= k]

\* verify_stream: the first row whose number is not its place, 0 when there is none.
VerifyStream(a) ==
  LET bad == {i \in DOMAIN stream[a] : stream[a][i].seq # i}
  IN  IF bad = {} THEN 0 ELSE CHOOSE i \in bad : \A j \in bad : i <= j

\* preview_rewind: the places of the rows of an aggregate numbered above `to'.
PreviewRewind(a, to) == {i \in DOMAIN stream[a] : stream[a][i].seq > to}

Next ==
  \/ \E c \in CommandIds : Execute(c) \/ Replay(c)
  \/ \E s \in Sessions, l \in Leases : AcquireLease(s, l)
  \/ \E l \in Leases, r \in Runs, n \in 1..(MaxLog + 1) : AppendWithLease(l, r, n)
  \/ \E r \in Runs, n \in 1..(MaxLog + 1) : AppendUnfenced(r, n)

Spec == Init /\ [][Next]_vars

-----------------------------------------------------------------------------
(***************************************************************************)
(* Properties.                                                             *)
(***************************************************************************)

\* `folded' is what fold_task computes from the stored stream, so a command that
\* reloads and folds the whole history sees the state the model carries.
FoldIsFoldTask ==
  \A t \in Tasks :
    folded[t] = FoldTask([i \in DOMAIN stream[t] |-> stream[t][i].type])

\* verify_stream succeeds on every aggregate: whatever numbers the writers
\* present, the rows of an aggregate are numbered 1, 2, 3 ... without a gap.
Gapless ==
  \A a \in Aggregates : \A i \in DOMAIN stream[a] : stream[a][i].seq = i

\* Idempotency by command_id: the rows written on behalf of an APPLIED command
\* are exactly the result_event_ids its retries are answered with.
WrittenBy(c) ==
  UNION {{<<a, stream[a][i].seq>> : i \in {j \in DOMAIN stream[a] : stream[a][j].by = c}}
         : a \in Aggregates}

AppliedExactlyOnce ==
  \A c \in CommandIds : cmdlog[c].status = "APPLIED" => cmdlog[c].ids = WrittenBy(c)

\* The state a client reads from the tasks table is the state the command
\* processor decides on, as long as that stream still folds.
RowMatchesFold ==
  \A t \in Tasks :
    taskRow[t] # NoRow /\ folded[t] # Poisoned => taskRow[t].state = folded[t]

\* A task reads as completed only after it was started and then handed to review,
\* in that order, and was never completed on a path around them.
CompletedWasReviewed ==
  \A t \in Tasks : taskRow[t] # NoRow /\ taskRow[t].state = "completed" =>
    \E i, j, k \in DOMAIN stream[t] :
      /\ i < j /\ j < k
      /\ stream[t][i].type = "task_started"
      /\ stream[t][j].type = "task_ready_for_review"
      /\ stream[t][k].type = "task_completed"

\* Goal mode (REQ-EV-0119): once a goal is set, no completion in the stream after
\* it was a bare model claim.
GoalHonoured ==
  \A t \in Tasks : \A i, j \in DOMAIN stream[t] :
    i < j /\ stream[t][i].type = "goal_set" /\ stream[t][j].type = "task_completed"
      => stream[t][j].arg = "verified"

\* The durable input queue: a task_inputs row stands for the input event at its
\* sequence, and no input event of a task with a row is without its input.
InputQueueFaithful ==
  /\ \A r \in taskInputs :
       /\ r.seq \in DOMAIN stream[r.task]
       /\ stream[r.task][r.seq].type = "task_input_queued"
       /\ stream[r.task][r.seq].arg = r.input
  /\ \A r1, r2 \in taskInputs : r1.input = r2.input => r1 = r2
  /\ \A t \in Tasks : taskRow[t] # NoRow =>
       \A i \in DOMAIN stream[t] : stream[t][i].type = "task_input_queued" =>
         \E r \in taskInputs : r.input = stream[t][i].arg

\* Fencing: in rowid order the leased rows of a session carry generations that
\* never go back, so a writer that lost its lease wrote nothing afterwards.
GenerationAt(k) == granted[stream[log[k].agg][log[k].seq].by]

LeasedAt(k) == stream[log[k].agg][log[k].seq].by \in Leases

FencedWritersStop ==
  \A j, k \in DOMAIN log :
    /\ j < k /\ LeasedAt(j) /\ LeasedAt(k)
    /\ GenerationAt(j).session = GenerationAt(k).session
    => GenerationAt(j).gen <= GenerationAt(k).gen

\* Two resumes in a row return the rows of one, in order and none twice, and leave
\* the client at the same offset.
PagesAgree(s, after, n, m) ==
  LET one  == SessionEventsSince(s, after, n)
      two  == SessionEventsSince(s, one.offset, m)
      both == SessionEventsSince(s, after, n + m)
  IN  /\ one.rows \cup two.rows = both.rows
      /\ \A j \in one.rows, k \in two.rows : j < k
      /\ two.offset = both.offset

\* What a client has read by pages is what it would read at once, so that none of the
\* session's rows is skipped by an offset, and a rewind preview and the rows it keeps
\* make up the stream (session_events_since, preview_rewind, verify_stream).
ReadersAgree ==
  /\ \A a \in Aggregates : VerifyStream(a) = 0
  /\ \A s \in Sessions, n, m \in 1..2 : PagesAgree(s, 0, n, m)
  /\ \A a \in Aggregates : \A to \in 0..Len(stream[a]) :
       PreviewRewind(a, to) = DOMAIN stream[a] \ (1..to)

\* The tasks table implements the abstract board of TaskBoard: whatever commands
\* arrive, a row appears as created and moves only along the state machine.
Board == INSTANCE TaskBoard
           WITH board <- [t \in Tasks |-> IF taskRow[t] = NoRow THEN None
                                          ELSE taskRow[t].state]

ImplementsBoard == Board!Spec

\* "The state machine rejected the command; recorded, nothing appended."
RejectedAppendsNothing ==
  \A c \in CommandIds : cmdlog[c].status = "REJECTED" => WrittenBy(c) = {}

\* A steered task "keeps running": no accepted input makes the history of a task
\* unfoldable, which would have every later command on it rejected.
AcceptedInputsFold == \A t \in Tasks : folded[t] # Poisoned
=============================================================================
