-------------------------- MODULE EventStoreProofs --------------------------
(***************************************************************************)
(* Proofs about EventStore for every value of its constants: types,        *)
(* streams without gaps, and that the tasks table is a faithful read       *)
(* model, which agrees with the fold of the events and implements the      *)
(* abstract board.                                                         *)
(***************************************************************************)
EXTENDS EventStore, TLAPS

Planned == [type : EventTypes, arg : Args]

(***************************************************************************)
(* What a command may ask to append, and under which condition: the        *)
(* branches of plan_and_append, with the aggregate and the events.         *)
(***************************************************************************)
PlanSession(a, evs) ==
  /\ a \in Sessions
  /\ \/ ~Exists(a) /\ evs = <<Event("session_created", NoArg)>>
     \/ evs = <<Event("side_question_asked", NoArg)>>
     \/ ~Exists(a) /\ \E s \in Sessions : evs = <<Event("session_forked", s)>>

PlanTask(a, evs) ==
  /\ a \in Tasks /\ ~Exists(a)
  /\ \E s \in Sessions : evs = <<Event("task_created", s)>>

PlanGoal(a, evs) == a \in Tasks /\ Exists(a) /\ evs = <<Event("goal_set", NoArg)>>

PlanInput(a, evs) ==
  /\ a \in Tasks /\ folded[a] \in TaskStates
  /\ \E i \in Inputs :
       \/ evs = <<Event("task_input_queued", i)>>
       \/ evs = <<Event("task_input_queued", i), Event("task_steered", NoArg)>>

PlanLifecycle(a, evs) ==
  /\ a \in Tasks
  /\ \E ev \in LifecycleEvents \cup {"review_hunk_resolved", "review_comment_added"},
        arg \in {NoArg, "verified", "claimed"} :
       /\ folded[a] \in AcceptedFrom(ev)
       /\ ev = "task_completed" => arg # NoArg
       /\ arg = "claimed" => ~GoalMode(a)
       /\ evs = <<Event(ev, arg)>>

Plan(a, evs) ==
  \/ PlanSession(a, evs) \/ PlanTask(a, evs) \/ PlanGoal(a, evs)
  \/ PlanInput(a, evs) \/ PlanLifecycle(a, evs)

LEMMA StateMachineStates ==
  ASSUME NEW ev PROVE AcceptedFrom(ev) \subseteq TaskStates
BY DEF AcceptedFrom, TaskStates, Terminal

LEMMA InputModeStates ==
  ASSUME NEW m \in InputModes PROVE InputStates(m) \subseteq TaskStates
BY DEF InputStates, TaskStates, InputModes

LEMMA StateAfterType ==
  ASSUME NEW s \in TaskStates, NEW ev PROVE StateAfter(s, ev) \in TaskStates
BY DEF StateAfter, TaskStates

\* Every first presentation of a command is a rejection or commits a plan.
LEMMA ExecutePlans ==
  ASSUME NEW c \in CommandIds, Execute(c)
  PROVE  Reject(c) \/ \E a \in Aggregates, evs \in Seq(Planned) : Plan(a, evs) /\ Commit(c, a, evs)
<1>1. CASE \E s \in Sessions : CreateSession(c, s)
  <2>1. PICK s \in Sessions : CreateSession(c, s)
    BY <1>1
  <2>2. <<Event("session_created", NoArg)>> \in Seq(Planned)
    BY DEF Event, Planned, EventTypes, SessionEvents, Args
  <2> QED
    BY <2>1, <2>2 DEF CreateSession, Plan, PlanSession, Aggregates
<1>2. CASE \E s \in Sessions, t \in Tasks : CreateTask(c, s, t)
  <2>1. PICK s \in Sessions, t \in Tasks : CreateTask(c, s, t)
    BY <1>2
  <2>2. <<Event("task_created", s)>> \in Seq(Planned)
    BY DEF Event, Planned, EventTypes, TaskEvents, Args
  <2> QED
    BY <2>1, <2>2 DEF CreateTask, Plan, PlanTask, Aggregates
<1>3. CASE \E t \in Tasks, i \in Inputs, m \in InputModes : QueueTaskInput(c, t, i, m)
  <2>1. PICK t \in Tasks, i \in Inputs, m \in InputModes : QueueTaskInput(c, t, i, m)
    BY <1>3
  <2>2. /\ <<Event("task_input_queued", i)>> \in Seq(Planned)
        /\ <<Event("task_input_queued", i), Event("task_steered", NoArg)>> \in Seq(Planned)
    BY DEF Event, Planned, EventTypes, TaskEvents, Args
  <2> QED
    BY <2>1, <2>2, InputModeStates DEF QueueTaskInput, Plan, PlanInput, Aggregates
<1>4. CASE \E s \in Sessions : AskSideQuestion(c, s)
  <2>1. PICK s \in Sessions : AskSideQuestion(c, s)
    BY <1>4
  <2>2. <<Event("side_question_asked", NoArg)>> \in Seq(Planned)
    BY DEF Event, Planned, EventTypes, SessionEvents, Args
  <2> QED
    BY <2>1, <2>2 DEF AskSideQuestion, Plan, PlanSession, Aggregates
<1>5. CASE \E t \in Tasks : SetGoal(c, t)
  <2>1. PICK t \in Tasks : SetGoal(c, t)
    BY <1>5
  <2>2. <<Event("goal_set", NoArg)>> \in Seq(Planned)
    BY DEF Event, Planned, EventTypes, TaskEvents, Args
  <2> QED
    BY <2>1, <2>2 DEF SetGoal, Plan, PlanGoal, Aggregates
<1>6. CASE \E s, f \in Sessions, at \in 0..MaxLog : ForkSession(c, s, at, f)
  <2>1. PICK s \in Sessions, f \in Sessions, at \in 0..MaxLog : ForkSession(c, s, at, f)
    BY <1>6
  <2>2. <<Event("session_forked", s)>> \in Seq(Planned)
    BY DEF Event, Planned, EventTypes, SessionEvents, Args
  <2> QED
    BY <2>1, <2>2 DEF ForkSession, Plan, PlanSession, Aggregates
<1>7. CASE RewindSession(c)
  BY <1>7 DEF RewindSession
<1>8. ASSUME NEW t \in Tasks, NEW k, NEW arg \in {NoArg, "verified", "claimed"},
             k \in LifecycleKinds \cup {"CompleteTask"},
             k = "CompleteTask" => arg # NoArg,
             Lifecycle(c, t, k, arg)
      PROVE  Reject(c) \/ \E a \in Aggregates, evs \in Seq(Planned) : Plan(a, evs) /\ Commit(c, a, evs)
  <2> DEFINE ev == LifecycleEvent(k)
  <2>1. /\ ev \in LifecycleEvents \cup {"review_hunk_resolved", "review_comment_added"}
        /\ ev = "task_completed" => k = "CompleteTask"
    BY <1>8 DEF LifecycleEvent, LifecycleKinds, LifecycleEvents
  <2>2. <<Event(ev, arg)>> \in Seq(Planned)
    BY <2>1 DEF Event, Planned, EventTypes, TaskEvents, Args, LifecycleEvents
  <2> HIDE DEF ev
  <2>3. CASE folded[t] \in AcceptedFrom(ev) /\ ~(arg = "claimed" /\ GoalMode(t))
    <3>1. Commit(c, t, <<Event(ev, arg)>>)
      BY <1>8, <2>3 DEF Lifecycle, ev
    <3>2. PlanLifecycle(t, <<Event(ev, arg)>>)
      BY <1>8, <2>1, <2>3 DEF PlanLifecycle
    <3> QED
      BY <2>2, <3>1, <3>2 DEF Plan, Aggregates
  <2>4. CASE ~(folded[t] \in AcceptedFrom(ev) /\ ~(arg = "claimed" /\ GoalMode(t)))
    BY <1>8, <2>4 DEF Lifecycle, ev
  <2> QED
    BY <2>3, <2>4
<1> QED
  <2>1. CASE \E t \in Tasks, k \in Kinds \cap LifecycleKinds : Lifecycle(c, t, k, NoArg)
    <3>1. PICK t \in Tasks, k \in LifecycleKinds : Lifecycle(c, t, k, NoArg)
      BY <2>1
    <3>2. k # "CompleteTask"
      BY <3>1 DEF LifecycleKinds
    <3> QED
      BY <1>8, <3>1, <3>2
  <2>2. CASE \E t \in Tasks, v \in {"verified", "claimed"} : Lifecycle(c, t, "CompleteTask", v)
    <3>1. PICK t \in Tasks, v \in {"verified", "claimed"} : Lifecycle(c, t, "CompleteTask", v)
      BY <2>2
    <3>2. v # NoArg
      BY IdsAssumption
    <3> QED
      BY <1>8, <3>1, <3>2
  <2> QED
    BY <1>1, <1>2, <1>3, <1>4, <1>5, <1>6, <1>7, <2>1, <2>2 DEF Execute

-----------------------------------------------------------------------------
(***************************************************************************)
(* Type correctness.                                                       *)
(***************************************************************************)
Writers == CommandIds \cup Leases \cup {NoLease}

LEMMA PlanShape ==
  ASSUME NEW a \in Aggregates, NEW evs \in Seq(Planned), Plan(a, evs)
  PROVE  /\ Len(evs) = 1 \/ Len(evs) = 2
         /\ Len(evs) = 2 => evs[2].type = "task_steered"
         /\ evs[1].type = "session_created" => a \in Sessions
         /\ evs[1].type = "task_input_queued" => a \in Tasks /\ evs[1].arg \in Inputs
<1>1. CASE PlanSession(a, evs)
  BY <1>1 DEF PlanSession, Event
<1>2. CASE PlanTask(a, evs)
  BY <1>2 DEF PlanTask, Event
<1>3. CASE PlanGoal(a, evs)
  BY <1>3 DEF PlanGoal, Event
<1>4. CASE PlanInput(a, evs)
  BY <1>4 DEF PlanInput, Event
<1>5. CASE PlanLifecycle(a, evs)
  BY <1>5 DEF PlanLifecycle, Event, LifecycleEvents
<1> QED
  BY <1>1, <1>2, <1>3, <1>4, <1>5 DEF Plan

\* The rows made of planned events: as many, numbered from `first' on.
LEMMA RowsShape ==
  ASSUME NEW by \in Writers, NEW first \in Nat \ {0}, NEW evs \in Seq(Planned)
  PROVE  /\ Rows(by, first, evs) \in Seq(Row)
         /\ Len(Rows(by, first, evs)) = Len(evs)
         /\ \A i \in 1..Len(evs) : /\ Rows(by, first, evs)[i].seq = first + i - 1
                                   /\ Rows(by, first, evs)[i].type = evs[i].type
                                   /\ Rows(by, first, evs)[i].arg = evs[i].arg
                                   /\ Rows(by, first, evs)[i].by = by
<1>1. DOMAIN evs = 1..Len(evs) /\ Len(evs) \in Nat
  OBVIOUS
<1>2. \A i \in 1..Len(evs) :
        [seq |-> first + i - 1, type |-> evs[i].type, arg |-> evs[i].arg, by |-> by] \in Row
  <2>1. \A e \in Planned : e.type \in EventTypes /\ e.arg \in Args
    BY DEF Planned
  <2>2. SUFFICES ASSUME NEW i \in 1..Len(evs)
                 PROVE  [seq |-> first + i - 1, type |-> evs[i].type,
                         arg |-> evs[i].arg, by |-> by] \in Row
    OBVIOUS
  <2>3. evs[i].type \in EventTypes /\ evs[i].arg \in Args
    BY <1>1, <2>1
  <2>4. first + i - 1 \in Nat \ {0}
    BY <1>1
  <2> QED
    BY <2>3, <2>4 DEF Row, Writers
<1>3. Rows(by, first, evs) \in [1..Len(evs) -> Row]
  BY <1>1, <1>2 DEF Rows
<1> QED
  BY <1>1, <1>3 DEF Rows

\* The rows an insertion puts at the end of a stream.
LEMMA InsertShape ==
  ASSUME TypeOK, NEW a \in Aggregates, NEW rows \in Seq(Row),
         Len(rows) = 1 \/ Len(rows) = 2, Insert(a, rows)
  PROVE  /\ stream' = [stream EXCEPT ![a] = @ \o rows]
         /\ stream' \in [Aggregates -> Seq(Row)]
         /\ Len(stream'[a]) = Len(stream[a]) + Len(rows)
         /\ \A i \in 1..Len(stream[a]) : stream'[a][i] = stream[a][i]
         /\ \A i \in 1..Len(rows) : stream'[a][Len(stream[a]) + i] = rows[i]
         /\ \A b \in Aggregates \ {a} : stream'[b] = stream[b]
         /\ log' \in Seq([agg : Aggregates, seq : Nat \ {0}])
<1>1. stream[a] \in Seq(Row)
  BY DEF TypeOK
<1>2. stream[a] \o rows \in Seq(Row)
  BY <1>1
<1>3. stream' = [stream EXCEPT ![a] = @ \o rows] /\ stream' \in [Aggregates -> Seq(Row)]
  BY <1>2 DEF Insert, TypeOK
<1>4. stream'[a] = stream[a] \o rows
  BY <1>3 DEF TypeOK
<1>5. log' \in Seq([agg : Aggregates, seq : Nat \ {0}])
  <2> DEFINE L == [i \in DOMAIN rows |-> [agg |-> a, seq |-> rows[i].seq]]
  <2>1. L \in Seq([agg : Aggregates, seq : Nat \ {0}])
    <3>1. DOMAIN rows = 1..Len(rows) /\ Len(rows) \in Nat
      OBVIOUS
    <3>2. \A i \in 1..Len(rows) : rows[i].seq \in Nat \ {0}
      <4>1. \A r \in Row : r.seq \in Nat \ {0}
        BY DEF Row
      <4> QED
        BY <4>1
    <3> QED
      BY <3>1, <3>2
  <2>2. log' = log \o L /\ log \in Seq([agg : Aggregates, seq : Nat \ {0}])
    BY DEF Insert, TypeOK
  <2> HIDE DEF L
  <2> QED
    BY <2>1, <2>2
<1> QED
  BY <1>1, <1>3, <1>4, <1>5

LEMMA FoldStepType ==
  ASSUME NEW acc \in FoldResults, NEW ev PROVE FoldStep(acc, ev) \in FoldResults
<1>1. CASE acc \in TaskStates
  BY <1>1, StateAfterType DEF FoldStep, ApplyTaskEvent, FoldResults, TaskStates
<1>2. CASE acc \notin TaskStates
  BY <1>2 DEF FoldStep, FoldResults, TaskStates
<1> QED
  BY <1>1, <1>2

LEMMA InsertFolds ==
  ASSUME TypeOK, NEW a \in Aggregates, NEW rows \in Seq(Row),
         Len(rows) = 1 \/ Len(rows) = 2, Insert(a, rows)
  PROVE  folded' \in [Tasks -> FoldResults]
<1>1. CASE a \in Tasks
  <2>1. folded[a] \in FoldResults
    BY <1>1 DEF TypeOK
  <2>2. ForEach(FoldRow, folded[a], rows) \in FoldResults
    BY <2>1, FoldStepType DEF ForEach, FoldRow
  <2> QED
    BY <1>1, <2>2 DEF Insert, TypeOK
<1>2. CASE a \notin Tasks
  BY <1>2 DEF Insert, TypeOK
<1> QED
  BY <1>1, <1>2

LEMMA RowFields ==
  ASSUME NEW r \in Row
  PROVE  r.seq \in Nat \ {0} /\ r.type \in EventTypes /\ r.arg \in Args /\ r.by \in Writers
BY DEF Row, Writers

TaskRows == [state : TaskStates, gen : Nat] \cup {NoRow}

LEMMA ProjectTaskRowType ==
  ASSUME NEW old \in TaskRows, NEW r \in Row PROVE ProjectTaskRow(old, r) \in TaskRows
<1>1. r.seq \in Nat
  BY RowFields
<1>2. CASE old = NoRow
  BY <1>1, <1>2 DEF ProjectTaskRow, TaskRows, TaskStates
<1>3. CASE old \in [state : TaskStates, gen : Nat]
  <2>1. StateAfter(old.state, r.type) \in TaskStates
    BY <1>3, StateAfterType
  <2> QED
    BY <1>1, <1>3, <2>1 DEF ProjectTaskRow, TaskRows, TaskStates
<1> QED
  BY <1>2, <1>3 DEF TaskRows

LEMMA ProjectType ==
  ASSUME TypeOK, NEW a \in Aggregates, NEW rows \in Seq(Row),
         Len(rows) = 1 \/ Len(rows) = 2,
         rows[1].type = "session_created" => a \in Sessions,
         rows[1].type = "task_input_queued" => a \in Tasks /\ rows[1].arg \in Inputs,
         Project(a, rows)
  PROVE  /\ sessionRows' \subseteq Sessions
         /\ taskRow' \in [Tasks -> TaskRows]
         /\ taskInputs' \subseteq [input : Inputs, task : Tasks, seq : Nat]
<1>1. rows[1] \in Row /\ (Len(rows) = 2 => rows[2] \in Row)
  OBVIOUS
<1>2. sessionRows' \subseteq Sessions
  BY DEF Project, TypeOK
<1>3. taskRow' \in [Tasks -> TaskRows]
  <2>1. taskRow \in [Tasks -> TaskRows]
    BY DEF TypeOK, TaskRows
  <2>2. ASSUME a \in Tasks PROVE ForEach(ProjectTaskRow, taskRow[a], rows) \in TaskRows
    BY <1>1, <2>1, <2>2, ProjectTaskRowType DEF ForEach
  <2> QED
    BY <2>1, <2>2 DEF Project
<1>4. taskInputs' \subseteq [input : Inputs, task : Tasks, seq : Nat]
  <2>1. rows[1].seq \in Nat
    BY <1>1, RowFields
  <2> QED
    BY <2>1 DEF Project, TypeOK
<1> QED
  BY <1>2, <1>3, <1>4

LEMMA RecordType ==
  ASSUME TypeOK, NEW c \in CommandIds, NEW ids \in SUBSET (Aggregates \X Nat),
         NEW status \in {"APPLIED", "REJECTED"}, Record(c, status, ids)
  PROVE  cmdlog' \in [CommandIds -> CmdEntry]
BY DEF TypeOK, Record, CmdEntry

\* What a committed plan did: all its rows, projected, under an APPLIED outcome, or
\* the first row alone, not projected, under a REJECTED one.
Committed(c, a, evs, rows) ==
  /\ Len(rows) = 1 \/ Len(rows) = 2
  /\ Len(rows) <= Len(evs)
  /\ \A i \in 1..Len(rows) : /\ rows[i].seq = Len(stream[a]) + i
                             /\ rows[i].type = evs[i].type
                             /\ rows[i].arg = evs[i].arg
                             /\ rows[i].by = c
  /\ Insert(a, rows)
  /\ \/ /\ Len(rows) = Len(evs) /\ Projects(a, rows[1]) /\ Project(a, rows)
        /\ Record(c, "APPLIED", {<<a, rows[i].seq>> : i \in DOMAIN rows})
     \/ /\ Len(rows) = 1 /\ ~Projects(a, rows[1]) /\ UNCHANGED projections
        /\ Record(c, "REJECTED", {})
  /\ UNCHANGED leases

LEMMA CommitShape ==
  ASSUME TypeOK, NEW c \in CommandIds, NEW a \in Aggregates, NEW evs \in Seq(Planned),
         Plan(a, evs), Commit(c, a, evs)
  PROVE  \E rows \in Seq(Row) : Committed(c, a, evs, rows)
<1> DEFINE all == Rows(c, Len(stream[a]) + 1, evs)
<1>1. Len(stream[a]) \in Nat /\ Len(stream[a]) + 1 \in Nat \ {0}
  BY DEF TypeOK
<1>2. c \in Writers
  BY DEF Writers
<1>3. /\ all \in Seq(Row) /\ Len(all) = Len(evs)
      /\ \A i \in 1..Len(evs) : /\ all[i].seq = Len(stream[a]) + 1 + i - 1
                                /\ all[i].type = evs[i].type
                                /\ all[i].arg = evs[i].arg
                                /\ all[i].by = c
  BY <1>1, <1>2, RowsShape, Zenon
<1>4. Len(all) = 1 \/ Len(all) = 2
  BY <1>3, PlanShape, Zenon
<1>5. /\ \/ /\ Projects(a, all[1]) /\ Insert(a, all) /\ Project(a, all)
            /\ Record(c, "APPLIED", {<<a, all[i].seq>> : i \in DOMAIN all})
         \/ /\ ~Projects(a, all[1]) /\ Insert(a, <<all[1]>>)
            /\ Record(c, "REJECTED", {}) /\ UNCHANGED projections
      /\ UNCHANGED leases
  BY DEF Commit
<1> HIDE DEF all
<1>6. \A i \in 1..Len(evs) : all[i].seq = Len(stream[a]) + i
  <2> SUFFICES ASSUME NEW i \in 1..Len(evs) PROVE all[i].seq = Len(stream[a]) + i
    OBVIOUS
  <2>1. all[i].seq = Len(stream[a]) + 1 + i - 1
    BY <1>3, Zenon
  <2> QED
    BY <1>1, <2>1
<1>7. CASE /\ Projects(a, all[1]) /\ Insert(a, all) /\ Project(a, all)
           /\ Record(c, "APPLIED", {<<a, all[i].seq>> : i \in DOMAIN all})
  <2>1. Len(all) <= Len(evs)
    BY <1>3
  <2>2. Committed(c, a, evs, all)
    BY <1>3, <1>4, <1>5, <1>6, <1>7, <2>1, Zenon DEF Committed
  <2> QED
    BY <1>3, <2>2
<1>8. CASE /\ ~Projects(a, all[1]) /\ Insert(a, <<all[1]>>)
           /\ Record(c, "REJECTED", {}) /\ UNCHANGED projections
  <2> DEFINE one == <<all[1]>>
  <2>1. 1 \in 1..Len(evs) /\ 1 <= Len(evs)
    BY <1>3, <1>4
  <2>2. one \in Seq(Row) /\ Len(one) = 1 /\ one[1] = all[1]
    BY <1>3, <1>4
  <2>3. /\ all[1].seq = Len(stream[a]) + 1 /\ all[1].type = evs[1].type
        /\ all[1].arg = evs[1].arg /\ all[1].by = c
    BY <1>3, <1>6, <2>1, Zenon
  <2>4. Insert(a, one)
    BY <1>8
  <2> HIDE DEF one
  <2>5. \A i \in 1..Len(one) : i = 1
    BY <2>2
  <2>6. Len(one) <= Len(evs)
    BY <2>1, <2>2
  <2>7. Committed(c, a, evs, one)
    BY <1>5, <1>8, <2>2, <2>3, <2>4, <2>5, <2>6, Zenon DEF Committed
  <2> QED
    BY <2>2, <2>7
<1> QED
  BY <1>5, <1>7, <1>8

LEMMA CommitType ==
  ASSUME TypeOK, NEW c \in CommandIds, NEW a \in Aggregates, NEW evs \in Seq(Planned),
         Plan(a, evs), Commit(c, a, evs)
  PROVE  TypeOK'
<1>1. PICK rows \in Seq(Row) : Committed(c, a, evs, rows)
  BY CommitShape
<1>2. /\ Len(rows) = 1 \/ Len(rows) = 2
      /\ rows[1].type = evs[1].type /\ rows[1].arg = evs[1].arg
      /\ Insert(a, rows) /\ UNCHANGED leases
  BY <1>1 DEF Committed
<1>3. /\ rows[1].type = "session_created" => a \in Sessions
      /\ rows[1].type = "task_input_queued" => a \in Tasks /\ rows[1].arg \in Inputs
  BY <1>2, PlanShape
<1>4. /\ stream' \in [Aggregates -> Seq(Row)]
      /\ log' \in Seq([agg : Aggregates, seq : Nat \ {0}])
      /\ folded' \in [Tasks -> FoldResults]
  BY <1>2, InsertShape, InsertFolds
<1>5. /\ sessionRows' \subseteq Sessions
      /\ taskRow' \in [Tasks -> TaskRows]
      /\ taskInputs' \subseteq [input : Inputs, task : Tasks, seq : Nat]
  <2>1. CASE Project(a, rows)
    BY <1>2, <1>3, <2>1, ProjectType
  <2>2. CASE UNCHANGED projections
    BY <2>2 DEF projections, TypeOK, TaskRows
  <2> QED
    BY <1>1, <2>1, <2>2 DEF Committed
<1>6. cmdlog' \in [CommandIds -> CmdEntry]
  <2>1. {<<a, rows[i].seq>> : i \in DOMAIN rows} \in SUBSET (Aggregates \X Nat)
    <3>1. \A i \in DOMAIN rows : rows[i] \in Row
      OBVIOUS
    <3> QED
      BY <3>1, RowFields
  <2> QED
    BY <1>1, <2>1, RecordType DEF Committed
<1> QED
  BY <1>2, <1>4, <1>5, <1>6 DEF TypeOK, TaskRows, leases

LEMMA Append1Type ==
  ASSUME TypeOK, NEW by \in Writers, NEW r \in Runs, NEW n \in 1..(MaxLog + 1), Append1(by, r, n)
  PROVE  TypeOK'
<1> DEFINE evs == <<Event("run_event", NoArg)>>
           rows == Rows(by, n, evs)
<1>1. evs \in Seq(Planned) /\ Len(evs) = 1
  BY DEF Event, Planned, EventTypes, Args
<1>2. n \in Nat \ {0}
  BY BoundsAssumption
<1> HIDE DEF evs
<1>3. rows \in Seq(Row) /\ Len(rows) = 1
  BY <1>1, <1>2, RowsShape
<1> HIDE DEF rows
<1>4. CASE Insert(r, rows) /\ UNCHANGED <<cmdlog, projections, leases>>
  <2>1. /\ stream' \in [Aggregates -> Seq(Row)]
        /\ log' \in Seq([agg : Aggregates, seq : Nat \ {0}])
        /\ folded' \in [Tasks -> FoldResults]
    BY <1>3, <1>4, InsertShape, InsertFolds DEF Aggregates
  <2> QED
    BY <1>4, <2>1 DEF TypeOK, projections, leases
<1>5. CASE UNCHANGED vars
  BY <1>5 DEF TypeOK, vars, events, projections, leases
<1> QED
  BY <1>4, <1>5 DEF Append1, rows, evs

LEMMA AcquireType ==
  ASSUME TypeOK, NEW s \in Sessions, NEW l \in Leases, AcquireLease(s, l)
  PROVE  TypeOK'
<1>1. lease[s].gen + 1 \in Nat \ {0}
  BY DEF TypeOK
<1> QED
  BY <1>1 DEF TypeOK, AcquireLease, events, projections

\* A step of the store is a rejection, a committed plan, an acquired lease, one
\* run-plane append, or changes nothing.
LEMMA StepCases ==
  ASSUME [Next]_vars
  PROVE  \/ \E c \in CommandIds : Fresh(c) /\ Reject(c)
         \/ \E c \in CommandIds, a \in Aggregates, evs \in Seq(Planned) :
              Fresh(c) /\ Plan(a, evs) /\ Commit(c, a, evs)
         \/ \E s \in Sessions, l \in Leases : AcquireLease(s, l)
         \/ \E l \in Leases, r \in Runs, n \in 1..(MaxLog + 1) :
              granted[l] # NoLease /\ IsCurrent(granted[l].session, l) /\ Append1(l, r, n)
         \/ \E r \in Runs, n \in 1..(MaxLog + 1) : Append1(NoLease, r, n)
         \/ UNCHANGED vars
<1>1. ASSUME NEW c \in CommandIds, Execute(c)
      PROVE  \/ Fresh(c) /\ Reject(c)
             \/ \E a \in Aggregates, evs \in Seq(Planned) :
                  Fresh(c) /\ Plan(a, evs) /\ Commit(c, a, evs)
  <2>1. Fresh(c)
    BY <1>1 DEF Execute
  <2> QED
    BY <1>1, <2>1, ExecutePlans
<1>2. ASSUME NEW l \in Leases, NEW r \in Runs, NEW n \in 1..(MaxLog + 1), AppendWithLease(l, r, n)
      PROVE  \/ UNCHANGED vars
             \/ granted[l] # NoLease /\ IsCurrent(granted[l].session, l) /\ Append1(l, r, n)
  BY <1>2 DEF AppendWithLease
<1> QED
  BY <1>1, <1>2 DEF Next, Replay, AppendUnfenced

LEMMA TypeStep ==
  ASSUME TypeOK, [Next]_vars PROVE TypeOK'
<1>1. ASSUME NEW c \in CommandIds, Reject(c) PROVE TypeOK'
  <2>1. cmdlog' \in [CommandIds -> CmdEntry]
    BY <1>1, RecordType DEF Reject
  <2> QED
    BY <1>1, <2>1 DEF Reject, TypeOK, events, projections, leases
<1>2. ASSUME NEW l \in Leases \cup {NoLease}, NEW r \in Runs, NEW n \in 1..(MaxLog + 1), Append1(l, r, n)
      PROVE  TypeOK'
  <2>1. l \in Writers
    BY DEF Writers
  <2> QED
    BY <1>2, <2>1, Append1Type
<1>3. CASE UNCHANGED vars
  BY <1>3 DEF TypeOK, vars, events, projections, leases
<1> QED
  BY <1>1, <1>2, <1>3, StepCases, CommitType, AcquireType

\* The tables keep their types: no command, append or lease acquisition puts a
\* malformed row into the events table, the projections or the command log.
THEOREM TypeCorrect == Spec => []TypeOK
<1>1. Init => TypeOK
  BY DEF Init, TypeOK, FoldResults, CmdEntry
<1>2. TypeOK /\ [Next]_vars => TypeOK'
  BY TypeStep
<1> QED
  BY <1>1, <1>2, PTL DEF Spec

-----------------------------------------------------------------------------
(***************************************************************************)
(* Gapless.  A command numbers its rows from the length of the stream; an  *)
(* append checks its number against the largest one.  Both continue the    *)
(* stream because, as long as it is gapless, the two are the same.         *)
(***************************************************************************)
LEMMA MaxSequenceIsLen ==
  ASSUME TypeOK, Gapless, NEW a \in Aggregates
  PROVE  MaxSequence(a) = Len(stream[a])
<1> DEFINE n == Len(stream[a])
           S == {0} \cup {stream[a][i].seq : i \in DOMAIN stream[a]}
           P(m) == \A i \in DOMAIN stream[a] : stream[a][i].seq <= m
<1>1. n \in Nat /\ DOMAIN stream[a] = 1..n
  BY DEF TypeOK
<1>2. \A i \in 1..n : stream[a][i].seq = i
  BY <1>1 DEF Gapless
<1>3. n \in S /\ P(n)
  BY <1>1, <1>2
<1>4. \A m \in S : P(m) => m = n
  <2> SUFFICES ASSUME NEW m \in S, P(m) PROVE m = n
    OBVIOUS
  <2>1. m \in 0..n
    BY <1>1, <1>2
  <2>2. n # 0 => n <= m
    BY <1>1, <1>2
  <2> QED
    BY <1>1, <2>1, <2>2
<1>5. MaxSequence(a) = CHOOSE m \in S : P(m)
  BY DEF MaxSequence
<1> HIDE DEF n, S, P
<1>6. (CHOOSE m \in S : P(m)) \in S /\ P(CHOOSE m \in S : P(m))
  BY <1>3
<1>7. MaxSequence(a) = n
  BY <1>4, <1>5, <1>6
<1> QED
  BY <1>7 DEF n

LEMMA InsertGapless ==
  ASSUME TypeOK, Gapless, NEW a \in Aggregates, NEW rows \in Seq(Row),
         Len(rows) = 1 \/ Len(rows) = 2, Insert(a, rows),
         \A i \in 1..Len(rows) : rows[i].seq = Len(stream[a]) + i
  PROVE  Gapless'
<1>1. ASSUME NEW b \in Aggregates, NEW i \in DOMAIN stream'[b] PROVE stream'[b][i].seq = i
  <2>1. CASE b # a
    BY <1>1, <2>1, InsertShape DEF Gapless
  <2>2. CASE b = a
    <3>1. stream[a] \in Seq(Row) /\ stream'[a] \in Seq(Row)
      BY InsertShape DEF TypeOK
    <3>2. i \in 1..(Len(stream[a]) + Len(rows))
      BY <1>1, <2>2, <3>1, InsertShape
    <3>3. CASE i \in 1..Len(stream[a])
      BY <2>2, <3>1, <3>3, InsertShape DEF Gapless
    <3>4. CASE i \notin 1..Len(stream[a])
      <4> DEFINE k == i - Len(stream[a])
      <4>1. k \in 1..Len(rows) /\ i = Len(stream[a]) + k
        BY <3>1, <3>2, <3>4
      <4> HIDE DEF k
      <4> QED
        BY <2>2, <4>1, InsertShape
    <3> QED
      BY <3>3, <3>4
  <2> QED
    BY <2>1, <2>2
<1> QED
  BY <1>1 DEF Gapless

\* The row of an append that is not refused continues the stream.
LEMMA Append1Shape ==
  ASSUME TypeOK, Gapless, NEW by \in Writers, NEW r \in Runs, NEW n \in 1..(MaxLog + 1),
         Append1(by, r, n)
  PROVE  \/ UNCHANGED vars
         \/ /\ UNCHANGED <<cmdlog, projections, leases>>
            /\ \E rows \in Seq(Row) :
                 /\ Len(rows) = 1 /\ Insert(r, rows)
                 /\ rows[1].seq = Len(stream[r]) + 1 /\ rows[1].by = by
                 /\ rows[1].type = "run_event"
<1> DEFINE evs == <<Event("run_event", NoArg)>>
           rows == Rows(by, n, evs)
<1>1. evs \in Seq(Planned) /\ Len(evs) = 1 /\ evs[1].type = "run_event"
  BY DEF Event, Planned, EventTypes, Args
<1>2. n \in Nat \ {0}
  BY BoundsAssumption
<1>3. \/ Continuous(r, rows) /\ Insert(r, rows) /\ UNCHANGED <<cmdlog, projections, leases>>
      \/ UNCHANGED vars
  BY DEF Append1
<1> HIDE DEF evs
<1>4. /\ rows \in Seq(Row) /\ Len(rows) = Len(evs)
      /\ \A i \in 1..Len(evs) : rows[i].type = evs[i].type /\ rows[i].by = by
  <2>1. /\ rows \in Seq(Row) /\ Len(rows) = Len(evs)
        /\ \A i \in 1..Len(evs) : /\ rows[i].seq = n + i - 1
                                  /\ rows[i].type = evs[i].type
                                  /\ rows[i].arg = evs[i].arg
                                  /\ rows[i].by = by
    BY <1>1, <1>2, RowsShape, Zenon
  <2> HIDE DEF rows
  <2> QED
    BY <2>1, Zenon
<1> HIDE DEF rows
<1>5. CASE Continuous(r, rows) /\ Insert(r, rows) /\ UNCHANGED <<cmdlog, projections, leases>>
  <2>1. 1 \in DOMAIN rows
    BY <1>1, <1>4
  <2>2. rows[1].seq = Len(stream[r]) + 1
    BY <1>5, <2>1, MaxSequenceIsLen DEF Continuous, Aggregates
  <2>3. rows[1].by = by /\ rows[1].type = "run_event"
    BY <1>1, <1>4
  <2> QED
    BY <1>1, <1>4, <1>5, <2>2, <2>3
<1> QED
  BY <1>3, <1>5

LEMMA GaplessStep ==
  ASSUME TypeOK, Gapless, [Next]_vars PROVE Gapless'
<1>1. ASSUME NEW c \in CommandIds, NEW a \in Aggregates, NEW evs \in Seq(Planned),
             Plan(a, evs), Commit(c, a, evs)
      PROVE  Gapless'
  <2>1. PICK rows \in Seq(Row) : Committed(c, a, evs, rows)
    BY <1>1, CommitShape
  <2> QED
    BY <2>1, InsertGapless DEF Committed
<1>2. ASSUME NEW l \in Leases \cup {NoLease}, NEW r \in Runs, NEW n \in 1..(MaxLog + 1), Append1(l, r, n)
      PROVE  Gapless'
  <2>1. l \in Writers /\ r \in Aggregates
    BY DEF Writers, Aggregates
  <2>2. CASE UNCHANGED vars
    BY <2>2 DEF Gapless, vars, events
  <2>3. ASSUME NEW rows \in Seq(Row), Len(rows) = 1, Insert(r, rows),
               rows[1].seq = Len(stream[r]) + 1
        PROVE  Gapless'
    <3>1. \A i \in 1..Len(rows) : rows[i].seq = Len(stream[r]) + i
      BY <2>3
    <3> QED
      BY <2>1, <2>3, <3>1, InsertGapless
  <2> QED
    BY <1>2, <2>1, <2>2, <2>3, Append1Shape
<1>3. ASSUME UNCHANGED stream PROVE Gapless'
  BY <1>3 DEF Gapless
<1>4. ASSUME NEW c \in CommandIds, Reject(c) PROVE Gapless'
  BY <1>3, <1>4 DEF Reject, events
<1>5. ASSUME NEW s \in Sessions, NEW l \in Leases, AcquireLease(s, l) PROVE Gapless'
  BY <1>3, <1>5 DEF AcquireLease, events
<1>6. CASE UNCHANGED vars
  BY <1>3, <1>6 DEF vars, events
<1> QED
  BY <1>1, <1>2, <1>4, <1>5, <1>6, StepCases

\* verify_stream succeeds on every aggregate, whatever sequence numbers the writers
\* present: no row is lost, duplicated or misnumbered.
THEOREM GaplessAlways == Spec => []Gapless
<1>1. Init => Gapless
  BY DEF Init, Gapless
<1>2. TypeOK /\ Gapless /\ [Next]_vars => Gapless'
  BY GaplessStep
<1> QED
  BY <1>1, <1>2, TypeCorrect, PTL DEF Spec

-----------------------------------------------------------------------------
(***************************************************************************)
(* The tasks table.                                                        *)
(***************************************************************************)

\* A task without events has neither a fold nor a row.  RowMatchesFold needs it at
\* the creation of a task, whose row must not replace an older one.
UnbornTasks == \A t \in Tasks : stream[t] = <<>> => folded[t] = None /\ taskRow[t] = NoRow

RowInv == RowMatchesFold /\ UnbornTasks

BoardState(row) == IF row = NoRow THEN None ELSE row.state

\* What a step does to one task: its stream only grows, the fold and the row move
\* together, or the fold is poisoned and the row stays where it was.
TaskStep(t) ==
  \/ /\ folded[t] = None /\ taskRow[t] = NoRow
     /\ folded'[t] = "created"
     /\ taskRow'[t] = NoRow \/ BoardState(taskRow'[t]) = "created"
  \/ \E ev \in TaskEvents :
       /\ folded[t] \in AcceptedFrom(ev)
       /\ folded'[t] = StateAfter(folded[t], ev)
       /\ IF taskRow[t] = NoRow THEN taskRow'[t] = NoRow
          ELSE taskRow'[t] # NoRow /\ taskRow'[t].state = StateAfter(taskRow[t].state, ev)
  \/ /\ folded'[t] \in {folded[t], Poisoned}
     /\ IF taskRow[t] = NoRow THEN taskRow'[t] = NoRow
        ELSE taskRow'[t] # NoRow /\ taskRow'[t].state = taskRow[t].state

\* NoRow is no record, so a projected row is never mistaken for a missing one.
LEMMA RecordIsRow ==
  ASSUME NEW s \in TaskStates, NEW n \in Nat
  PROVE  [state |-> s, gen |-> n] # NoRow
BY IdsAssumption

LEMMA ProjectTaskRowState ==
  ASSUME NEW old \in TaskRows, NEW r \in Row
  PROVE  /\ r.type = "task_created" =>
              ProjectTaskRow(old, r) # NoRow /\ ProjectTaskRow(old, r).state = "created"
         /\ r.type # "task_created" /\ old = NoRow => ProjectTaskRow(old, r) = NoRow
         /\ r.type \in LifecycleEvents /\ old # NoRow =>
              /\ ProjectTaskRow(old, r) # NoRow
              /\ ProjectTaskRow(old, r).state = StateAfter(old.state, r.type)
         /\ r.type # "task_created" /\ r.type \notin LifecycleEvents =>
              ProjectTaskRow(old, r) = old
<1>1. r.seq \in Nat
  BY RowFields
<1>2. ASSUME old # NoRow PROVE old.state \in TaskStates /\ StateAfter(old.state, r.type) \in TaskStates
  BY <1>2, StateAfterType DEF TaskRows
<1>3. "created" \in TaskStates /\ "task_created" \notin LifecycleEvents
  BY DEF TaskStates, LifecycleEvents
<1> QED
  BY <1>1, <1>2, <1>3, RecordIsRow DEF ProjectTaskRow

LEMMA FoldOfState ==
  ASSUME NEW s \in TaskStates, NEW ev
  PROVE  FoldStep(s, ev) = IF s \in AcceptedFrom(ev) THEN StateAfter(s, ev) ELSE Poisoned
BY DEF FoldStep, ApplyTaskEvent, TaskStates, None, Poisoned

LEMMA StateKept ==
  ASSUME NEW s, NEW ev \in {"goal_set", "task_input_queued", "task_steered",
                           "review_hunk_resolved", "review_comment_added"}
  PROVE  StateAfter(s, ev) = s
BY DEF StateAfter

\* Folding and projecting the rows of a batch, one by one.
LEMMA OneRow ==
  ASSUME TypeOK, NEW a \in Tasks, NEW rows \in Seq(Row), Len(rows) = 1, Insert(a, rows)
  PROVE  /\ folded'[a] = FoldStep(folded[a], rows[1].type)
         /\ Project(a, rows) => taskRow'[a] = ProjectTaskRow(taskRow[a], rows[1])
BY DEF TypeOK, Insert, Project, ForEach, FoldRow

LEMMA TwoRows ==
  ASSUME TypeOK, NEW a \in Tasks, NEW rows \in Seq(Row), Len(rows) = 2, Insert(a, rows)
  PROVE  /\ folded'[a] = FoldStep(FoldStep(folded[a], rows[1].type), rows[2].type)
         /\ Project(a, rows) =>
              taskRow'[a] = ProjectTaskRow(ProjectTaskRow(taskRow[a], rows[1]), rows[2])
BY DEF TypeOK, Insert, Project, ForEach, FoldRow

LEMMA CommitMovesTask ==
  ASSUME TypeOK, UnbornTasks, NEW c \in CommandIds, NEW a \in Tasks, NEW evs \in Seq(Planned),
         Plan(a, evs), NEW rows \in Seq(Row), Committed(c, a, evs, rows)
  PROVE  TaskStep(a)
<1>1. /\ folded[a] \in FoldResults /\ taskRow[a] \in TaskRows
      /\ Len(rows) = 1 \/ Len(rows) = 2
      /\ Insert(a, rows) /\ Len(rows) <= Len(evs)
      /\ rows[1] \in Row /\ rows[1].type = evs[1].type
      /\ Len(rows) = 2 => rows[2] \in Row /\ rows[2].type = evs[2].type
      /\ \/ Project(a, rows)
         \/ Len(rows) = 1 /\ ~Projects(a, rows[1]) /\ taskRow' = taskRow
  BY DEF TypeOK, TaskRows, Committed, projections
<1>2. CASE PlanTask(a, evs)
  <2>1. /\ folded[a] = None /\ taskRow[a] = NoRow
        /\ Len(evs) = 1 /\ evs[1].type = "task_created"
    BY <1>2 DEF PlanTask, UnbornTasks, Exists, Event
  <2>2. folded'[a] = "created"
    BY <1>1, <2>1, OneRow DEF FoldStep
  <2>3. taskRow'[a] = NoRow \/ BoardState(taskRow'[a]) = "created"
    BY <1>1, <2>1, OneRow, ProjectTaskRowState DEF BoardState
  <2> QED
    BY <2>1, <2>2, <2>3 DEF TaskStep
<1>3. CASE PlanGoal(a, evs)
  <2>1. Len(evs) = 1 /\ evs[1].type = "goal_set"
    BY <1>3 DEF PlanGoal, Event
  <2>2. folded'[a] \in {folded[a], Poisoned}
    <3>1. folded'[a] = FoldStep(folded[a], "goal_set")
      BY <1>1, <2>1, OneRow
    <3>2. CASE folded[a] \in TaskStates
      BY <3>1, <3>2, FoldOfState, StateKept
    <3>3. CASE folded[a] \notin TaskStates
      BY <1>1, <3>1, <3>3 DEF FoldResults, FoldStep
    <3> QED
      BY <3>2, <3>3
  <2>3. taskRow'[a] = taskRow[a]
    <3>1. "goal_set" \notin LifecycleEvents
      BY DEF LifecycleEvents
    <3> QED
      BY <1>1, <2>1, <3>1, OneRow, ProjectTaskRowState
  <2> QED
    BY <2>2, <2>3 DEF TaskStep
<1>4. CASE PlanInput(a, evs)
  <2>1. /\ folded[a] \in TaskStates /\ evs[1].type = "task_input_queued"
        /\ Len(evs) = 2 => evs[2].type = "task_steered"
    BY <1>4 DEF PlanInput, Event
  <2>2. FoldStep(folded[a], "task_input_queued") \in {folded[a], Poisoned}
    BY <2>1, FoldOfState, StateKept
  <2>3. ProjectTaskRow(taskRow[a], rows[1]) = taskRow[a]
    BY <1>1, <2>1, ProjectTaskRowState DEF LifecycleEvents
  <2>4. CASE Len(rows) = 1
    BY <1>1, <2>1, <2>2, <2>3, <2>4, OneRow DEF TaskStep
  <2>5. CASE Len(rows) = 2
    <3>1. Len(evs) = 2
      BY <1>1, <2>5, PlanShape DEF Aggregates
    <3>2. FoldStep(folded[a], "task_steered") \in {folded[a], Poisoned}
      BY <2>1, FoldOfState, StateKept
    <3>3. FoldStep(Poisoned, "task_steered") = Poisoned
      BY DEF FoldStep, None, Poisoned
    <3>4. folded'[a] \in {folded[a], Poisoned}
      BY <1>1, <2>1, <2>2, <2>5, <3>1, <3>2, <3>3, TwoRows
    <3>5. taskRow'[a] = ProjectTaskRow(taskRow[a], rows[2])
      BY <1>1, <2>3, <2>5, TwoRows
    <3>6. rows[2].type \in LifecycleEvents /\ rows[2].type = "task_steered"
      BY <1>1, <2>1, <2>5, <3>1 DEF LifecycleEvents
    <3>7. IF taskRow[a] = NoRow THEN taskRow'[a] = NoRow
          ELSE taskRow'[a] # NoRow /\ taskRow'[a].state = taskRow[a].state
      BY <1>1, <2>5, <3>5, <3>6, ProjectTaskRowState, StateKept
    <3> QED
      BY <3>4, <3>7 DEF TaskStep
  <2> QED
    BY <1>1, <2>4, <2>5
<1>5. CASE PlanLifecycle(a, evs)
  <2>1. PICK ev \in LifecycleEvents \cup {"review_hunk_resolved", "review_comment_added"} :
          folded[a] \in AcceptedFrom(ev) /\ Len(evs) = 1 /\ evs[1].type = ev
    BY <1>5 DEF PlanLifecycle, Event
  <2>2. ev \in TaskEvents /\ ev # "task_created" /\ ev # "task_input_queued"
    BY <2>1 DEF TaskEvents, LifecycleEvents
  <2>3. folded[a] \in TaskStates
    BY <2>1, StateMachineStates
  <2>4. folded'[a] = StateAfter(folded[a], ev)
    BY <1>1, <2>1, <2>3, OneRow, FoldOfState
  <2>5. taskRow'[a] = ProjectTaskRow(taskRow[a], rows[1])
    BY <1>1, <2>1, <2>2, OneRow DEF Projects
  <2>6. IF taskRow[a] = NoRow THEN taskRow'[a] = NoRow
        ELSE taskRow'[a] # NoRow /\ taskRow'[a].state = StateAfter(taskRow[a].state, ev)
    <3>1. CASE ev \in LifecycleEvents
      BY <1>1, <2>1, <2>2, <2>5, <3>1, ProjectTaskRowState
    <3>2. CASE ev \notin LifecycleEvents
      BY <1>1, <2>1, <2>2, <2>5, <3>2, ProjectTaskRowState, StateKept
    <3> QED
      BY <3>1, <3>2
  <2> QED
    BY <2>1, <2>2, <2>4, <2>6 DEF TaskStep
<1>6. ~PlanSession(a, evs)
  BY IdsAssumption DEF PlanSession
<1> QED
  BY <1>2, <1>3, <1>4, <1>5, <1>6 DEF Plan

\* A step changes one task by a TaskStep and leaves the others alone.
LEMMA StepMovesTasks ==
  ASSUME TypeOK, Gapless, UnbornTasks, [Next]_vars
  PROVE  \/ \A t \in Tasks : /\ folded'[t] = folded[t] /\ taskRow'[t] = taskRow[t]
                             /\ stream'[t] = stream[t]
         \/ \E a \in Tasks :
              /\ TaskStep(a) /\ stream'[a] # <<>>
              /\ \A t \in Tasks \ {a} : /\ folded'[t] = folded[t] /\ taskRow'[t] = taskRow[t]
                                       /\ stream'[t] = stream[t]
<1> DEFINE Same(t) == folded'[t] = folded[t] /\ taskRow'[t] = taskRow[t] /\ stream'[t] = stream[t]
<1>1. ASSUME NEW a \in Aggregates, NEW rows \in Seq(Row), Len(rows) = 1 \/ Len(rows) = 2,
             Insert(a, rows), Project(a, rows) \/ UNCHANGED projections
      PROVE  /\ \A t \in Tasks \ {a} : Same(t)
             /\ a \in Tasks => stream'[a] # <<>>
  <2>1. \A t \in Tasks \ {a} : stream'[t] = stream[t] /\ folded'[t] = folded[t]
    BY <1>1, InsertShape DEF Insert, TypeOK, Aggregates
  <2>2. \A t \in Tasks \ {a} : taskRow'[t] = taskRow[t]
    BY <1>1 DEF Project, projections, TypeOK
  <2>3. stream'[a] # <<>>
    <3> DEFINE n == Len(stream[a])
               k == Len(rows)
    <3>1. n \in Nat /\ k \in {1, 2} /\ Len(stream'[a]) = n + k
      BY <1>1, InsertShape DEF TypeOK
    <3> HIDE DEF n, k
    <3>2. n + k # 0
      BY <3>1
    <3> QED
      BY <3>1, <3>2
  <2> QED
    BY <2>1, <2>2, <2>3
<1>2. ASSUME NEW c \in CommandIds, NEW a \in Aggregates, NEW evs \in Seq(Planned),
             Plan(a, evs), Commit(c, a, evs)
      PROVE  \/ \A t \in Tasks : Same(t)
             \/ \E b \in Tasks : TaskStep(b) /\ stream'[b] # <<>> /\ \A t \in Tasks \ {b} : Same(t)
  <2>1. PICK rows \in Seq(Row) : Committed(c, a, evs, rows)
    BY <1>2, CommitShape
  <2>2. /\ \A t \in Tasks \ {a} : Same(t)
        /\ a \in Tasks => stream'[a] # <<>>
    BY <1>1, <2>1 DEF Committed
  <2>3. CASE a \in Tasks
    <3>1. TaskStep(a)
      BY <1>2, <2>1, <2>3, CommitMovesTask
    <3> QED
      BY <2>2, <2>3, <3>1
  <2>4. CASE a \notin Tasks
    BY <2>2, <2>4
  <2> QED
    BY <2>3, <2>4
<1>3. ASSUME NEW l \in Leases \cup {NoLease}, NEW r \in Runs, NEW n \in 1..(MaxLog + 1), Append1(l, r, n)
      PROVE  \A t \in Tasks : Same(t)
  <2>1. l \in Writers /\ r \in Aggregates /\ r \notin Tasks
    BY IdsAssumption DEF Writers, Aggregates
  <2>2. CASE UNCHANGED vars
    BY <2>2 DEF vars, events, projections
  <2>3. ASSUME NEW rows \in Seq(Row), Len(rows) = 1, Insert(r, rows), UNCHANGED projections
        PROVE  \A t \in Tasks : Same(t)
    BY <1>1, <2>1, <2>3
  <2> QED
    BY <1>3, <2>1, <2>2, <2>3, Append1Shape
<1>4. ASSUME UNCHANGED <<events, projections>> PROVE \A t \in Tasks : Same(t)
  BY <1>4 DEF events, projections
<1>5. ASSUME NEW c \in CommandIds, Reject(c) PROVE \A t \in Tasks : Same(t)
  BY <1>4, <1>5 DEF Reject
<1>6. ASSUME NEW s \in Sessions, NEW l \in Leases, AcquireLease(s, l) PROVE \A t \in Tasks : Same(t)
  BY <1>4, <1>6 DEF AcquireLease
<1>7. CASE UNCHANGED vars
  BY <1>4, <1>7 DEF vars
<1> QED
  BY <1>2, <1>3, <1>5, <1>6, <1>7, StepCases

LEMMA RowInvStep ==
  ASSUME TypeOK, Gapless, RowInv, [Next]_vars PROVE RowInv'
<1>1. CASE \A t \in Tasks : /\ folded'[t] = folded[t] /\ taskRow'[t] = taskRow[t]
                           /\ stream'[t] = stream[t]
  BY <1>1 DEF RowInv, RowMatchesFold, UnbornTasks
<1>2. ASSUME NEW a \in Tasks, TaskStep(a), stream'[a] # <<>>,
             \A t \in Tasks \ {a} : /\ folded'[t] = folded[t] /\ taskRow'[t] = taskRow[t]
                                  /\ stream'[t] = stream[t]
      PROVE  RowInv'
  <2>1. UnbornTasks'
    BY <1>2 DEF RowInv, UnbornTasks
  <2>2. ASSUME taskRow'[a] # NoRow, folded'[a] # Poisoned PROVE taskRow'[a].state = folded'[a]
    <3>1. \A ev : Poisoned \notin AcceptedFrom(ev)
      BY StateMachineStates DEF TaskStates, Poisoned
    <3> QED
      BY <1>2, <2>2, <3>1 DEF TaskStep, BoardState, RowInv, RowMatchesFold
  <2> QED
    BY <1>2, <2>1, <2>2 DEF RowInv, RowMatchesFold
<1> QED
  BY <1>1, <1>2, StepMovesTasks DEF RowInv

\* A client that reads the tasks table sees the state on which the command processor
\* decides, whatever commands were applied, rejected half-way or retried.
THEOREM RowsAgree == Spec => []RowMatchesFold
<1>1. Init => RowInv
  BY DEF Init, RowInv, RowMatchesFold, UnbornTasks
<1>2. TypeOK /\ Gapless /\ RowInv /\ [Next]_vars => RowInv'
  BY RowInvStep
<1>3. RowInv => RowMatchesFold
  BY DEF RowInv
<1> QED
  BY <1>1, <1>2, <1>3, TypeCorrect, GaplessAlways, PTL DEF Spec

-----------------------------------------------------------------------------
(***************************************************************************)
(* The refinement: every step maps to a step of the board or a stutter.    *)
(***************************************************************************)
board == [t \in Tasks |-> BoardState(taskRow[t])]

\* The board's copies of the state machine are the state machine.
LEMMA SameMachine ==
  /\ Board!None = None /\ Board!TaskEvents = TaskEvents
  /\ \A ev : Board!AcceptedFrom(ev) = AcceptedFrom(ev)
  /\ \A s, ev : Board!StateAfter(s, ev) = StateAfter(s, ev)
<1>1. Board!None = None /\ Board!TaskEvents = TaskEvents
  BY DEF Board!None, None, Board!TaskEvents, TaskEvents
<1>2. Board!TaskStates = TaskStates /\ Board!Terminal = Terminal
  BY DEF Board!TaskStates, TaskStates, Board!Terminal, Terminal
<1>3. \A ev : Board!AcceptedFrom(ev) = AcceptedFrom(ev)
  BY <1>2 DEF Board!AcceptedFrom, AcceptedFrom
<1>4. \A s, ev : Board!StateAfter(s, ev) = StateAfter(s, ev)
  BY DEF Board!StateAfter, StateAfter
<1> QED
  BY <1>1, <1>3, <1>4

LEMMA StepImplementsBoard ==
  ASSUME TypeOK, Gapless, RowInv, [Next]_vars
  PROVE  board' = board \/ Board!Next
<1>1. CASE \A t \in Tasks : /\ folded'[t] = folded[t] /\ taskRow'[t] = taskRow[t]
                           /\ stream'[t] = stream[t]
  BY <1>1 DEF board
<1>2. ASSUME NEW a \in Tasks, TaskStep(a),
             \A t \in Tasks \ {a} : /\ folded'[t] = folded[t] /\ taskRow'[t] = taskRow[t]
                                  /\ stream'[t] = stream[t]
      PROVE  board' = board \/ Board!Next
  <2>1. \A t \in Tasks \ {a} : board'[t] = board[t]
    BY <1>2 DEF board
  <2>2. board' = [board EXCEPT ![a] = BoardState(taskRow'[a])]
    BY <2>1 DEF board
  <2>3. CASE BoardState(taskRow'[a]) = BoardState(taskRow[a])
    BY <2>2, <2>3 DEF board
  <2>4. CASE board[a] = None /\ BoardState(taskRow'[a]) = "created"
    <3>1. Board!Appear(a)
      BY <2>2, <2>4, SameMachine DEF Board!Appear, board, BoardState
    <3> QED
      BY <3>1 DEF Board!Next
  <2>5. ASSUME NEW ev \in TaskEvents, board[a] \in AcceptedFrom(ev),
               BoardState(taskRow'[a]) = StateAfter(board[a], ev)
        PROVE  Board!Next
    <3>1. Board!Move(a, ev)
      BY <2>2, <2>5, SameMachine DEF Board!Move, board, BoardState
    <3> QED
      BY <2>5, <3>1, SameMachine DEF Board!Next
  <2>6. \/ BoardState(taskRow'[a]) = BoardState(taskRow[a])
        \/ board[a] = None /\ BoardState(taskRow'[a]) = "created"
        \/ \E ev \in TaskEvents : /\ board[a] \in AcceptedFrom(ev)
                                  /\ BoardState(taskRow'[a]) = StateAfter(board[a], ev)
    <3>1. \A ev : Poisoned \notin AcceptedFrom(ev)
      BY StateMachineStates DEF TaskStates, Poisoned
    <3> QED
      BY <1>2, <3>1 DEF TaskStep, board, BoardState, RowInv, RowMatchesFold
  <2> QED
    BY <2>3, <2>4, <2>5, <2>6
<1> QED
  BY <1>1, <1>2, StepMovesTasks DEF RowInv

\* The tasks table implements the abstract board: a task's row appears as created
\* and moves only along edges of the state machine.
THEOREM StoreImplementsBoard == Spec => ImplementsBoard
<1>1. Init => Board!Init
  BY SameMachine DEF Init, Board!Init
<1>2. Init => RowInv
  BY DEF Init, RowInv, RowMatchesFold, UnbornTasks
<1>3. TypeOK /\ Gapless /\ RowInv /\ [Next]_vars => RowInv'
  BY RowInvStep
<1>4. TypeOK /\ Gapless /\ RowInv /\ [Next]_vars
        => [Board!Next]_[t \in Tasks |-> IF taskRow[t] = NoRow THEN None ELSE taskRow[t].state]
  BY StepImplementsBoard DEF board, BoardState
<1> QED
  BY <1>1, <1>2, <1>3, <1>4, TypeCorrect, GaplessAlways, PTL
     DEF Spec, ImplementsBoard, Board!Spec

\* A task that reads as completed, failed or cancelled keeps reading so: no command,
\* retry or half-failed command brings it back.
THEOREM TerminalRowsStay == Spec => Board!TerminalIsFinal
<1>1. Init => RowInv
  BY DEF Init, RowInv, RowMatchesFold, UnbornTasks
<1>2. TypeOK /\ Gapless /\ RowInv /\ [Next]_vars => RowInv'
  BY RowInvStep
<1>3. ASSUME Board!Next, NEW t \in Tasks, board[t] \in Board!Terminal PROVE board'[t] = board[t]
  <2>2. \A ev : board[t] \notin AcceptedFrom(ev) \/ StateAfter(board[t], ev) = board[t]
    BY <1>3 DEF Board!Terminal, AcceptedFrom, StateAfter, TaskStates, Terminal
  <2>3. board[t] # None
    BY <1>3 DEF Board!Terminal, None
  <2>4. PICK u \in Tasks : Board!Appear(u) \/ \E ev \in Board!TaskEvents : Board!Move(u, ev)
    BY <1>3 DEF Board!Next
  <2>5. CASE Board!Appear(u)
    BY <2>3, <2>5, SameMachine DEF Board!Appear, board, BoardState
  <2>6. ASSUME NEW ev, Board!Move(u, ev) PROVE board'[t] = board[t]
    BY <2>2, <2>6, SameMachine DEF Board!Move, board, BoardState
  <2> QED
    BY <2>4, <2>5, <2>6
<1>4. TypeOK /\ Gapless /\ RowInv /\ [Next]_vars
        => [\A t \in Tasks : board[t] \in Board!Terminal => board'[t] = board[t]]_board
  BY <1>3, StepImplementsBoard
<1> QED
  BY <1>1, <1>2, <1>4, TypeCorrect, GaplessAlways, PTL
     DEF Spec, Board!TerminalIsFinal, board, BoardState
=============================================================================
