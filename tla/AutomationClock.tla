--------------------------- MODULE AutomationClock ---------------------------
(***************************************************************************)
(* Cron and event automations: the engine that turns durable automation    *)
(* rows into tasks (automation.rs:AutomationEngine), the rows themselves   *)
(* (event-store/automations.rs) and their registration (surface.rs).       *)
(*                                                                         *)
(* A tick reads all rows once and then works through them; for each due    *)
(* row it creates a task, queues it, and records the fire, three separate  *)
(* transactions.  The engine may die between any two of them.  A fire is   *)
(* caused by a minute (cron) or by the newest unconsumed event (event).    *)
(***************************************************************************)
EXTENDS Naturals, Sequences

CONSTANTS Engines,      \* cores ticking over one store
          Requests,     \* the create_automation requests clients send
          Fires(_, _),  \* Fires(cron, minute): CronSpec::matches_minute
          MaxRows,      \* bound: automations registered
          MaxMinute,    \* bound: the clock
          MaxEvents,    \* bound: events in the log
          MaxSlips      \* bound: crashes and failed writes

VARIABLES minute,   \* the current minute (minute_key)
          events,   \* the types of the events in the log, by rowid
          autos,    \* the automations table, by rowid
          eng,      \* per engine: where its tick is
          tasks,    \* tasks spawned: [row, cause, queued]
          slips,    \* crashes and failed writes so far
          excused   \* history: {<<row, cause>>} whose fire was not recorded, was begun on a
                    \* stale row, or was forgotten

clockVars == <<minute, events, autos, eng, tasks, slips, excused>>

IdleEngine == [at |-> "idle", todo |-> <<>>, key |-> 0, task |-> 0, cause |-> 0]
None == 0

Init ==
  /\ minute = 1
  /\ events = <<"session_created">>
  /\ autos = <<>>
  /\ eng = [c \in Engines |-> IdleEngine]
  /\ tasks = <<>>
  /\ slips = 0
  /\ excused = {}

-----------------------------------------------------------------------------
(* The rows                                                                *)

\* Exactly one trigger, a cron spec that parses, and an objective.
Accepts(r) == (r.cron = "") # (r.event = "") /\ r.cron # "unparsable" /\ r.objective

CreateAutomation(r) ==
  /\ Len(autos) < MaxRows
  /\ Accepts(r)
  /\ autos' = Append(autos, [cron |-> r.cron, event |-> r.event, enabled |-> TRUE, key |-> None])
  /\ UNCHANGED <<minute, events, eng, tasks, slips, excused>>

\* set_enabled of the table (no surface request reaches it yet).
SetEnabled(i, on) ==
  /\ autos[i].enabled # on
  /\ autos' = [autos EXCEPT ![i].enabled = on]
  /\ UNCHANGED <<minute, events, eng, tasks, slips, excused>>

-----------------------------------------------------------------------------
(* The tick                                                                *)

\* list: all rows, in the order of their rowids.
Listed == [i \in DOMAIN autos |-> [row |-> i, enabled |-> autos[i].enabled, key |-> autos[i].key]]

Tick(c) ==
  /\ eng[c].at = "idle" /\ autos # <<>>
  /\ eng' = [eng EXCEPT ![c] = [IdleEngine EXCEPT !.at = "next", !.key = minute,
                                                   !.todo = Listed]]
  /\ UNCHANGED <<minute, events, autos, tasks, slips, excused>>

\* What a row read at the start of the tick is due for now, or None.
Due(c, a) ==
  LET row == autos[a.row]
      new == {i \in DOMAIN events : events[i] = row.event /\ i > a.key}
  IN  IF ~a.enabled THEN None
      ELSE IF row.event = "" THEN (IF a.key # eng[c].key /\ Fires(row.cron, eng[c].key)
                                   THEN eng[c].key ELSE None)
      ELSE IF new = {} THEN None ELSE CHOOSE i \in new : \A j \in new : j <= i

Rest(c) == [eng EXCEPT ![c].todo = Tail(eng[c].todo), ![c].at = "next"]

\* A row that is not due is passed over.
PassOver(c) ==
  /\ eng[c].at = "next"
  /\ IF eng[c].todo = <<>> THEN eng' = [eng EXCEPT ![c] = IdleEngine]
     ELSE Due(c, Head(eng[c].todo)) = None /\ eng' = Rest(c)
  /\ UNCHANGED <<minute, events, autos, tasks, slips, excused>>

\* The engine is between creating a task for row i and recording the fire.
Firing(d, i) == eng[d].at \in {"queue", "record"} /\ Head(eng[d].todo).row = i

\* What the tick read of the row is no longer so: the row was fired since, or another
\* engine is at it.
Stale(c, a) ==
  a.key # autos[a.row].key \/ \E d \in Engines \ {c} : Firing(d, a.row)

\* spawn_task, first command: CreateTask commits task_created.
SpawnCreates(c) ==
  /\ eng[c].at = "next" /\ eng[c].todo # <<>> /\ Len(events) < MaxEvents
  /\ LET a == Head(eng[c].todo)
     IN  /\ Due(c, a) # None
         /\ tasks' = Append(tasks, [row |-> a.row, cause |-> Due(c, a), queued |-> FALSE])
         /\ eng' = [eng EXCEPT ![c].at = "queue", ![c].task = Len(tasks) + 1,
                               ![c].cause = Due(c, a)]
         /\ excused' = excused \cup (IF Stale(c, a) THEN {<<a.row, Due(c, a)>>} ELSE {})
  /\ events' = Append(events, "task_created")
  /\ UNCHANGED <<minute, autos, slips>>

\* Mutant: the fire is recorded before the task is queued.
SpawnQueuesLate(c) ==
  /\ eng[c].at = "queue"
  /\ eng' = [eng EXCEPT ![c].at = "record"]
  /\ autos' = [autos EXCEPT ![Head(eng[c].todo).row].key = eng[c].cause]
  /\ UNCHANGED <<minute, events, tasks, slips, excused>>

\* spawn_task, second command: QueueTask.
SpawnQueues(c) ==
  /\ eng[c].at = "queue"
  /\ tasks' = [tasks EXCEPT ![eng[c].task].queued = TRUE]
  /\ eng' = [eng EXCEPT ![c].at = "record"]
  /\ UNCHANGED <<minute, events, autos, slips, excused>>

\* QueueTask fails: the error is reported, the created task stays behind and
\* the fire is not recorded.
SpawnFails(c) ==
  /\ eng[c].at = "queue" /\ slips < MaxSlips
  /\ slips' = slips + 1
  /\ eng' = Rest(c)
  /\ UNCHANGED <<minute, events, autos, tasks, excused>>

\* record_fire, which overwrites what another engine recorded meanwhile; its error
\* is dropped.
RecordFire(c, works) ==
  /\ eng[c].at = "record"
  /\ eng' = Rest(c)
  /\ LET i == Head(eng[c].todo).row
         k == eng[c].cause
     IN  IF works
         THEN /\ autos' = [autos EXCEPT ![i].key = k]
              /\ excused' = excused \cup {<<i, j>> : j \in (k + 1)..autos[i].key}
              /\ UNCHANGED slips
         ELSE /\ slips < MaxSlips /\ slips' = slips + 1
              /\ excused' = excused \cup {<<i, k>>}
              /\ UNCHANGED autos
  /\ UNCHANGED <<minute, events, tasks>>

Crash(c) ==
  /\ eng[c].at # "idle" /\ slips < MaxSlips
  /\ slips' = slips + 1
  /\ excused' = IF eng[c].at = "record"
                THEN excused \cup {<<Head(eng[c].todo).row, eng[c].cause>>} ELSE excused
  /\ eng' = [eng EXCEPT ![c] = IdleEngine]
  /\ UNCHANGED <<minute, events, autos, tasks>>

MinutePasses ==
  /\ minute < MaxMinute /\ minute' = minute + 1
  /\ UNCHANGED <<events, autos, eng, tasks, slips, excused>>

Happens(t) ==
  /\ Len(events) < MaxEvents /\ events' = Append(events, t)
  /\ UNCHANGED <<minute, autos, eng, tasks, slips, excused>>

Next ==
  \/ \E r \in Requests : CreateAutomation(r)
  \/ \E i \in DOMAIN autos, on \in BOOLEAN : SetEnabled(i, on)
  \/ \E c \in Engines :
       \/ Tick(c) \/ PassOver(c) \/ SpawnCreates(c) \/ SpawnQueues(c) \/ SpawnFails(c)
       \/ \E works \in BOOLEAN : RecordFire(c, works)
       \/ Crash(c)
  \/ MinutePasses
  \/ Happens("task_completed")

-----------------------------------------------------------------------------
Queued(i, k) == {t \in DOMAIN tasks : tasks[t] = [row |-> i, cause |-> k, queued |-> TRUE]}

\* What a row says it has fired for really runs: the recorded minute has a
\* queued task, and every event up to the recorded rowid is covered by one.
FiresAreReal ==
  \A i \in DOMAIN autos :
    /\ autos[i].event = "" /\ autos[i].key # None => Queued(i, autos[i].key) # {}
    /\ autos[i].event # "" => \A e \in 1..autos[i].key :
         events[e] = autos[i].event => \E k \in e..autos[i].key : Queued(i, k) # {}

\* A minute or an event fires once, unless the engine died or could not write
\* between queueing the task and recording it, fired it by a row that another core
\* had fired since the tick read it, or another core recorded an older fire after it.
FiresOnceUnlessInterrupted ==
  \A i \in DOMAIN autos : \A t, u \in DOMAIN tasks :
    t # u /\ tasks[t] = tasks[u] /\ t \in Queued(i, tasks[t].cause)
      => <<i, tasks[t].cause>> \in excused

AutomationsSound == FiresAreReal /\ FiresOnceUnlessInterrupted

\* "a cron minute fires EXACTLY once even across restarts" (automations.rs).
CronFiresExactlyOnce ==
  \A i \in DOMAIN autos, t \in DOMAIN tasks :
    autos[i].event = "" /\ t \in Queued(i, tasks[t].cause)
      => Queued(i, tasks[t].cause) = {t}

ClockSpec == Init /\ [][Next]_clockVars

=============================================================================
