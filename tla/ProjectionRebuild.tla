------------------------- MODULE ProjectionRebuild -------------------------
(***************************************************************************)
(* EventStore with the projection rebuild of projections.rs added: drop    *)
(* every projection row and project the events table again in rowid order. *)
(* The statements are not wrapped in a transaction, so a rebuild that      *)
(* fails half-way leaves what it had rebuilt so far.                       *)
(***************************************************************************)
EXTENDS EventStore

\* The rows a rebuild has produced; `failed' once a statement has failed.
Empty == [sessions |-> {}, tasks |-> [t \in Tasks |-> NoRow], failed |-> FALSE]

\* Projecting one event onto them.  task_inputs is empty here (see Rebuild), so an
\* input event can only fail for want of its task's row.
Reproject(acc, a, row) ==
  IF acc.failed THEN acc
  ELSE IF \/ row.type = "task_created" /\ row.arg \notin acc.sessions
          \/ row.type = "task_input_queued" /\ acc.tasks[a] = NoRow
       THEN [acc EXCEPT !.failed = TRUE]
       ELSE [sessions |-> IF row.type = "session_created"
                          THEN acc.sessions \cup {a} ELSE acc.sessions,
             tasks    |-> IF a \in Tasks
                          THEN [acc.tasks EXCEPT ![a] = ProjectTaskRow(@, row)]
                          ELSE acc.tasks,
             failed   |-> FALSE]

\* Mutant: the last row of the events table is missed.
RebuiltShort ==
  LET upto[k \in 0..Len(log)] ==
        IF k = 0 THEN Empty
        ELSE Reproject(upto[k - 1], log[k].agg, stream[log[k].agg][log[k].seq])
  IN  upto[IF log = <<>> THEN 0 ELSE Len(log) - 1]

Rebuilt ==
  LET upto[k \in 0..Len(log)] ==
        IF k = 0 THEN Empty
        ELSE Reproject(upto[k - 1], log[k].agg, stream[log[k].agg][log[k].seq])
  IN  upto[Len(log)]

\* rebuild deletes tasks before anything refers to them except task_inputs, which
\* it does not delete: with an input queued, the DELETE fails on the foreign key.
RebuildBlocked == taskInputs # {}

Rebuild ==
  IF RebuildBlocked
  THEN UNCHANGED vars
  ELSE /\ sessionRows' = Rebuilt.sessions
       /\ taskRow' = Rebuilt.tasks
       /\ UNCHANGED <<events, cmdlog, taskInputs, leases>>

RebuildNext == Next \/ Rebuild

RebuildSpec == Init /\ [][RebuildNext]_vars

\* A rebuild that runs to its end reproduces exactly the rows that the commands
\* had maintained one event at a time, generations included.
RebuildReproduces ==
  [][Rebuild /\ ~Rebuilt.failed => UNCHANGED projections]_vars
=============================================================================
