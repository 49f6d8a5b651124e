----------------------------- MODULE ExecBroker -----------------------------
(***************************************************************************)
(* One shell.run: the process broker modbit-execd (crates/terminal,        *)
(* services/modbit-execd) runs a command, the scheduler's capture drains   *)
(* its output log while it runs, and a desktop that reattaches polls its   *)
(* status, replays the tail of the log and may stop it.  Broker calls run  *)
(* on threads of their own; the broker may die and be started again while  *)
(* the command goes on.  A run id is a fresh uuid, so one run is all there *)
(* is to a run directory.                                                  *)
(***************************************************************************)
EXTENDS Naturals, Sequences

CONSTANTS
  MaxOut,     \* bound: bytes the command writes
  DrainMax,   \* bytes of one drain (DRAIN_MAX)
  Window      \* bytes of one replay (window_bytes)

Callers == {"capture", "desktop"}

VARIABLES
  proc,     \* the command: none, running or ended
  term,     \* SIGTERM was sent to it by pid
  out,      \* output.log: bytes 1..out
  up,       \* the broker process serves
  held,     \* it holds the child handle
  disk,     \* the state in status.json, "none" while there is no file
  call,     \* the broker thread that serves a caller: where it is and what it found
  cap,      \* run_streaming_capture: where it is, the bytes collected, the final state
  view,     \* the desktop's replay: cursor, bytes seen, bytes reported as dropped
  cancel,   \* the task's cancellation flag
  ref       \* the stored output reference of the run

process == <<proc, term, out>>
broker  == <<up, held, disk>>
execVars == <<proc, term, out, up, held, disk, call, cap, view, cancel, ref>>

NoRef == <<0>>
Rest  == [at |-> "rest", found |-> "none"]

ExecInit ==
  /\ proc = "none" /\ term = FALSE /\ out = 0
  /\ up = TRUE /\ held = FALSE /\ disk = "none"
  /\ call = [c \in Callers |-> Rest]
  /\ cap = [at |-> "off", got |-> <<>>, state |-> "none"]
  /\ view = [cursor |-> 0, seen |-> <<>>, dropped |-> 0]
  /\ cancel = FALSE /\ ref = NoRef

Bytes(a, b) == [i \in 1..(b - a) |-> a + i]
CapAt(place) == cap.at = place
Go(place)    == cap' = [cap EXCEPT !.at = place]

-----------------------------------------------------------------------------
(***************************************************************************)
(* The command and the broker process.                                     *)
(***************************************************************************)
Write ==
  /\ proc = "running" /\ out < MaxOut
  /\ out' = out + 1
  /\ UNCHANGED <<proc, term, broker, call, cap, view, cancel, ref>>

\* It ends by itself, or of the SIGTERM.
Exit ==
  /\ proc = "running"
  /\ proc' = "ended"
  /\ UNCHANGED <<term, out, broker, call, cap, view, cancel, ref>>

\* The broker dies: child handles and calls in flight are gone, run directories stay.
BrokerDies ==
  /\ up
  /\ up' = FALSE /\ held' = FALSE
  /\ call' = [c \in Callers |-> IF call[c].at = "rest" THEN Rest ELSE [Rest EXCEPT !.at = "failed"]]
  /\ UNCHANGED <<process, disk, cap, view, cancel, ref>>

BrokerStarts ==
  /\ ~up /\ up' = TRUE
  /\ UNCHANGED <<process, held, disk, call, cap, view, cancel, ref>>

-----------------------------------------------------------------------------
(***************************************************************************)
(* Broker operations.  status and stop are a read, an act and a write of   *)
(* status.json; nothing is locked in between.                              *)
(***************************************************************************)
CallAt(c, place) == up /\ call[c].at = place
Serve(c, place, found) == call' = [call EXCEPT ![c] = [at |-> place, found |-> found]]

\* spawn: the child is started and its handle kept, then status.json is written.
SpawnChild ==
  /\ CapAt("off") /\ CallAt("capture", "rest") /\ proc = "none"
  /\ proc' = "running" /\ held' = TRUE
  /\ Serve("capture", "spawned", "none") /\ Go("spawn")
  /\ UNCHANGED <<term, out, up, disk, view, cancel, ref>>

SpawnPersist ==
  /\ CallAt("capture", "spawned")
  /\ disk' = "running"
  /\ Serve("capture", "rest", "none") /\ Go("top")
  /\ UNCHANGED <<process, up, held, view, cancel, ref>>

StatusRead(c) ==
  /\ CallAt(c, "rest") /\ disk # "none"
  /\ (c = "capture" => CapAt("poll"))
  /\ IF disk = "running" THEN Serve(c, "probe", "none") ELSE Serve(c, "answer", disk)
  /\ UNCHANGED <<process, broker, cap, view, cancel, ref>>

\* The handle tells, where there is one; a detached run is probed by its pid.
StatusProbe(c) ==
  /\ CallAt(c, "probe")
  /\ IF proc = "ended" THEN Serve(c, "persist", IF held THEN "exited" ELSE "interrupted")
     ELSE Serve(c, "answer", "running")
  /\ UNCHANGED <<process, broker, cap, view, cancel, ref>>

StatusPersist(c) ==
  /\ CallAt(c, "persist")
  /\ disk' = call[c].found
  /\ Serve(c, "answer", call[c].found)
  /\ UNCHANGED <<process, up, held, cap, view, cancel, ref>>

\* stop: a held child is killed and reaped, a detached one is sent SIGTERM by its pid.
Stop(c) ==
  /\ CallAt(c, "rest") /\ disk # "none"
  /\ (c = "capture" => CapAt("stop"))
  /\ IF held
     THEN held' = FALSE /\ proc' = "ended" /\ Serve(c, "kill", "none") /\ UNCHANGED term
     ELSE IF proc = "running"
     THEN term' = TRUE /\ Serve(c, "kill", "none") /\ UNCHANGED <<held, proc>>
     ELSE Serve(c, "failed", "none") /\ UNCHANGED <<held, proc, term>>
  /\ UNCHANGED <<out, up, disk, cap, view, cancel, ref>>

StopPersist(c) ==
  /\ CallAt(c, "kill")
  /\ disk' = "killed"
  /\ Serve(c, "answer", "killed")
  /\ UNCHANGED <<process, up, held, cap, view, cancel, ref>>

\* The desktop looks at what it was told, and forgets it.
DesktopDone ==
  /\ call["desktop"].at \in {"answer", "failed"}
  /\ call' = [call EXCEPT !["desktop"] = Rest]
  /\ UNCHANGED <<process, broker, cap, view, cancel, ref>>

\* replay_tail: at most one window, and what is skipped is accounted for.
Replay ==
  LET from == IF view.cursor + Window < out THEN out - Window ELSE view.cursor IN
  /\ proc # "none" /\ view.cursor < out
  /\ view' = [cursor |-> out, seen |-> view.seen \o Bytes(from, out),
              dropped |-> view.dropped + (from - view.cursor)]
  /\ UNCHANGED <<process, broker, call, cap, cancel, ref>>

-----------------------------------------------------------------------------
(***************************************************************************)
(* run_streaming_capture and the shell.run tool around it.                 *)
(***************************************************************************)
Cancel ==
  /\ ~cancel /\ cap.at \notin {"off", "done", "stored", "failed"}
  /\ cancel' = TRUE
  /\ UNCHANGED <<process, broker, call, cap, view, ref>>

\* The flag is looked at once per round, before the drain.
CheckCancel ==
  /\ CapAt("top")
  /\ Go(IF cancel THEN "stop" ELSE "drain")
  /\ UNCHANGED <<process, broker, call, view, cancel, ref>>

Least(a, b) == IF a < b THEN a ELSE b

\* One bounded read of the log from the offset reached: read_output.
Drained ==
  LET from == Len(cap.got) IN cap.got \o Bytes(from, Least(out, from + DrainMax))

Drain ==
  /\ up /\ CapAt("drain")
  /\ cap' = [cap EXCEPT !.at = "poll", !.got = Drained]
  /\ UNCHANGED <<process, broker, call, view, cancel, ref>>

\* Mutant: the wait has no deadline.
PolledForEver(late) ==
  /\ CapAt("poll") /\ call["capture"].at = "answer"
  /\ cap' = IF call["capture"].found # "running"
            THEN [cap EXCEPT !.at = "tail", !.state = call["capture"].found]
            ELSE [cap EXCEPT !.at = "top"]
  /\ call' = [call EXCEPT !["capture"] = Rest]
  /\ UNCHANGED <<process, broker, view, cancel, ref>>

\* Still running: another round, unless the 600 seconds are over.
Polled(late) ==
  /\ CapAt("poll") /\ call["capture"].at = "answer"
  /\ cap' = IF call["capture"].found # "running"
            THEN [cap EXCEPT !.at = "tail", !.state = call["capture"].found]
            ELSE [cap EXCEPT !.at = IF late THEN "stop" ELSE "top"]
  /\ call' = [call EXCEPT !["capture"] = Rest]
  /\ UNCHANGED <<process, broker, view, cancel, ref>>

\* Mutant: one bounded read after the end.
FinalDrainOnce ==
  /\ up /\ CapAt("tail")
  /\ cap' = [cap EXCEPT !.got = Drained, !.at = "done"]
  /\ UNCHANGED <<process, broker, call, view, cancel, ref>>

\* After the end the log is read until a read finds nothing.
FinalDrain ==
  /\ up /\ CapAt("tail")
  /\ cap' = IF Drained = cap.got THEN [cap EXCEPT !.at = "done"]
            ELSE [cap EXCEPT !.got = Drained]
  /\ UNCHANGED <<process, broker, call, view, cancel, ref>>

\* A stop that was answered ends the capture as cancelled or timed out; a call that
\* failed, or finds no broker, ends it with that error.
Stopped ==
  /\ CapAt("stop") /\ call["capture"].at = "answer"
  /\ Go("failed") /\ call' = [call EXCEPT !["capture"] = Rest]
  /\ UNCHANGED <<process, broker, view, cancel, ref>>

CallFails ==
  /\ cap.at \notin {"off", "done", "stored", "failed"}
  /\ call["capture"].at = "failed" \/ (~up /\ call["capture"].at # "answer" /\ ~CapAt("top"))
  /\ Go("failed") /\ call' = [call EXCEPT !["capture"] = Rest]
  /\ UNCHANGED <<process, broker, view, cancel, ref>>

\* The bytes are kept as a paginated reference.
StoreFull ==
  /\ CapAt("done")
  /\ ref' = cap.got /\ Go("stored")
  /\ UNCHANGED <<process, broker, call, view, cancel>>

Capture ==
  \/ SpawnPersist \/ CheckCancel \/ Drain \/ Polled(TRUE) \/ FinalDrain \/ Stopped \/ CallFails \/ StoreFull
  \/ StatusRead("capture") \/ StatusProbe("capture") \/ StatusPersist("capture")
  \/ Stop("capture") \/ StopPersist("capture")

ExecNext ==
  \/ Write \/ Exit \/ BrokerDies \/ BrokerStarts \/ SpawnChild \/ SpawnPersist
  \/ \E c \in Callers : \/ StatusRead(c) \/ StatusProbe(c) \/ StatusPersist(c)
                        \/ Stop(c) \/ StopPersist(c)
  \/ DesktopDone \/ Replay \/ Cancel \/ CheckCancel \/ Drain
  \/ \E late \in BOOLEAN : Polled(late)
  \/ FinalDrain \/ Stopped \/ CallFails \/ StoreFull

\* The scheduler's and the broker's threads run on, and the 600 seconds end.
ExecFairness == WF_execVars(Capture) /\ SF_execVars(Polled(TRUE))

ExecSpec == ExecInit /\ [][ExecNext]_execVars /\ ExecFairness

-----------------------------------------------------------------------------
\* No reader misses or repeats a byte.  A capture that ends with an exit, or with a run
\* that was interrupted while detached, holds the whole log of a command that is over,
\* and so does the stored reference; a replay accounts for every byte it skips; whatever
\* the broker, a poll of the desktop and the command do in between.
ReadersExact ==
  /\ cap.at \in {"done", "stored"} /\ cap.state # "killed" =>
       proc = "ended" /\ cap.got = Bytes(0, out)
  /\ ref # NoRef => ref = cap.got
  /\ Len(view.seen) + view.dropped = view.cursor

\* shell.run returns: the command ends, is cancelled or times out, or the broker is gone.
CaptureEnds == CapAt("top") ~> cap.at \in {"stored", "failed"}
=============================================================================
