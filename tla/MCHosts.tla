------------------------------ MODULE MCHosts ------------------------------
(***************************************************************************)
(* The parts whose waiting must end, one at a time: the approval gate of a *)
(* run, the cloud relay, the process broker and the headless command line  *)
(* share no state, so `side' picks the one a behaviour is about and the    *)
(* others stay at rest.                                                    *)
(***************************************************************************)
EXTENDS ApprovalGate, Sequences, FiniteSets

CONSTANTS Logins, Guests, Conns, Nobody, Expired,
          MaxOut, DrainMax, Window,
          Reporters, MaxEvents, Seconds, MaxBad

VARIABLES side,
  login, code, session, lease, lock, guest, worker, got, dropped,
  proc, term, out, up, held, disk, request, cap, view, cancel, ref,
  cli, child, task, late, events, rep, dirs, bad, lives

\* Two tasks under approvals, a read-only and a write tool.
MCTools == {"fs.read", "change.apply"}
MCClass == [x \in MCTools |-> IF x = "fs.read" THEN "read_only" ELSE "write"]
MCMode  == [t \in Tasks |-> "approvals"]

TenantOf == [l \in Logins |-> l]

R == INSTANCE CloudRelay
X == INSTANCE ExecBroker WITH call <- request
C == INSTANCE HeadlessRun WITH Owned <- TRUE

gate  == <<rows, run, grants, call, polled, executed, crashes>>
relay == <<login, code, session, lease, lock, guest, worker, got, dropped>>
exec  == <<proc, term, out, up, held, disk, request, cap, view, cancel, ref>>
line  == <<cli, child, task, late, events, rep, dirs, bad, lives>>

HostsInit ==
  /\ side \in {"gate", "relay", "exec", "line"}
  /\ Init /\ R!RelayInit /\ X!ExecInit /\ C!Init

HostsNext ==
  \/ side = "gate" /\ Next /\ UNCHANGED <<side, relay, exec, line>>
  \/ side = "relay" /\ R!RelayNext /\ UNCHANGED <<side, gate, exec, line>>
  \/ side = "exec" /\ X!ExecNext /\ UNCHANGED <<side, gate, relay, line>>
  \/ side = "line" /\ C!Next /\ UNCHANGED <<side, gate, relay, exec>>

\* HeadlessRun!CliFairness, for the behaviours in which the command is started.
LineFairness ==
  /\ WF_line(side = "line" /\ C!CliStep)
  /\ WF_line(side = "line" /\ C!Deadline)
  /\ WF_line(side = "line" /\ \E w \in BOOLEAN : C!ChildBoots(w))

HostsSpec ==
  /\ HostsInit /\ [][HostsNext]_<<side, gate, relay, exec, line>>
  /\ WF_vars(Gate) /\ R!RelayFairness /\ X!ExecFairness /\ LineFairness

\* A caller gets the reply to its own request from a worker of its own tenant; no
\* reader of a command's output misses or repeats a byte; the exit code of a
\* headless run is true of its task, and a diagnostics bundle is the one its report
\* quotes (cloud-gateway, terminal, modbit.rs, diagnostics.rs).
HostsExact == R!RepliesBelong /\ X!ReadersExact /\ C!HeadlessSound

\* A login gives one session, whatever callbacks are repeated or mixed up.
LoginsAreSingleUse == R!LoginsAreSingleUse

\* A relayed request ends, unless a worker skipped an envelope.
RelaysEnd == R!RelaysEnd

\* A capture ends: with the command, the cancellation, the deadline or the broker.
CaptureEnds == X!CaptureEnds

\* A headless run that was started ends, whatever becomes of its task.
HeadlessEnds == side = "line" => C!HeadlessEnds
=============================================================================
