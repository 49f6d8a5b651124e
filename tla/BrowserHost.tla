----------------------------- MODULE BrowserHost -----------------------------
(***************************************************************************)
(* The live browser of a task (core-runtime/browser_host.rs) over the CDP  *)
(* bridge (browser/cdp.rs), as the surface drives it (surface.rs:          *)
(* browser_view, set_browser_lease).                                       *)
(*                                                                         *)
(* One mutex guards all sessions and is held across every launch and every *)
(* command.  Answers and domain events of a browser share one socket.      *)
(***************************************************************************)
EXTENDS Naturals, Sequences

CONSTANTS Tasks,        \* tasks with a browser
          Callers,      \* surface connections
          MaxLaunches,  \* bound: browsers launched
          MaxPages,     \* bound: pages a browser shows, one after the other
          MaxEvents,    \* bound: console and network events of a browser
          MaxSlow,      \* bound: commands that time out
          MaxCalls      \* bound: surface calls

VARIABLES sessions, \* task -> its browser; 0: none
          lease,    \* task -> who drives
          chrome,   \* per launch: the browser process and its profile
          pending,  \* per launch: commands the browser has not answered
          socket,   \* per launch: messages from the browser, not yet read
          nextId,   \* per launch: next command id
          filed,    \* per launch: events filed into the observation buffers
          call,     \* per caller
          lock,     \* the caller inside the sessions mutex, or "free"
          slow,     \* commands that timed out
          calls,    \* calls made
          frames    \* history: frames served, and the page there was at the start of the call

hostVars == <<sessions, lease, chrome, pending, socket, nextId, filed, call, lock, slow,
              calls, frames>>

Ids == 1..MaxLaunches
Unused == [at |-> "unused", page |-> 0, dir |-> FALSE, events |-> 0]
NoCall == [at |-> "none", task |-> "", set |-> "", b |-> 0, id |-> 0, page |-> 0,
           from |-> 0, again |-> FALSE]

Init ==
  /\ sessions = [t \in Tasks |-> 0]
  /\ lease = [t \in Tasks |-> "agent"]
  /\ chrome = [b \in Ids |-> Unused]
  /\ pending = [b \in Ids |-> {}]
  /\ socket = [b \in Ids |-> <<>>]
  /\ nextId = [b \in Ids |-> 1]
  /\ filed = [b \in Ids |-> <<>>]
  /\ call = [c \in Callers |-> NoCall]
  /\ lock = "free" /\ slow = 0 /\ calls = 0
  /\ frames = {}

-----------------------------------------------------------------------------
(* The browser: external                                                   *)

Answer(b) == \E id \in pending[b] :
  /\ chrome[b].at = "up"
  /\ pending' = [pending EXCEPT ![b] = pending[b] \ {id}]
  /\ socket' = [socket EXCEPT ![b] = Append(socket[b], [id |-> id, page |-> chrome[b].page])]
  /\ UNCHANGED <<sessions, lease, chrome, nextId, filed, call, lock, slow, calls, frames>>

Emit(b) ==
  /\ chrome[b].at = "up" /\ chrome[b].events < MaxEvents
  /\ chrome' = [chrome EXCEPT ![b] = [chrome[b] EXCEPT !.events = chrome[b].events + 1]]
  /\ socket' = [socket EXCEPT ![b] = Append(socket[b], [id |-> 0, page |-> chrome[b].events + 1])]
  /\ UNCHANGED <<sessions, lease, pending, nextId, filed, call, lock, slow, calls, frames>>

TurnPage(b) ==
  /\ chrome[b].at = "up" /\ chrome[b].page < MaxPages
  /\ chrome' = [chrome EXCEPT ![b] = [chrome[b] EXCEPT !.page = chrome[b].page + 1]]
  /\ UNCHANGED <<sessions, lease, pending, socket, nextId, filed, call, lock, slow, calls, frames>>

Crash(b) ==
  /\ chrome[b].at = "up"
  /\ chrome' = [chrome EXCEPT ![b] = [chrome[b] EXCEPT !.at = "dead"]]
  /\ UNCHANGED <<sessions, lease, pending, socket, nextId, filed, call, lock, slow, calls, frames>>

-----------------------------------------------------------------------------
(* Calls                                                                   *)

\* browser_view, or set_browser_lease, which sets the lease and then views.
Ask(c, t, set) ==
  /\ call[c].at = "none" /\ calls < MaxCalls
  /\ calls' = calls + 1
  /\ call' = [call EXCEPT ![c] = [NoCall EXCEPT !.at = IF set = "" THEN "view" ELSE "set",
                                                !.task = t, !.set = set]]
  /\ UNCHANGED <<sessions, lease, chrome, pending, socket, nextId, filed, lock, slow, frames>>

\* set_lease on a live session: the flip, and the mutex is given back.
SetLease(c) ==
  /\ lock = "free" /\ call[c].at = "set" /\ sessions[call[c].task] # 0
  /\ lease' = [lease EXCEPT ![call[c].task] = call[c].set]
  /\ call' = [call EXCEPT ![c] = [call[c] EXCEPT !.at = "view", !.set = ""]]
  /\ UNCHANGED <<sessions, chrome, pending, socket, nextId, filed, lock, slow, calls, frames>>

\* Either call on a task without a session launches a browser first.
EnterLaunch(c) ==
  /\ lock = "free" /\ call[c].at \in {"set", "view"} /\ sessions[call[c].task] = 0
  /\ lock' = c
  /\ call' = [call EXCEPT ![c] = [call[c] EXCEPT !.at = "launch"]]
  /\ UNCHANGED <<sessions, lease, chrome, pending, socket, nextId, filed, slow, calls, frames>>

\* A command sent to a browser that is up is pending there.
Asked(b) == IF chrome[b].at = "up" THEN pending[b] \cup {nextId[b]} ELSE pending[b]

\* view on a session: Runtime.evaluate of the snapshot.
EnterView(c) ==
  LET b == sessions[call[c].task]
  IN  /\ lock = "free" /\ call[c].at = "view" /\ b # 0
      /\ lock' = c
      /\ nextId' = [nextId EXCEPT ![b] = nextId[b] + 1]
      /\ pending' = [pending EXCEPT ![b] = Asked(b)]
      /\ call' = [call EXCEPT ![c] = [call[c] EXCEPT !.at = "snapshot", !.b = b, !.id = nextId[b],
                                                     !.from = chrome[b].page]]
      /\ UNCHANGED <<sessions, lease, chrome, socket, filed, slow, calls, frames>>

Fresh == {b \in Ids : chrome[b].at = "unused" /\ \A a \in Ids : a < b => chrome[a].at # "unused"}

\* CdpBrowser::launch and the session that is inserted; a new session is the
\* agent's, except when it is the one a lease call launched.
Launched(c) == \E b \in Fresh :
  /\ lock = c /\ call[c].at = "launch"
  /\ chrome' = [chrome EXCEPT ![b] = [at |-> "up", page |-> 1, dir |-> TRUE, events |-> 0]]
  /\ sessions' = [sessions EXCEPT ![call[c].task] = b]
  /\ lease' = [lease EXCEPT ![call[c].task] = IF call[c].set = "" THEN "agent" ELSE call[c].set]
  /\ IF call[c].set # ""
     THEN /\ lock' = "free"
          /\ call' = [call EXCEPT ![c] = [call[c] EXCEPT !.at = "view", !.set = ""]]
          /\ UNCHANGED <<nextId, pending>>
     ELSE /\ nextId' = [nextId EXCEPT ![b] = nextId[b] + 1]
          /\ pending' = [pending EXCEPT ![b] = {nextId[b]}]
          /\ call' = [call EXCEPT ![c] = [call[c] EXCEPT !.at = "snapshot", !.b = b, !.id = nextId[b],
                                                         !.from = 1]]
          /\ UNCHANGED lock
  /\ UNCHANGED <<socket, filed, slow, calls, frames>>

\* A launch that fails: no binary leaves nothing; a browser that never wrote its
\* port is killed but its profile stays; one whose socket cannot be connected is
\* left running, its handle dropped; an attach that fails drops the struct, which
\* kills and cleans up.
LaunchFails(c, how) == \E b \in Fresh :
  /\ lock = c /\ call[c].at = "launch"
  /\ chrome' = CASE how = "binary"  -> chrome
                 [] how = "port"    -> [chrome EXCEPT ![b] = [chrome[b] EXCEPT !.at = "dead", !.dir = TRUE]]
                 [] how = "connect" -> [chrome EXCEPT ![b] = [chrome[b] EXCEPT !.at = "leaked", !.dir = TRUE]]
                 [] how = "attach"  -> [chrome EXCEPT ![b] = [chrome[b] EXCEPT !.at = "dead"]]
  /\ lock' = "free"
  /\ call' = [call EXCEPT ![c] = NoCall]
  /\ UNCHANGED <<sessions, lease, pending, socket, nextId, filed, slow, calls, frames>>

-----------------------------------------------------------------------------
(* command_value                                                           *)

Waiting(c) == lock = c /\ call[c].at \in {"snapshot", "capture"}

\* Mutant: the first answer on the socket is taken.
MineAny(c, msg) == msg.id # 0

\* Only the answer with the id of this command ends the wait.
Mine(c, msg) == msg.id = call[c].id

\* A message that is not the answer is filed: an event into the buffers, a late
\* answer of a command that timed out nowhere.
File(c) ==
  LET b == call[c].b
  IN  /\ Waiting(c) /\ socket[b] # <<>> /\ ~Mine(c, Head(socket[b]))
      /\ socket' = [socket EXCEPT ![b] = Tail(socket[b])]
      /\ filed' = IF Head(socket[b]).id = 0
                  THEN [filed EXCEPT ![b] = Append(filed[b], Head(socket[b]).page)] ELSE filed
      /\ UNCHANGED <<sessions, lease, chrome, pending, nextId, call, lock, slow, calls, frames>>

\* The snapshot arrives and the screenshot is asked for.
Snapshot(c) ==
  LET b == call[c].b
  IN  /\ Waiting(c) /\ call[c].at = "snapshot" /\ socket[b] # <<>> /\ Mine(c, Head(socket[b]))
      /\ socket' = [socket EXCEPT ![b] = Tail(socket[b])]
      /\ nextId' = [nextId EXCEPT ![b] = nextId[b] + 1]
      /\ pending' = [pending EXCEPT ![b] = Asked(b)]
      /\ call' = [call EXCEPT ![c] = [call[c] EXCEPT !.at = "capture", !.id = nextId[b],
                                                     !.page = Head(socket[b]).page]]
      /\ UNCHANGED <<sessions, lease, chrome, filed, lock, slow, calls, frames>>

\* The screenshot arrives and the frame is served with the lease in place.
Capture(c) ==
  LET b == call[c].b
  IN  /\ Waiting(c) /\ call[c].at = "capture" /\ socket[b] # <<>> /\ Mine(c, Head(socket[b]))
      /\ socket' = [socket EXCEPT ![b] = Tail(socket[b])]
      /\ frames' = frames \cup {[task |-> call[c].task, b |-> b, from |-> call[c].from,
                                 page |-> call[c].page, shot |-> Head(socket[b]).page]}
      /\ call' = [call EXCEPT ![c] = NoCall]
      /\ lock' = "free"
      /\ UNCHANGED <<sessions, lease, chrome, pending, nextId, filed, slow, calls>>

\* The command fails: the socket broke, or its 60 seconds are over.
Failed(c, late) ==
  IF late THEN slow < MaxSlow /\ slow' = slow + 1
  ELSE chrome[call[c].b].at = "dead" /\ socket[call[c].b] = <<>> /\ UNCHANGED slow

\* A snapshot that fails, for whatever reason, counts as a dead session: it is
\* removed, which kills the browser and its profile, and one relaunch follows.
Relaunch(c, late) ==
  LET b == call[c].b
  IN  /\ Waiting(c) /\ call[c].at = "snapshot" /\ ~call[c].again /\ Failed(c, late)
      /\ sessions' = [sessions EXCEPT ![call[c].task] = 0]
      /\ chrome' = [chrome EXCEPT ![b] = [chrome[b] EXCEPT !.at = "dead", !.dir = FALSE]]
      /\ pending' = [pending EXCEPT ![b] = {}]
      /\ socket' = [socket EXCEPT ![b] = <<>>]
      /\ call' = [call EXCEPT ![c] = [call[c] EXCEPT !.at = "launch", !.again = TRUE]]
      /\ UNCHANGED <<lease, nextId, filed, lock, calls, frames>>

\* The second snapshot, or a screenshot, fails: the call does, the session stays.
GiveUp(c, late) ==
  /\ Waiting(c) /\ (call[c].at = "capture" \/ call[c].again) /\ Failed(c, late)
  /\ lock' = "free"
  /\ call' = [call EXCEPT ![c] = NoCall]
  /\ UNCHANGED <<sessions, lease, chrome, pending, socket, nextId, filed, calls, frames>>

Next ==
  \/ \E b \in Ids : Answer(b) \/ Emit(b) \/ TurnPage(b) \/ Crash(b)
  \/ \E c \in Callers :
       \/ \E t \in Tasks, s \in {"", "user", "agent"} : Ask(c, t, s)
       \/ SetLease(c) \/ EnterLaunch(c) \/ EnterView(c) \/ Launched(c)
       \/ \E how \in {"binary", "port", "connect", "attach"} : LaunchFails(c, how)
       \/ File(c) \/ Snapshot(c) \/ Capture(c)
       \/ \E late \in BOOLEAN : Relaunch(c, late) \/ GiveUp(c, late)

HostSpec == Init /\ [][Next]_hostVars

-----------------------------------------------------------------------------
(* Properties                                                              *)

\* A frame shows what the task's browser showed during the call, snapshot first:
\* the late answer of an earlier command is never taken for a newer one.
FramesCurrent == \A f \in frames : f.from <= f.page /\ f.page <= f.shot

\* Every running browser is the session of one task, or its launch failed at the
\* connect: a relaunch never leaves a second browser of the task behind.
OneBrowserPerTask ==
  /\ \A b \in Ids : chrome[b].at = "up" => \E t \in Tasks : sessions[t] = b
  /\ \A s, t \in Tasks : sessions[s] = sessions[t] /\ sessions[s] # 0 => s = t

\* Events are filed once, in the order the browser sent them.
EventsFiledInOrder == \A b \in Ids : \A i \in DOMAIN filed[b] : filed[b][i] = i

\* The three together, about browser_host.rs and cdp.rs.
BrowserSound == FramesCurrent /\ OneBrowserPerTask /\ EventsFiledInOrder

\* browser_host.rs: "If the session's browser process has died ... the dead session
\* is dropped and the browser relaunches": a live one is not.
OnlyTheDeadAreDropped ==
  [][\A t \in Tasks : sessions[t] # 0 /\ sessions'[t] = 0 => chrome[sessions[t]].at = "dead"]_hostVars

=============================================================================
