---------------------------- MODULE ControlLeases ----------------------------
(***************************************************************************)
(* Who is in control: the write lease of a scope with its fencing epoch    *)
(* (checkpoint/lease.rs), the one controller of a browser session under a  *)
(* watchdog (browser/lib.rs), and the automation that a human's mouse or   *)
(* keyboard preempts for a cooldown (browser/computer_safety.rs).          *)
(*                                                                         *)
(* Each is a library object; its callers are external.  A session keeps a  *)
(* lease it was given and may use it late, a host may release a scope whose*)
(* session seems dead, and the report of an input may be late.             *)
(***************************************************************************)
EXTENDS Naturals, Sequences, FiniteSets, FiniteSetsExt

CONSTANTS Scopes, Sessions,   \* of the write leases
          Controllers,        \* of the browser session
          Nobody,             \* no holder; also the host, as a caller
          Cooldown,           \* PreemptionManager.cooldown_ms
          MaxEpoch,           \* bound: fencing epoch of a scope
          MaxCommits,         \* bound: commits accepted
          MaxActs,            \* bound: actions executed
          MaxNow,             \* bound: the clock
          MaxInputs           \* bound: human inputs

VARIABLES active, fencing,  \* LeaseFencer
          given,            \* leases handed out: [scope, session, epoch, stands]
          commits,          \* history: the leases of the accepted commits
          robbed,           \* history: a session's release hit another's lease
          lease, stopped,   \* BrowserSession.lease, Watchdog.stopped
          acts, last,       \* history: who acted; how many acts there were at the stop
          parked, until,    \* PreemptionState: Preempted, and cooldown_until_ms
          now,              \* the clock
          unsaid, said,     \* human inputs by their time: still to report, reported
          crossed,          \* history: a report came behind that of a later input
          resumed           \* history: when automation was last let on

fencerVars == <<active, fencing, given, commits, robbed>>
sessionVars == <<lease, stopped, acts, last>>
humanVars == <<parked, until, now, unsaid, said, crossed, resumed>>
controlVars == <<fencerVars, sessionVars, humanVars>>

Init ==
  /\ active = [s \in Scopes |-> Nobody] /\ fencing = [s \in Scopes |-> 0]
  /\ given = {} /\ commits = <<>> /\ robbed = FALSE
  /\ lease = Nobody /\ stopped = FALSE /\ acts = <<>> /\ last = 0
  /\ parked = FALSE /\ until = 0
  /\ now = 0 /\ unsaid = {} /\ said = {} /\ crossed = FALSE /\ resumed = 0

-----------------------------------------------------------------------------
(* LeaseFencer                                                             *)

NextEpoch(s) == fencing[s] + 1

Acquire(s, x) ==
  /\ active[s] = Nobody /\ fencing[s] < MaxEpoch
  /\ fencing' = [fencing EXCEPT ![s] = NextEpoch(s)]
  /\ active' = [active EXCEPT ![s] = [session |-> x, epoch |-> NextEpoch(s)]]
  /\ given' = given \cup {[scope |-> s, session |-> x, epoch |-> NextEpoch(s), stands |-> TRUE]}
  /\ UNCHANGED <<commits, robbed, sessionVars, humanVars>>

\* release: of a scope, whoever calls and whatever lease the caller means.
Release(s, caller) ==
  /\ active[s] # Nobody
  /\ caller = Nobody \/ \E l \in given : l.scope = s /\ l.session = caller
  /\ active' = [active EXCEPT ![s] = Nobody]
  /\ fencing' = [fencing EXCEPT ![s] = Max({NextEpoch(s), active[s].epoch + 1})]
  /\ given' = {IF l.scope = s THEN [l EXCEPT !.stands = FALSE] ELSE l : l \in given}
  /\ robbed' = (robbed \/ caller \notin {Nobody, active[s].session})
  /\ UNCHANGED <<commits, sessionVars, humanVars>>

Validates(l) ==
  /\ active[l.scope] # Nobody
  /\ active[l.scope].session = l.session /\ active[l.scope].epoch = l.epoch

\* A commit under a lease that was given, which validate_commit lets through.
Commit(l) ==
  /\ Validates(l) /\ Len(commits) < MaxCommits
  /\ commits' = Append(commits, l)
  /\ UNCHANGED <<active, fencing, given, robbed, sessionVars, humanVars>>

-----------------------------------------------------------------------------
(* BrowserSession                                                          *)

\* acquire_lease: nothing gives the lease back.
AcquireLease(c) ==
  /\ lease = Nobody /\ lease' = c
  /\ UNCHANGED <<stopped, acts, last, fencerVars, humanVars>>

Halt == stopped' = TRUE /\ last' = Len(acts) /\ UNCHANGED acts

\* ensure_controller, then Watchdog::check, which an overlong action engages.
ExecuteAction(c, overlong) ==
  /\ lease # Nobody /\ lease = c /\ ~stopped
  /\ \/ overlong /\ Halt
     \/ /\ ~overlong /\ Len(acts) < MaxActs
        /\ acts' = Append(acts, c) /\ UNCHANGED <<stopped, last>>
  /\ UNCHANGED <<lease, fencerVars, humanVars>>

\* emergency_stop by the host: latched, the first stop is the one recorded here.
EmergencyStop == ~stopped /\ Halt /\ UNCHANGED <<lease, fencerVars, humanVars>>

-----------------------------------------------------------------------------
(* PreemptionManager                                                       *)

\* External: the clock, and a human who touches a device.
Tick == /\ now < MaxNow /\ now' = now + 1
        /\ UNCHANGED <<parked, until, unsaid, said, crossed, resumed, fencerVars, sessionVars>>

Input == /\ Cardinality(unsaid \cup said) < MaxInputs /\ now \notin said
         /\ unsaid' = unsaid \cup {now}
         /\ UNCHANGED <<parked, until, now, said, crossed, resumed, fencerVars, sessionVars>>

\* human_activity: the cooldown is counted from the input reported last.
HumanActivity(at) ==
  /\ at \in unsaid
  /\ unsaid' = unsaid \ {at} /\ said' = said \cup {at}
  /\ parked' = TRUE /\ until' = at + Cooldown
  /\ crossed' = (crossed \/ \E t \in said : t > at)
  /\ UNCHANGED <<now, resumed, fencerVars, sessionVars>>

\* try_reacquire.
TryReacquire ==
  /\ ~(parked /\ now < until)
  /\ parked' = FALSE /\ resumed' = now
  /\ UNCHANGED <<until, now, unsaid, said, crossed, fencerVars, sessionVars>>

Next ==
  \/ \E s \in Scopes, x \in Sessions : Acquire(s, x)
  \/ \E s \in Scopes, caller \in Sessions \cup {Nobody} : Release(s, caller)
  \/ \E l \in given : Commit(l)
  \/ \E c \in Controllers : AcquireLease(c)
  \/ \E c \in Controllers, overlong \in BOOLEAN : ExecuteAction(c, overlong)
  \/ EmergencyStop
  \/ Tick \/ Input \/ TryReacquire
  \/ \E at \in unsaid : HumanActivity(at)

ControlSpec == Init /\ [][Next]_controlVars

-----------------------------------------------------------------------------
(* Properties                                                              *)

\* lease.rs:1-4: a lease lets its session commit just until the scope is released,
\* and never again, not even after that session acquired the scope anew; no two
\* leases of a scope stand, or share an epoch.
LeasesAreFenced ==
  /\ \A l \in given : Validates(l) <=> l.stands
  /\ \A k, l \in given : (k.scope = l.scope /\ (k.epoch = l.epoch \/ (k.stands /\ l.stands))) => k = l

\* checkpoint fencing applied to sessions: what reaches a scope is in the order of
\* the leases, so a session that lost its lease writes over nothing newer.
CommitsInLeaseOrder ==
  \A j, k \in DOMAIN commits :
    (j < k /\ commits[j].scope = commits[k].scope) => commits[j].epoch <= commits[k].epoch

\* browser/lib.rs: one controller acts on a session, and nobody after the watchdog
\* has engaged, whoever engaged it.
OneHandUntilStop ==
  /\ \A i \in DOMAIN acts : acts[i] = lease
  /\ stopped => Len(acts) = last

\* computer_safety.rs: automation is let on no sooner than a cooldown after the last
\* human input that was reported, if reports come in the order of the inputs.
CooldownHonoured ==
  (~crossed /\ ~parked /\ said # {}) => resumed >= Max(said) + Cooldown

ControlSound == LeasesAreFenced /\ CommitsInLeaseOrder /\ OneHandUntilStop /\ CooldownHonoured

\* lease.rs:1-2, "exactly one session may hold the write lease": it is not taken away
\* by another session.  It fails when a session releases a scope it has already lost.
OnlyOwnReleases == ~robbed

\* The cooldown without the assumption on the order of reports.  It fails: the report
\* of an older input shortens the cooldown of a newer one.
CooldownFromNewest == (~parked /\ said # {}) => resumed >= Max(said) + Cooldown

=============================================================================
