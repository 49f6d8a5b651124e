---------------------------- MODULE ApprovalGate ----------------------------
(***************************************************************************)
(* Tool calls of a run, the policy kernel and the durable approval gate:   *)
(* the run loop (core-runtime/src/one_agent.rs) asks the kernel            *)
(* (policy/src/lib.rs); under execution mode "approvals" a denied effect   *)
(* becomes a row of the approvals table (event-store/src/approvals.rs) and *)
(* the scheduler's only thread polls it until an operator decides on       *)
(* another connection, or a deadline passes (core-runtime/src/             *)
(* scheduler.rs).  Grants live in memory, rows survive a crash.            *)
(***************************************************************************)
EXTENDS Naturals

CONSTANTS
  Tasks, NoTask,
  Tools, Args, NoCall,
  Escaping,     \* arguments with a path that leaves the workspace or is protected
  Class,        \* the effect class the registry gives a tool
  Granted,      \* tools of worktree_grants
  Mode,         \* the execution mode of a task
  Ids,          \* approval ids to be generated; bounds the requests
  Faults,       \* subset of {"insert", "read"}: accesses to the table that may fail
  MaxCrashes    \* bound: crashes of the core

Classes == {"read_only", "write", "external"}
Modes   == {"default", "readonly", "approvals"}

ASSUME GateConstants ==
  /\ NoTask \notin Tasks /\ NoCall \notin Tools \X Args
  /\ Escaping \subseteq Args /\ Granted \subseteq Tools
  /\ Class \in [Tools -> Classes] /\ Mode \in [Tasks -> Modes]
  /\ MaxCrashes \in Nat

VARIABLES
  rows,      \* durable: the approvals table
  run,       \* the task the scheduler thread executes
  grants,    \* LiveGrants of the run: pairs of tool and class
  call,      \* the intent (tool and arguments) at the gate, or NoCall
  polled,    \* the gate has looked at the table at least once
  executed,  \* effects handed to the tool registry: task and intent
  crashes

vars == <<rows, run, grants, call, polled, executed, crashes>>

Calls == Tools \X Args
None  == [state |-> "none", task |-> NoTask, intent |-> NoCall]
Rows  == [state : {"none", "pending", "approved", "denied"},
          task : Tasks \cup {NoTask}, intent : Calls \cup {NoCall}]

TypeOK ==
  /\ rows \in [Ids -> Rows]
  /\ run \in Tasks \cup {NoTask}
  /\ grants \subseteq Tools \X Classes
  /\ call \in Calls \cup {NoCall}
  /\ polled \in BOOLEAN
  /\ executed \subseteq Tasks \X Calls
  /\ crashes \in 0..MaxCrashes

Init ==
  /\ rows = [i \in Ids |-> None]
  /\ run = NoTask /\ grants = {} /\ call = NoCall /\ polled = FALSE
  /\ executed = {} /\ crashes = 0

-----------------------------------------------------------------------------
(***************************************************************************)
(* Policy.                                                                 *)
(***************************************************************************)
Protected(tool) == Class[tool] # "read_only"

\* Mutant: approvals mode starts with every grant.
AllGrants(mode) ==
  {<<tool, Class[tool]>> : tool \in {x \in Granted : mode # "readonly" \/ ~Protected(x)}}

\* The grants a run begins with: only those of read-only tools unless the mode is
\* the default one.
BaseGrants(mode) ==
  {<<tool, Class[tool]>> : tool \in {x \in Granted : mode = "default" \/ ~Protected(x)}}

\* Mutant: a grant is enough.
GrantAllows(tool, arg) == <<tool, Class[tool]>> \in grants

\* PolicyKernel::check.
KernelAllows(tool, arg) ==
  /\ ~(Protected(tool) /\ arg \in Escaping)
  /\ <<tool, Class[tool]>> \in grants

\* decision_for: an approved row before a pending one before a denied one.
Of(t, intent) == {i \in Ids : rows[i].task = t /\ rows[i].intent = intent}

Decision(t, intent) ==
  LET found == {rows[i].state : i \in Of(t, intent)}
  IN  IF "approved" \in found THEN "approved"
      ELSE IF "pending" \in found THEN "pending"
      ELSE IF "denied" \in found THEN "denied"
      ELSE "none"

-----------------------------------------------------------------------------
(***************************************************************************)
(* The run.                                                                *)
(***************************************************************************)
StartRun(t) ==
  /\ run = NoTask
  /\ run' = t
  /\ grants' = BaseGrants(Mode[t])
  /\ UNCHANGED <<rows, call, polled, executed, crashes>>

EndRun ==
  /\ run # NoTask /\ call = NoCall
  /\ run' = NoTask /\ grants' = {}
  /\ UNCHANGED <<rows, call, polled, executed, crashes>>

\* The model issues a call and the kernel allows it.
ExecuteCall(tool, arg) ==
  /\ run # NoTask /\ call = NoCall
  /\ KernelAllows(tool, arg)
  /\ executed' = executed \cup {<<run, <<tool, arg>>>>}
  /\ UNCHANGED <<rows, run, grants, call, polled, crashes>>

\* The kernel denies a protected effect and there is a gate: the request is stored,
\* the result of the insert ignored.  (Without a gate, or for a read-only tool, the
\* call is refused and nothing changes.)
Request(tool, arg, i) ==
  /\ run # NoTask /\ call = NoCall
  /\ ~KernelAllows(tool, arg)
  /\ Mode[run] = "approvals" /\ Protected(tool)
  /\ rows[i] = None
  /\ \/ rows' = [rows EXCEPT ![i] = [state |-> "pending", task |-> run,
                                     intent |-> <<tool, arg>>]]
     \/ "insert" \in Faults /\ UNCHANGED rows
  /\ call' = <<tool, arg>> /\ polled' = FALSE
  /\ UNCHANGED <<run, grants, executed, crashes>>

\* An approved call is granted for its tool, in both classes, and executed.
PollApproved ==
  /\ call # NoCall /\ Decision(run, call) = "approved"
  /\ grants' = grants \cup {<<call[1], "write">>, <<call[1], "external">>}
  /\ executed' = executed \cup {<<run, call>>}
  /\ call' = NoCall /\ polled' = FALSE
  /\ UNCHANGED <<rows, run, crashes>>

PollDenied ==
  /\ call # NoCall /\ Decision(run, call) = "denied"
  /\ call' = NoCall /\ polled' = FALSE
  /\ UNCHANGED <<rows, run, grants, executed, crashes>>

\* A failed read counts as no decision.
PollPending ==
  /\ call # NoCall
  /\ Decision(run, call) \in {"pending", "none"} \/ "read" \in Faults
  /\ polled' = TRUE
  /\ UNCHANGED <<rows, run, grants, call, executed, crashes>>

\* Mutant: the wait has no deadline.
NoDeadline == FALSE /\ UNCHANGED vars

\* The deadline is looked at before each poll but the first.
GateTimeout ==
  /\ call # NoCall /\ polled
  /\ call' = NoCall /\ polled' = FALSE
  /\ UNCHANGED <<rows, run, grants, executed, crashes>>

-----------------------------------------------------------------------------
(***************************************************************************)
(* The operator, and crashes.                                              *)
(***************************************************************************)
\* Mutant: the last decision wins.
ResolveAgain(i, decision) ==
  /\ rows[i].state # "none"
  /\ rows' = [rows EXCEPT ![i].state = decision]
  /\ UNCHANGED <<run, grants, call, polled, executed, crashes>>

Resolve(i, decision) ==
  /\ rows[i].state = "pending"
  /\ rows' = [rows EXCEPT ![i].state = decision]
  /\ UNCHANGED <<run, grants, call, polled, executed, crashes>>

Crash ==
  /\ crashes < MaxCrashes /\ crashes' = crashes + 1
  /\ run' = NoTask /\ grants' = {} /\ call' = NoCall /\ polled' = FALSE
  /\ UNCHANGED <<rows, executed>>

Gate == PollApproved \/ PollDenied \/ PollPending \/ GateTimeout

Next ==
  \/ \E t \in Tasks : StartRun(t)
  \/ EndRun
  \/ \E tool \in Tools, arg \in Args :
       ExecuteCall(tool, arg) \/ \E i \in Ids : Request(tool, arg, i)
  \/ PollApproved \/ PollDenied \/ PollPending \/ GateTimeout
  \/ \E i \in Ids, decision \in {"approved", "denied"} : Resolve(i, decision)
  \/ Crash

Spec == Init /\ [][Next]_vars

\* The thread at the gate keeps looping, and the clock reaches its deadline.
FairSpec == Spec /\ WF_vars(Gate)

-----------------------------------------------------------------------------
(***************************************************************************)
(* Properties.                                                             *)
(***************************************************************************)
ApprovedTool(t, tool) ==
  \E i \in Ids : /\ rows[i].state = "approved" /\ rows[i].task = t
                 /\ rows[i].intent # NoCall /\ rows[i].intent[1] = tool

ApprovedCall(t, intent) ==
  \E i \in Ids : rows[i].state = "approved" /\ rows[i].task = t /\ rows[i].intent = intent

\* Whatever a run has executed was granted to its mode, or the operator approved a
\* call of that tool for that very task; across runs, crashes, late decisions and
\* requests that were never stored.
EffectsAreGranted ==
  \A t \in Tasks, tool \in Tools, arg \in Args :
    <<t, <<tool, arg>>>> \in executed =>
      \/ tool \in Granted /\ (Mode[t] = "default" \/ ~Protected(tool))
      \/ Mode[t] = "approvals" /\ ApprovedTool(t, tool)

\* A protected effect the kernel denies whatever the grants is executed only if the
\* operator approved that call with those arguments: the grant an earlier approval
\* of the tool left behind does not cover it.
EscapesWereApproved ==
  \A t \in Tasks, tool \in Tools, arg \in Escaping :
    <<t, <<tool, arg>>>> \in executed /\ Protected(tool) => ApprovedCall(t, <<tool, arg>>)

\* "First decision wins - a replayed ApproveEffect after a Core restart must not
\* re-resolve."
FirstDecisionWins ==
  [][\A i \in Ids : rows[i].state \in {"approved", "denied"} => rows'[i] = rows[i]]_vars

\* The gate holds the scheduler's only thread: whatever the operators do or leave
\* undone, it gives it back.
GateEnds == call # NoCall ~> call = NoCall
=============================================================================
