--------------------------- MODULE ApprovalProofs ---------------------------
(***************************************************************************)
(* What the user's decisions do.  The approval gate: what it lets through, *)
(* for any tasks, tools, grants, modes and numbers of requests and         *)
(* crashes. The review of a task's hunks: that a rejection takes out and   *)
(* records what its reviewer was shown, for any edits, reviewers and       *)
(* restarts. The merge of a task's branch: that what its record says       *)
(* happened did. The tools of a run: that they ran as granted and report   *)
(* what was. And the settings, keys, repositories and sessions of the      *)
(* user.                                                                   *)
(***************************************************************************)
EXTENDS ApprovalGate, Integers, Sequences, FiniteSetTheorems, SequenceTheorems, TLAPS

\* A call at the gate belongs to a run under approvals and is of a protected tool.
CallAtGate ==
  /\ run = NoTask => call = NoCall
  /\ call # NoCall => Mode[run] = "approvals"

\* Why the run may use a tool.
MayUse(t, tool) ==
  \/ tool \in Granted /\ (Mode[t] = "default" \/ ~Protected(tool))
  \/ Mode[t] = "approvals" /\ ApprovedTool(t, tool)

\* The grants in memory are no more than the mode and the table justify.
GrantsJustified ==
  run # NoTask => \A tool \in Tools, c \in Classes : <<tool, c>> \in grants => MayUse(run, tool)

GateInv ==
  TypeOK /\ CallAtGate /\ GrantsJustified /\ EffectsAreGranted /\ EscapesWereApproved

-----------------------------------------------------------------------------
\* No step of the program changes a row that was decided.
LEMMA DecidedRowsStay ==
  ASSUME TypeOK, [Next]_vars, NEW i \in Ids, rows[i].state \in {"approved", "denied"}
  PROVE  rows'[i] = rows[i]
<1>1. rows[i] # None
  BY DEF None
<1>2. CASE UNCHANGED rows
  BY <1>2
<1>3. ASSUME NEW tool \in Tools, NEW arg \in Args, NEW j \in Ids, Request(tool, arg, j)
      PROVE  rows'[i] = rows[i]
  BY <1>1, <1>3 DEF Request, TypeOK
<1>4. ASSUME NEW j \in Ids, NEW decision \in {"approved", "denied"}, Resolve(j, decision)
      PROVE  rows'[i] = rows[i]
  BY <1>4 DEF Resolve, TypeOK
<1> QED
  BY <1>2, <1>3, <1>4
     DEF Next, vars, StartRun, EndRun, ExecuteCall, PollApproved, PollDenied, PollPending,
         GateTimeout, Crash

\* So an approval, once given, counts for ever.
LEMMA ApprovalsStay ==
  ASSUME TypeOK, [Next]_vars
  PROVE  /\ \A t \in Tasks, tool \in Tools : ApprovedTool(t, tool) => ApprovedTool(t, tool)'
         /\ \A t \in Tasks, c \in Calls : ApprovedCall(t, c) => ApprovedCall(t, c)'
         /\ \A t \in Tasks, tool \in Tools : MayUse(t, tool) => MayUse(t, tool)'
<1>1. \A i \in Ids : rows[i].state = "approved" => rows'[i] = rows[i]
  BY DecidedRowsStay
<1>2. \A t \in Tasks, tool \in Tools : ApprovedTool(t, tool) => ApprovedTool(t, tool)'
  BY <1>1 DEF ApprovedTool
<1>3. \A t \in Tasks, c \in Calls : ApprovedCall(t, c) => ApprovedCall(t, c)'
  BY <1>1 DEF ApprovedCall
<1>4. \A t \in Tasks, tool \in Tools : MayUse(t, tool) => MayUse(t, tool)'
  BY <1>2 DEF MayUse, Protected
<1> QED
  BY <1>2, <1>3, <1>4

\* What a decision of "approved" means.
LEMMA DecisionApproved ==
  ASSUME NEW t \in Tasks, NEW c \in Calls, Decision(t, c) = "approved"
  PROVE  ApprovedCall(t, c)
BY DEF Decision, Of, ApprovedCall

LEMMA TypeStep == TypeOK /\ CallAtGate /\ [Next]_vars => TypeOK' /\ CallAtGate'
<1> SUFFICES ASSUME TypeOK, CallAtGate, [Next]_vars PROVE TypeOK' /\ CallAtGate'
  OBVIOUS
<1> USE GateConstants
<1>1. ASSUME NEW t \in Tasks, StartRun(t) PROVE TypeOK' /\ CallAtGate'
  BY <1>1 DEF StartRun, TypeOK, CallAtGate, BaseGrants, Classes
<1>2. CASE EndRun
  BY <1>2 DEF EndRun, TypeOK, CallAtGate
<1>3. ASSUME NEW tool \in Tools, NEW arg \in Args, ExecuteCall(tool, arg) PROVE TypeOK' /\ CallAtGate'
  <2>1. <<run, <<tool, arg>>>> \in Tasks \X Calls
    BY <1>3 DEF ExecuteCall, TypeOK, CallAtGate, Calls
  <2> QED
    BY <1>3, <2>1 DEF ExecuteCall, TypeOK, CallAtGate
<1>4. ASSUME NEW tool \in Tools, NEW arg \in Args, NEW i \in Ids, Request(tool, arg, i)
      PROVE  TypeOK' /\ CallAtGate'
  <2>1. <<tool, arg>> \in Calls /\ run \in Tasks
    BY <1>4 DEF Request, TypeOK, CallAtGate, Calls
  <2>2. [state |-> "pending", task |-> run, intent |-> <<tool, arg>>] \in Rows
    BY <2>1 DEF Rows
  <2> QED
    BY <1>4, <2>1, <2>2 DEF Request, TypeOK, CallAtGate
<1>5. CASE PollApproved
  <2>1. run \in Tasks /\ call \in Calls
    BY <1>5 DEF PollApproved, TypeOK, CallAtGate
  <2>2. call[1] \in Tools
    BY <2>1 DEF Calls
  <2>3. grants' \subseteq Tools \X Classes
    BY <1>5, <2>2 DEF PollApproved, TypeOK, Classes
  <2>4. executed' \subseteq Tasks \X Calls
    BY <1>5, <2>1 DEF PollApproved, TypeOK
  <2> QED
    BY <1>5, <2>3, <2>4 DEF PollApproved, TypeOK, CallAtGate
<1>6. CASE PollDenied \/ PollPending \/ GateTimeout
  BY <1>6 DEF PollDenied, PollPending, GateTimeout, TypeOK, CallAtGate
<1>7. ASSUME NEW i \in Ids, NEW decision \in {"approved", "denied"}, Resolve(i, decision)
      PROVE  TypeOK' /\ CallAtGate'
  BY <1>7 DEF Resolve, TypeOK, CallAtGate, Rows
<1>8. CASE Crash
  <2>1. crashes' \in 0..MaxCrashes
    BY <1>8 DEF Crash, TypeOK
  <2> QED
    BY <1>8, <2>1, Zenon DEF Crash, TypeOK, CallAtGate
<1>9. CASE UNCHANGED vars
  BY <1>9 DEF vars, TypeOK, CallAtGate
<1> QED
  BY <1>1, <1>2, <1>3, <1>4, <1>5, <1>6, <1>7, <1>8, <1>9 DEF Next

\* Grants are added only on approval, and a new run begins with those of its mode.
LEMMA GrantsStep ==
  ASSUME TypeOK, CallAtGate, GrantsJustified, [Next]_vars
  PROVE  GrantsJustified'
<1> USE GateConstants
<1>0. \A t \in Tasks, tool \in Tools : MayUse(t, tool) => MayUse(t, tool)'
  BY ApprovalsStay
<1>1. ASSUME NEW t \in Tasks, StartRun(t) PROVE GrantsJustified'
  <2> SUFFICES ASSUME NEW tool \in Tools, NEW c \in Classes, <<tool, c>> \in grants'
               PROVE  MayUse(run, tool)'
    BY DEF GrantsJustified
  <2>1. tool \in Granted /\ (Mode[t] = "default" \/ ~Protected(tool))
    BY <1>1 DEF StartRun, BaseGrants
  <2> QED
    BY <1>1, <2>1 DEF StartRun, MayUse, Protected
<1>2. CASE EndRun \/ Crash
  BY <1>2 DEF EndRun, Crash, GrantsJustified
<1>3. CASE PollApproved
  <2>1. run \in Tasks /\ call \in Calls /\ Mode[run] = "approvals"
    BY <1>3 DEF PollApproved, TypeOK, CallAtGate
  <2>2. ApprovedTool(run, call[1])
    BY <1>3, <2>1, DecisionApproved DEF PollApproved, ApprovedCall, ApprovedTool
  <2>3. MayUse(run, call[1])
    BY <2>1, <2>2 DEF MayUse
  <2> SUFFICES ASSUME NEW tool \in Tools, NEW c \in Classes, <<tool, c>> \in grants'
               PROVE  MayUse(run, tool)'
    BY DEF GrantsJustified
  <2>4. <<tool, c>> \in grants \/ tool = call[1]
    BY <1>3 DEF PollApproved
  <2>5. MayUse(run, tool)
    BY <1>3, <2>1, <2>3, <2>4 DEF GrantsJustified
  <2>6. run' = run
    BY <1>3 DEF PollApproved
  <2> QED
    BY <1>0, <2>1, <2>5, <2>6 DEF MayUse, ApprovedTool
<1>4. CASE UNCHANGED <<run, grants>>
  BY <1>0, <1>4 DEF GrantsJustified, TypeOK, MayUse, ApprovedTool
<1> QED
  BY <1>1, <1>2, <1>3, <1>4
     DEF Next, vars, ExecuteCall, Request, PollDenied, PollPending, GateTimeout, Resolve

\* What a step adds to the effects, and why it may.
LEMMA EffectStep ==
  ASSUME TypeOK, CallAtGate, GrantsJustified, [Next]_vars,
         NEW t \in Tasks, NEW tool \in Tools, NEW arg \in Args,
         <<t, <<tool, arg>>>> \in executed', <<t, <<tool, arg>>>> \notin executed
  PROVE  /\ MayUse(t, tool)
         /\ Protected(tool) /\ arg \in Escaping => ApprovedCall(t, <<tool, arg>>)
<1> USE GateConstants
<1>1. ASSUME NEW x \in Tools, NEW a \in Args, ExecuteCall(x, a)
      PROVE  MayUse(t, tool) /\ ~(Protected(tool) /\ arg \in Escaping)
  <2>1. t = run /\ tool = x /\ arg = a /\ run # NoTask
    BY <1>1 DEF ExecuteCall
  <2>2. <<tool, Class[tool]>> \in grants /\ Class[tool] \in Classes
    BY <1>1, <2>1 DEF ExecuteCall, KernelAllows
  <2> QED
    BY <1>1, <2>1, <2>2 DEF GrantsJustified, ExecuteCall, KernelAllows
<1>2. CASE PollApproved
  <2>1. t = run /\ call = <<tool, arg>> /\ call # NoCall
    BY <1>2 DEF PollApproved
  <2>2. Mode[t] = "approvals" /\ call \in Calls
    BY <2>1 DEF CallAtGate, TypeOK
  <2>3. ApprovedCall(t, <<tool, arg>>)
    BY <1>2, <2>1, <2>2, DecisionApproved DEF PollApproved
  <2>4. ApprovedTool(t, tool)
    BY <2>1, <2>3 DEF ApprovedCall, ApprovedTool
  <2> QED
    BY <2>2, <2>3, <2>4 DEF MayUse
<1>3. CASE UNCHANGED executed
  BY <1>3
<1> QED
  BY <1>1, <1>2, <1>3
     DEF Next, vars, StartRun, EndRun, Request, PollDenied, PollPending, GateTimeout,
         Resolve, Crash

LEMMA EffectsStep ==
  ASSUME GateInv, [Next]_vars
  PROVE  EffectsAreGranted' /\ EscapesWereApproved'
<1> USE GateConstants
<1>1. /\ \A t \in Tasks, tool \in Tools : MayUse(t, tool) => MayUse(t, tool)'
      /\ \A t \in Tasks, c \in Calls : ApprovedCall(t, c) => ApprovedCall(t, c)'
  BY ApprovalsStay DEF GateInv
<1>2. ASSUME NEW t \in Tasks, NEW tool \in Tools, NEW arg \in Args,
             <<t, <<tool, arg>>>> \in executed'
      PROVE  MayUse(t, tool)'
  <2>1. MayUse(t, tool)
    BY <1>2, EffectStep DEF GateInv, EffectsAreGranted, MayUse
  <2> QED
    BY <1>1, <2>1
<1>3. ASSUME NEW t \in Tasks, NEW tool \in Tools, NEW arg \in Escaping,
             <<t, <<tool, arg>>>> \in executed', Protected(tool)
      PROVE  ApprovedCall(t, <<tool, arg>>)'
  <2>1. ApprovedCall(t, <<tool, arg>>)
    BY <1>3, EffectStep DEF GateInv, EscapesWereApproved
  <2>2. <<tool, arg>> \in Calls
    BY DEF Calls
  <2> QED
    BY <1>1, <2>1, <2>2
<1>4. EffectsAreGranted'
  BY <1>2 DEF EffectsAreGranted, MayUse, Protected
<1>5. EscapesWereApproved'
  BY <1>3 DEF EscapesWereApproved, Protected
<1> QED
  BY <1>4, <1>5

-----------------------------------------------------------------------------
LEMMA GateInvAlways == Spec => []GateInv
<1>1. Init => GateInv
  <2> SUFFICES ASSUME Init PROVE GateInv
    OBVIOUS
  <2>1. None \in Rows
    BY DEF None, Rows
  <2>2. crashes \in 0..MaxCrashes
    BY GateConstants DEF Init
  <2>3. TypeOK
    BY <2>1, <2>2 DEF Init, TypeOK
  <2>4. CallAtGate /\ GrantsJustified
    BY DEF Init, CallAtGate, GrantsJustified
  <2>5. EffectsAreGranted /\ EscapesWereApproved
    BY DEF Init, EffectsAreGranted, EscapesWereApproved
  <2> QED
    BY <2>3, <2>4, <2>5 DEF GateInv
<1>2. GateInv /\ [Next]_vars => GateInv'
  BY TypeStep, GrantsStep, EffectsStep DEF GateInv
<1> QED
  BY <1>1, <1>2, PTL DEF Spec

\* Whatever the runs of any number of tasks execute, in any modes, with any grants
\* and any operators, was granted to the mode or approved for that task.
THEOREM OnlyGrantedEffects == Spec => []EffectsAreGranted
BY GateInvAlways, PTL DEF GateInv

\* A protected effect that the kernel denies whatever the grants needs an approval
\* of its own, however many calls of its tool were approved before.
THEOREM OnlyApprovedEscapes == Spec => []EscapesWereApproved
BY GateInvAlways, PTL DEF GateInv

\* A decided approval is never decided again.
THEOREM DecisionsStand == Spec => FirstDecisionWins
<1>1. TypeOK /\ [Next]_vars =>
        [\A i \in Ids : rows[i].state \in {"approved", "denied"} => rows'[i] = rows[i]]_vars
  BY DecidedRowsStay
<1>2. Spec => []TypeOK
  BY GateInvAlways, PTL DEF GateInv
<1> QED
  BY <1>1, <1>2, PTL DEF Spec, FirstDecisionWins

-----------------------------------------------------------------------------
(***************************************************************************)
(* The hunk review (ReviewDesk).                                           *)
(***************************************************************************)
CONSTANTS Edits, Reviewers, MaxEdits, MaxActs, MaxBase

VARIABLES worktree, upstream, base, task, journal, view, req, list, reversed, effort

Review == INSTANCE ReviewDesk

\* A decision names a hunk by its line, so the edits an agent may make are told apart by
\* theirs: in one file they stand two lines apart (a deletion names the line before it).
ReviewAssumptions ==
  /\ IsFiniteSet(Edits)
  /\ \A e \in Edits : e.at \in Nat /\ e.add \in Nat /\ e.del \in Nat
  /\ \A e, f \in Edits : e.path = f.path /\ e # f => e.at + 1 < f.at \/ f.at + 1 < e.at

\* A hunk as some diff showed it.
Shown == [hunk : Edits, start : Int, above : SUBSET Edits]
Seen(x) == x \in Shown /\ x.start = Review!NewStart(x.hunk, x.above)

LEMMA LinesCounted ==
  ASSUME ReviewAssumptions, NEW S, S \subseteq Edits
  PROVE  Review!Cardinality(Review!Added(S)) \in Nat /\ Review!Cardinality(Review!Deleted(S)) \in Nat
<1>1. IsFiniteSet(S)
  BY FS_Subset DEF ReviewAssumptions
<1>2. ASSUME NEW T, NEW f \in [S -> SUBSET T], \A e \in S : IsFiniteSet(f[e])
      PROVE  IsFiniteSet(UNION {f[e] : e \in S})
  <2> DEFINE R == {f[e] : e \in S}
  <2>1. f \in Surjection(S, R)
    BY DEF Surjection
  <2>2. IsFiniteSet(R)
    BY <2>1, <1>1, FS_Surjection
  <2>3. \A A \in R : IsFiniteSet(A)
    BY <1>2
  <2> HIDE DEF R
  <2>4. IsFiniteSet(UNION R)
    BY <2>2, <2>3, FS_UNION
  <2> QED
    BY <2>4 DEF R
<1>3. ASSUME NEW e \in S, NEW n \in Nat PROVE IsFiniteSet({e} \X (1..n))
  <2>1. IsFiniteSet({e})
    BY FS_Singleton
  <2>2. IsFiniteSet(1..n)
    BY FS_Interval
  <2> QED
    BY <2>1, <2>2, FS_Product
<1>4. \A e \in S : e.add \in Nat /\ e.del \in Nat
  BY DEF ReviewAssumptions
<1>5. IsFiniteSet(Review!Added(S))
  <2> DEFINE f == [e \in S |-> {e} \X (1..e.add)]
             T == S \X Nat
  <2>1. f \in [S -> SUBSET T]
    BY <1>4
  <2>2. \A e \in S : IsFiniteSet(f[e])
    BY <1>3, <1>4
  <2>3. Review!Added(S) = UNION {f[e] : e \in S}
    BY DEF Review!Added
  <2> HIDE DEF f, T
  <2> QED
    BY <2>1, <2>2, <2>3, <1>2
<1>6. IsFiniteSet(Review!Deleted(S))
  <2> DEFINE f == [e \in S |-> {e} \X (1..e.del)]
             T == S \X Nat
  <2>1. f \in [S -> SUBSET T]
    BY <1>4
  <2>2. \A e \in S : IsFiniteSet(f[e])
    BY <1>3, <1>4
  <2>3. Review!Deleted(S) = UNION {f[e] : e \in S}
    BY DEF Review!Deleted
  <2> HIDE DEF f, T
  <2> QED
    BY <2>1, <2>2, <2>3, <1>2
<1>7. \A A : Review!Cardinality(A) = Cardinality(A)
  BY DEF Review!Cardinality, Cardinality
<1> QED
  BY <1>5, <1>6, <1>7, FS_CardinalityType

\* Below the same edits, a line names one hunk.
LEMMA LineNamesHunk ==
  ASSUME ReviewAssumptions, NEW x, NEW y, Seen(x), Seen(y),
         x.hunk.path = y.hunk.path, x.start = y.start, x.above = y.above
  PROVE  x.hunk = y.hunk
<1> DEFINE a == Review!Cardinality(Review!Added(x.above))
           d == Review!Cardinality(Review!Deleted(x.above))
<1>1. /\ x.hunk \in Edits /\ y.hunk \in Edits /\ x.above \subseteq Edits
      /\ x.start = Review!NewStart(x.hunk, x.above) /\ y.start = Review!NewStart(y.hunk, x.above)
  BY DEF Seen, Shown
<1>2. a \in Nat /\ d \in Nat
  BY <1>1, LinesCounted
<1>3. /\ x.hunk.at \in Nat /\ y.hunk.at \in Nat
      /\ x.hunk # y.hunk => x.hunk.at + 1 < y.hunk.at \/ y.hunk.at + 1 < x.hunk.at
  BY <1>1 DEF ReviewAssumptions
<1>4. x.hunk.at + a - d - (IF x.hunk.add = 0 THEN 1 ELSE 0)
        = y.hunk.at + a - d - (IF y.hunk.add = 0 THEN 1 ELSE 0)
  BY <1>1 DEF Review!NewStart
<1> HIDE DEF a, d
<1> QED
  BY <1>2, <1>3, <1>4

LEMMA HunksAreSeen ==
  ASSUME ReviewAssumptions, worktree \subseteq Edits, NEW x \in Review!Hunks
  PROVE  Seen(x)
<1>1. PICK h \in worktree : x = [hunk |-> h, start |-> Review!NewStart(h, Review!Above(worktree, h)),
                                 above |-> Review!Above(worktree, h)]
  BY DEF Review!Hunks, Review!Diff
<1> DEFINE A == Review!Above(worktree, h)
<1>2. h \in Edits /\ A \subseteq Edits
  BY DEF Review!Above
<1> HIDE DEF A
<1>3. Review!NewStart(h, A) \in Int
  <2>1. Review!Cardinality(Review!Added(A)) \in Nat /\ Review!Cardinality(Review!Deleted(A)) \in Nat
    BY <1>2, LinesCounted
  <2>2. h.at \in Nat
    BY <1>2 DEF ReviewAssumptions
  <2> QED
    BY <2>1, <2>2 DEF Review!NewStart
<1>4. x.hunk = h /\ x.above = A /\ x.start = Review!NewStart(h, A)
  BY <1>1 DEF A
<1> QED
  BY <1>1, <1>2, <1>3, <1>4 DEF Seen, Shown, A

Paths == {e.path : e \in Edits}
Fates == {"open", "recorded", "lost", "refused"}
Asks == [at : {"diff", "apply", "record"}, kind : {"accepted", "rejected"}, path : Paths,
         start : Int, shown : Shown, found : SUBSET Shown, nodiff : BOOLEAN, id : Nat]
Listings == [at : {"rows"}, hunks : SUBSET Shown]
Reversals == [hunk : Edits, shown : Shown, id : Nat, above : SUBSET Edits, fate : Fates]

\* A request under way names, by path and line, the hunk it was made for, and what it
\* found stands at that line.
AskOK(q, acts) ==
  /\ Seen(q.shown) /\ q.path = q.shown.hunk.path /\ q.start = q.shown.start
  /\ \A x \in q.found : Seen(x) /\ x.hunk.path = q.path /\ x.start = q.start
  /\ q.id < acts
  /\ q.at = "apply" => q.found # {}

\* A review event was made of a hunk that some diff showed at its line.
EventOK(e) == \E x : /\ Seen(x) /\ x.hunk \in e.hunks /\ x.above = e.above
                     /\ x.start = e.start /\ x.hunk.path = e.path

\* What a rejection at the point of its record did.
TookEffect(q, done) ==
  q.nodiff \/ \E x \in done : x.id = q.id /\ \E y \in q.found : y.hunk = x.hunk

ReviewTypes ==
  /\ worktree \subseteq Edits /\ base \in Nat \ {0} /\ effort \in [edits : Nat, acts : Nat]
  /\ req \in [Reviewers -> {Review!NoReq} \cup Asks \cup Listings]
  /\ reversed \subseteq Reversals

\* Ids are given out once, and a request has reversed a hunk only when it is about to
\* record that.
RequestsInv ==
  /\ \A x \in view : Seen(x)
  /\ \A r \in Reviewers : req[r] \in Asks => AskOK(req[r], effort.acts)
  /\ \A r \in Reviewers : req[r] \in Listings => \A x \in req[r].hunks : Seen(x)
  /\ \A r, s \in Reviewers : req[r] \in Asks /\ req[s] \in Asks /\ req[r].id = req[s].id => r = s
  /\ \A x \in reversed : x.id < effort.acts
  /\ \A r \in Reviewers : \A x \in reversed :
       req[r] \in Asks /\ x.id = req[r].id => req[r].at = "record"
  /\ \A r \in Reviewers :
       req[r] \in Asks /\ req[r].at = "record" /\ req[r].kind = "rejected" => TookEffect(req[r], reversed)
  /\ \A e \in journal : EventOK(e)

ReviewInv == ReviewTypes /\ RequestsInv /\ Review!ReviewAccounted

LEMMA KindsOfRequest ==
  /\ Review!NoReq \notin Asks /\ Review!NoReq \notin Listings
  /\ \A q \in Asks : q \notin Listings /\ q # Review!NoReq
  /\ \A q \in Listings : q.at = "rows" /\ q \notin Asks
  /\ Review!NoReq.at = "idle"
  /\ \A q \in Asks : q.at \in {"diff", "apply", "record"}
<1>1. Review!NoReq.at = "idle"
  BY DEF Review!NoReq
<1>2. \A q \in Asks : q.at \in {"diff", "apply", "record"}
  BY DEF Asks
<1>3. \A q \in Listings : q.at = "rows"
  BY DEF Listings
<1> QED
  BY <1>1, <1>2, <1>3

LEMMA ReviewStarts == ReviewAssumptions /\ Review!Init => ReviewInv
<1> SUFFICES ASSUME ReviewAssumptions, Review!Init PROVE ReviewInv
  OBVIOUS
<1>0. /\ worktree = Edits /\ base = 1 /\ journal = {} /\ view = {}
      /\ req = [r \in Reviewers |-> Review!NoReq] /\ list = {} /\ reversed = {}
      /\ effort = [edits |-> 0, acts |-> 0]
  BY DEF Review!Init
<1>1. ReviewTypes
  BY <1>0 DEF ReviewTypes
<1>2. \A r \in Reviewers : req[r] = Review!NoReq
  BY <1>0
<1>3. RequestsInv
  BY <1>0, <1>2, KindsOfRequest DEF RequestsInv
<1>4. Review!ReviewAccounted
  BY <1>0 DEF Review!ReviewAccounted, Review!RejectsWhatWasShown, Review!RejectionsRecorded,
              Review!UnaskedWasReviewed
<1> QED
  BY <1>1, <1>3, <1>4 DEF ReviewInv

\* Steps in which no request moves, nothing is reversed and nothing listed.
LEMMA RestOfReview ==
  ASSUME ReviewInv, UNCHANGED <<base, req, list, reversed>>, worktree' \subseteq Edits,
         effort' \in [edits : Nat, acts : Nat], effort.acts <= effort'.acts,
         task = "cancelled" => task' = "cancelled",
         \A x \in view' : Seen(x),
         journal \subseteq journal',
         \A e \in journal' : e \in journal \/ (EventOK(e) /\ e.kind = "comment")
  PROVE  ReviewInv'
<1>1. ReviewTypes'
  BY DEF ReviewInv, ReviewTypes
<1>2. ASSUME NEW n \in Nat, n < effort.acts PROVE n < effort'.acts
  <2>1. effort.acts \in Nat /\ effort'.acts \in Nat
    BY DEF ReviewInv, ReviewTypes
  <2> QED
    BY <2>1, <1>2
<1>3. RequestsInv'
  <2>1. ASSUME NEW r \in Reviewers, req[r] \in Asks PROVE AskOK(req[r], effort'.acts)
    <3>1. AskOK(req[r], effort.acts) /\ req[r].id \in Nat
      BY <2>1 DEF ReviewInv, RequestsInv, Asks
    <3> QED
      BY <3>1, <1>2 DEF AskOK
  <2>2. ASSUME NEW x \in reversed PROVE x.id < effort'.acts
    <3>1. x.id \in Nat /\ x.id < effort.acts
      BY DEF ReviewInv, ReviewTypes, RequestsInv, Reversals
    <3> QED
      BY <3>1, <1>2
  <2>3. \A e \in journal' : EventOK(e)
    BY DEF ReviewInv, RequestsInv
  <2> QED
    BY <2>1, <2>2, <2>3 DEF ReviewInv, RequestsInv
<1>4. Review!RejectsWhatWasShown' /\ Review!UnaskedWasReviewed'
  BY DEF ReviewInv, Review!ReviewAccounted, Review!RejectsWhatWasShown, Review!UnaskedWasReviewed
<1>5. Review!RejectionsRecorded'
  BY DEF ReviewInv, Review!ReviewAccounted, Review!RejectionsRecorded
<1> QED
  BY <1>1, <1>3, <1>4, <1>5 DEF ReviewInv, Review!ReviewAccounted

\* What a request may become when it does not reverse or record anything.
Allowed(r, q, acts) ==
  \/ q = Review!NoReq
  \/ q \in Listings /\ \A x \in q.hunks : Seen(x)
  \/ /\ q \in Asks /\ AskOK(q, acts)
     /\ \A s \in Reviewers : s # r /\ req[s] \in Asks => req[s].id # q.id
     /\ \A x \in reversed : x.id # q.id
     /\ q.at = "record" /\ q.kind = "rejected" => q.nodiff

LEMMA RequestMoves ==
  ASSUME ReviewInv, NEW r \in Reviewers, NEW q, req' = [req EXCEPT ![r] = q],
         req[r].at # "record", UNCHANGED <<worktree, base, task, journal, view, reversed>>,
         effort' \in [edits : Nat, acts : Nat], effort.acts <= effort'.acts,
         Allowed(r, q, effort'.acts)
  PROVE  /\ ReviewTypes' /\ RequestsInv'
         /\ Review!RejectsWhatWasShown' /\ Review!RejectionsRecorded'
<1>0. /\ req \in [Reviewers -> {Review!NoReq} \cup Asks \cup Listings]
      /\ effort.acts \in Nat /\ effort'.acts \in Nat
  BY DEF ReviewInv, ReviewTypes
<1>1. req'[r] = q /\ \A s \in Reviewers : s # r => req'[s] = req[s]
  BY <1>0
<1>2. ReviewTypes'
  BY <1>0 DEF ReviewInv, ReviewTypes, Allowed
<1>3. ASSUME NEW n \in Nat, n < effort.acts PROVE n < effort'.acts
  BY <1>0, <1>3
<1>4. /\ q \in Asks => /\ AskOK(q, effort'.acts)
                       /\ \A s \in Reviewers : s # r /\ req[s] \in Asks => req[s].id # q.id
                       /\ \A x \in reversed : x.id # q.id
                       /\ q.at = "record" /\ q.kind = "rejected" => TookEffect(q, reversed)
      /\ q \in Listings => \A x \in q.hunks : Seen(x)
  BY KindsOfRequest DEF Allowed, TookEffect
<1>5. RequestsInv'
  <2>1. ASSUME NEW s \in Reviewers, req'[s] \in Asks PROVE AskOK(req'[s], effort'.acts)
    <3>1. CASE s = r
      BY <3>1, <2>1, <1>1, <1>4
    <3>2. CASE s # r
      <4>1. req[s] \in Asks /\ AskOK(req[s], effort.acts) /\ req[s].id \in Nat
        BY <3>2, <2>1, <1>1 DEF ReviewInv, RequestsInv, Asks
      <4> QED
        BY <4>1, <3>2, <1>1, <1>3 DEF AskOK
    <3> QED
      BY <3>1, <3>2
  <2>2. ASSUME NEW s \in Reviewers, req'[s] \in Listings PROVE \A x \in req'[s].hunks : Seen(x)
    <3>1. CASE s = r
      BY <3>1, <2>2, <1>1, <1>4
    <3>2. CASE s # r
      BY <3>2, <2>2, <1>1 DEF ReviewInv, RequestsInv
    <3> QED
      BY <3>1, <3>2
  <2>3. ASSUME NEW s \in Reviewers, NEW u \in Reviewers, req'[s] \in Asks, req'[u] \in Asks,
               req'[s].id = req'[u].id
        PROVE  s = u
    <3>1. CASE s = r /\ u # r
      BY <3>1, <2>3, <1>1, <1>4
    <3>2. CASE s # r /\ u = r
      BY <3>2, <2>3, <1>1, <1>4
    <3>3. CASE s # r /\ u # r
      BY <3>3, <2>3, <1>1 DEF ReviewInv, RequestsInv
    <3> QED
      BY <3>1, <3>2, <3>3
  <2>4. ASSUME NEW x \in reversed PROVE x.id < effort'.acts
    <3>1. x.id \in Nat /\ x.id < effort.acts
      BY DEF ReviewInv, ReviewTypes, RequestsInv, Reversals
    <3> QED
      BY <3>1, <1>3
  <2>5. ASSUME NEW s \in Reviewers, NEW x \in reversed, req'[s] \in Asks, x.id = req'[s].id
        PROVE  req'[s].at = "record"
    <3>1. s # r
      BY <2>5, <1>1, <1>4
    <3> QED
      BY <3>1, <2>5, <1>1 DEF ReviewInv, RequestsInv
  <2>6. ASSUME NEW s \in Reviewers, req'[s] \in Asks, req'[s].at = "record", req'[s].kind = "rejected"
        PROVE  TookEffect(req'[s], reversed)
    <3>1. CASE s = r
      BY <3>1, <2>6, <1>1, <1>4
    <3>2. CASE s # r
      BY <3>2, <2>6, <1>1 DEF ReviewInv, RequestsInv
    <3> QED
      BY <3>1, <3>2
  <2>7. (\A x \in view' : Seen(x)) /\ \A e \in journal' : EventOK(e)
    BY DEF ReviewInv, RequestsInv
  <2> QED
    BY <2>1, <2>2, <2>3, <2>4, <2>5, <2>6, <2>7 DEF RequestsInv
<1>6. Review!RejectsWhatWasShown'
  BY DEF ReviewInv, Review!ReviewAccounted, Review!RejectsWhatWasShown
<1>7. Review!RejectionsRecorded'
  <2>1. Review!RejectionsRecorded
    BY DEF ReviewInv, Review!ReviewAccounted
  <2>2. ASSUME NEW x \in reversed, NEW s \in Reviewers, req[s].at = "record", req[s].id = x.id
        PROVE  req'[s].at = "record" /\ req'[s].id = x.id
    BY <2>2, <1>1
  <2> QED
    BY <2>1, <2>2 DEF Review!RejectionsRecorded
<1> QED
  BY <1>2, <1>5, <1>6, <1>7

LEMMA AskKeeps ==
  ASSUME ReviewInv, NEW r \in Reviewers, NEW shown \in view, NEW kind \in {"accepted", "rejected"},
         Review!Ask(r, shown, kind)
  PROVE  ReviewInv'
<1> DEFINE n == effort.acts
           q == [at |-> IF kind = "rejected" THEN "diff" ELSE "record", kind |-> kind,
                 path |-> shown.hunk.path, start |-> shown.start, shown |-> shown,
                 found |-> {}, nodiff |-> FALSE, id |-> n]
<1>0. /\ req[r] = Review!NoReq /\ req' = [req EXCEPT ![r] = q]
      /\ effort' = [effort EXCEPT !.acts = @ + 1]
      /\ UNCHANGED <<worktree, upstream, base, task, journal, view, list, reversed>>
  BY DEF Review!Ask
<1>1. effort \in [edits : Nat, acts : Nat] /\ n \in Nat
  BY DEF ReviewInv, ReviewTypes
<1>2. effort' \in [edits : Nat, acts : Nat] /\ effort'.acts = n + 1 /\ effort.acts <= effort'.acts
  BY <1>0, <1>1
<1>3. Seen(shown)
  BY DEF ReviewInv, RequestsInv
<1>4. q \in Asks /\ AskOK(q, n + 1)
  <2>1. shown \in Shown /\ shown.start \in Int /\ shown.hunk.path \in Paths
    BY <1>3 DEF Seen, Shown, Paths
  <2>2. q \in Asks
    BY <2>1, <1>1 DEF Asks
  <2> QED
    BY <2>2, <1>1, <1>3 DEF AskOK
<1>5. q.id = n /\ q.at # "apply" /\ (q.at = "record" => q.kind # "rejected")
  OBVIOUS
<1> HIDE DEF q
<1>6. \A s \in Reviewers : req[s] \in Asks => req[s].id # n
  <2> SUFFICES ASSUME NEW s \in Reviewers, req[s] \in Asks PROVE req[s].id # n
    OBVIOUS
  <2>1. req[s].id < n /\ req[s].id \in Nat
    BY DEF ReviewInv, RequestsInv, AskOK, Asks
  <2> QED
    BY <2>1, <1>1
<1>7. \A x \in reversed : x.id # n
  <2> SUFFICES ASSUME NEW x \in reversed PROVE x.id # n
    OBVIOUS
  <2>1. x.id < n /\ x.id \in Nat
    BY DEF ReviewInv, ReviewTypes, RequestsInv, Reversals
  <2> QED
    BY <2>1, <1>1
<1>8. Allowed(r, q, effort'.acts)
  BY <1>2, <1>4, <1>5, <1>6, <1>7 DEF Allowed
<1>9. req[r].at # "record"
  BY <1>0, KindsOfRequest
<1>10. /\ ReviewTypes' /\ RequestsInv'
       /\ Review!RejectsWhatWasShown' /\ Review!RejectionsRecorded'
  BY <1>0, <1>2, <1>8, <1>9, RequestMoves
<1>11. Review!UnaskedWasReviewed'
  BY <1>0 DEF ReviewInv, Review!ReviewAccounted, Review!UnaskedWasReviewed
<1> QED
  BY <1>10, <1>11 DEF ReviewInv, Review!ReviewAccounted

\* A request that is at one of the places of a decision is one.
LEMMA IsAsk ==
  ASSUME ReviewInv, NEW r \in Reviewers, req[r].at \in {"diff", "apply", "record"}
  PROVE  req[r] \in Asks /\ AskOK(req[r], effort.acts)
<1>1. req[r] \in {Review!NoReq} \cup Asks \cup Listings
  BY DEF ReviewInv, ReviewTypes
<1>2. req[r] \in Asks
  BY <1>1, KindsOfRequest
<1> QED
  BY <1>2 DEF ReviewInv, RequestsInv

LEMMA RejectDiffKeeps ==
  ASSUME ReviewAssumptions, ReviewInv, NEW r \in Reviewers, Review!RejectDiff(r)
  PROVE  ReviewInv'
<1> DEFINE a == req[r]
           hit == Review!Selected(a.path, a.start)
           none == {h \in Review!Diff : h.path = a.path} = {}
           gone == [a EXCEPT !.at = "record", !.nodiff = TRUE]
           next == [a EXCEPT !.at = "apply", !.found = hit]
           q == IF none THEN gone ELSE IF hit = {} THEN Review!NoReq ELSE next
<1>0. /\ req' = [req EXCEPT ![r] = q] /\ a.at = "diff"
      /\ UNCHANGED <<worktree, upstream, base, task, journal, view, list, reversed, effort>>
  BY DEF Review!RejectDiff
<1>1. a \in Asks /\ AskOK(a, effort.acts)
  BY <1>0, IsAsk
<1>2. hit \subseteq Shown /\ \A x \in hit : Seen(x) /\ x.hunk.path = a.path /\ x.start = a.start
  <2>1. worktree \subseteq Edits
    BY DEF ReviewInv, ReviewTypes
  <2>2. \A x \in Review!Hunks : Seen(x)
    BY <2>1, HunksAreSeen
  <2> QED
    BY <2>2 DEF Review!Selected, Seen
<1> HIDE DEF hit
<1>3. /\ gone \in Asks /\ gone.at = "record" /\ gone.nodiff = TRUE /\ gone.id = a.id
      /\ gone.shown = a.shown /\ gone.path = a.path /\ gone.start = a.start /\ gone.found = a.found
  BY <1>1 DEF Asks
<1>4. /\ next \in Asks /\ next.at = "apply" /\ next.id = a.id /\ next.found = hit
      /\ next.shown = a.shown /\ next.path = a.path /\ next.start = a.start
  BY <1>1, <1>2 DEF Asks
<1>5. (\A s \in Reviewers : s # r /\ req[s] \in Asks => req[s].id # a.id) /\ \A x \in reversed : x.id # a.id
  BY <1>0, <1>1 DEF ReviewInv, RequestsInv
<1> HIDE DEF gone, next, a, none
<1>6. Allowed(r, q, effort.acts)
  <2>1. CASE none
    <3>1. AskOK(gone, effort.acts)
      BY <1>1, <1>3 DEF AskOK
    <3> QED
      BY <3>1, <2>1, <1>3, <1>5 DEF Allowed
  <2>2. CASE ~none /\ hit # {}
    <3>1. AskOK(next, effort.acts)
      BY <2>2, <1>1, <1>2, <1>4 DEF AskOK
    <3> QED
      BY <3>1, <2>2, <1>4, <1>5 DEF Allowed
  <2>3. CASE ~none /\ hit = {}
    BY <2>3 DEF Allowed
  <2> QED
    BY <2>1, <2>2, <2>3
<1> HIDE DEF q
<1>7. effort' \in [edits : Nat, acts : Nat] /\ effort.acts <= effort'.acts /\ effort' = effort
  BY <1>0 DEF ReviewInv, ReviewTypes
<1>8. req[r].at # "record"
  BY <1>0 DEF a
<1>9. /\ ReviewTypes' /\ RequestsInv'
      /\ Review!RejectsWhatWasShown' /\ Review!RejectionsRecorded'
  BY <1>0, <1>6, <1>7, <1>8, RequestMoves
<1>10. Review!UnaskedWasReviewed'
  BY <1>0 DEF ReviewInv, Review!ReviewAccounted, Review!UnaskedWasReviewed
<1> QED
  BY <1>9, <1>10 DEF ReviewInv, Review!ReviewAccounted

LEMMA ChecklistHunksKeeps ==
  ASSUME ReviewAssumptions, ReviewInv, NEW r \in Reviewers, Review!ChecklistHunks(r)
  PROVE  ReviewInv'
<1> DEFINE q == [at |-> "rows", hunks |-> Review!Hunks]
<1>0. /\ req[r] = Review!NoReq /\ req' = [req EXCEPT ![r] = q]
      /\ effort' = [effort EXCEPT !.acts = @ + 1]
      /\ UNCHANGED <<worktree, upstream, base, task, journal, view, list, reversed>>
  BY DEF Review!ChecklistHunks
<1>1. effort \in [edits : Nat, acts : Nat] /\ worktree \subseteq Edits
  BY DEF ReviewInv, ReviewTypes
<1>2. effort' \in [edits : Nat, acts : Nat] /\ effort.acts <= effort'.acts
  BY <1>0, <1>1
<1>3. \A x \in Review!Hunks : Seen(x) /\ x \in Shown
  BY <1>1, HunksAreSeen DEF Seen
<1>4. q \in Listings /\ \A x \in q.hunks : Seen(x)
  BY <1>3 DEF Listings
<1> HIDE DEF q
<1>5. Allowed(r, q, effort'.acts) /\ req[r].at # "record"
  BY <1>0, <1>4, KindsOfRequest DEF Allowed
<1>6. /\ ReviewTypes' /\ RequestsInv'
      /\ Review!RejectsWhatWasShown' /\ Review!RejectionsRecorded'
  BY <1>0, <1>2, <1>5, RequestMoves
<1>7. Review!UnaskedWasReviewed'
  BY <1>0 DEF ReviewInv, Review!ReviewAccounted, Review!UnaskedWasReviewed
<1> QED
  BY <1>6, <1>7 DEF ReviewInv, Review!ReviewAccounted

\* A hunk that is not asked for stands at the line of an event at this base revision:
\* below the same edits, that is the hunk the event was made of.
LEMMA ChecklistRowsKeeps ==
  ASSUME ReviewAssumptions, ReviewInv, NEW r \in Reviewers, Review!ChecklistRows(r)
  PROVE  ReviewInv'
<1> DEFINE item(h) == [hunk |-> h.hunk, above |-> h.above,
                       asked |-> h \in Review!Checklist(req[r].hunks), by |-> Review!Reviewed(h)]
<1>0. /\ req[r].at = "rows" /\ req' = [req EXCEPT ![r] = Review!NoReq]
      /\ list' = list \cup {item(h) : h \in req[r].hunks}
      /\ UNCHANGED <<worktree, upstream, base, task, journal, view, reversed, effort>>
  BY DEF Review!ChecklistRows
<1>1. req[r] \in Listings /\ \A x \in req[r].hunks : Seen(x)
  <2>1. req[r] \in {Review!NoReq} \cup Asks \cup Listings
    BY DEF ReviewInv, ReviewTypes
  <2>2. req[r] \in Listings
    BY <2>1, <1>0, KindsOfRequest
  <2> QED
    BY <2>2 DEF ReviewInv, RequestsInv
<1>2. effort' \in [edits : Nat, acts : Nat] /\ effort.acts <= effort'.acts
  BY <1>0 DEF ReviewInv, ReviewTypes
<1>3. /\ ReviewTypes' /\ RequestsInv'
      /\ Review!RejectsWhatWasShown' /\ Review!RejectionsRecorded'
  <2>1. Allowed(r, Review!NoReq, effort'.acts) /\ req[r].at # "record"
    BY <1>0 DEF Allowed
  <2> QED
    BY <2>1, <1>0, <1>2, RequestMoves
<1>4. ASSUME NEW h \in req[r].hunks, ~item(h).asked
      PROVE  \E e \in item(h).by : item(h).hunk \in e.hunks \/ e.above # item(h).above
  <2>1. Review!Reviewed(h) # {}
    BY <1>4 DEF Review!Checklist
  <2>2. PICK e \in journal : e \in Review!Reviewed(h) /\ e.path = h.hunk.path /\ e.start = h.start
    BY <2>1 DEF Review!Reviewed
  <2>3. PICK x : /\ Seen(x) /\ x.hunk \in e.hunks /\ x.above = e.above
                 /\ x.start = e.start /\ x.hunk.path = e.path
    BY DEF ReviewInv, RequestsInv, EventOK
  <2>4. e.above = h.above => h.hunk \in e.hunks
    <3> SUFFICES ASSUME e.above = h.above PROVE h.hunk \in e.hunks
      OBVIOUS
    <3>1. Seen(h) /\ x.hunk.path = h.hunk.path /\ x.start = h.start /\ x.above = h.above
      BY <2>2, <2>3, <1>1
    <3>2. x.hunk = h.hunk
      BY <3>1, <2>3, LineNamesHunk
    <3> QED
      BY <3>2, <2>3
  <2> QED
    BY <2>2, <2>4
<1>5. Review!UnaskedWasReviewed'
  <2>1. Review!UnaskedWasReviewed
    BY DEF ReviewInv, Review!ReviewAccounted
  <2> HIDE DEF item
  <2> QED
    BY <2>1, <1>0, <1>4 DEF Review!UnaskedWasReviewed
<1> QED
  BY <1>3, <1>5 DEF ReviewInv, Review!ReviewAccounted

LEMMA RejectApplyKeeps ==
  ASSUME ReviewAssumptions, ReviewInv, NEW r \in Reviewers, Review!RejectApply(r)
  PROVE  ReviewInv'
<1> DEFINE a == req[r]
           chosen == CHOOSE x \in a.found : TRUE
           h == chosen.hunk
           fits == h \in worktree \/ h.add = 0
           q == [a EXCEPT !.at = "record"]
           new == [hunk |-> h, shown |-> a.shown, id |-> a.id, above |-> chosen.above, fate |-> "open"]
<1>0. /\ a.at = "apply" /\ worktree' = worktree \ {h}
      /\ req' = [req EXCEPT ![r] = IF fits THEN q ELSE Review!NoReq]
      /\ reversed' = IF fits THEN reversed \cup {new} ELSE reversed
      /\ UNCHANGED <<upstream, base, task, journal, view, list, effort>>
  BY DEF Review!RejectApply
<1>1. a \in Asks /\ AskOK(a, effort.acts)
  BY <1>0, IsAsk
<1>2. chosen \in a.found
  BY <1>0, <1>1 DEF AskOK
<1> HIDE DEF chosen
<1>3. Seen(chosen) /\ h.path = a.path /\ chosen.start = a.start
  BY <1>1, <1>2 DEF AskOK
<1>4. new \in Reversals /\ new.id = a.id /\ new.hunk = h /\ new.shown = a.shown
      /\ new.above = chosen.above /\ new.fate = "open"
  <2>1. h \in Edits /\ chosen.above \in SUBSET Edits
    BY <1>3 DEF Seen, Shown
  <2>2. a.shown \in Shown /\ a.id \in Nat
    BY <1>1 DEF Asks
  <2> HIDE DEF h, a
  <2> QED
    BY <2>1, <2>2 DEF Reversals, Fates
<1>5. /\ q \in Asks /\ q.at = "record" /\ q.id = a.id /\ q.found = a.found /\ q.nodiff = a.nodiff
      /\ q.shown = a.shown /\ q.path = a.path /\ q.start = a.start /\ q.kind = a.kind
  BY <1>1 DEF Asks
<1>6. effort' \in [edits : Nat, acts : Nat] /\ effort.acts <= effort'.acts /\ effort' = effort
  BY <1>0 DEF ReviewInv, ReviewTypes
<1>7. Review!UnaskedWasReviewed'
  BY <1>0 DEF ReviewInv, Review!ReviewAccounted, Review!UnaskedWasReviewed
<1>8. /\ \A s \in Reviewers : s # r /\ req[s] \in Asks => req[s].id # a.id
      /\ \A x \in reversed : x.id # a.id
  BY <1>0, <1>1 DEF ReviewInv, RequestsInv
<1> HIDE DEF q, new
<1>9. CASE ~fits
  <2>1. worktree' = worktree /\ req' = [req EXCEPT ![r] = Review!NoReq] /\ reversed' = reversed
    BY <1>0, <1>9
  <2>2. Allowed(r, Review!NoReq, effort'.acts) /\ req[r].at # "record"
    BY <1>0 DEF Allowed
  <2>3. /\ ReviewTypes' /\ RequestsInv'
        /\ Review!RejectsWhatWasShown' /\ Review!RejectionsRecorded'
    BY <2>1, <2>2, <1>0, <1>6, RequestMoves
  <2> QED
    BY <2>3, <1>7 DEF ReviewInv, Review!ReviewAccounted
<1>10. CASE fits
  <2>0. /\ req \in [Reviewers -> {Review!NoReq} \cup Asks \cup Listings]
        /\ reversed' = reversed \cup {new} /\ req' = [req EXCEPT ![r] = q]
    BY <1>0, <1>10 DEF ReviewInv, ReviewTypes
  <2>1. req'[r] = q /\ \A s \in Reviewers : s # r => req'[s] = req[s]
    BY <2>0
  <2> HIDE DEF fits
  <2>2. ReviewTypes'
    BY <2>0, <1>0, <1>4, <1>5, <1>6 DEF ReviewInv, ReviewTypes
  <2>3. AskOK(q, effort.acts)
    BY <1>1, <1>5 DEF AskOK
  <2>4. TookEffect(q, reversed')
    BY <2>0, <1>2, <1>4, <1>5 DEF TookEffect
  <2> HIDE DEF a, h
  <2>5. RequestsInv'
    <3>1. ASSUME NEW s \in Reviewers, req'[s] \in Asks PROVE AskOK(req'[s], effort.acts)
      BY <3>1, <2>1, <2>3 DEF ReviewInv, RequestsInv
    <3>2. ASSUME NEW s \in Reviewers, req'[s] \in Listings PROVE \A x \in req'[s].hunks : Seen(x)
      BY <3>2, <2>1, <1>5, KindsOfRequest DEF ReviewInv, RequestsInv
    <3>3. ASSUME NEW s \in Reviewers, NEW u \in Reviewers, req'[s] \in Asks, req'[u] \in Asks,
                 req'[s].id = req'[u].id
          PROVE  s = u
      <4>1. CASE s = r /\ u # r
        BY <4>1, <3>3, <2>1, <1>5, <1>8
      <4>2. CASE s # r /\ u = r
        BY <4>2, <3>3, <2>1, <1>5, <1>8
      <4>3. CASE s # r /\ u # r
        BY <4>3, <3>3, <2>1 DEF ReviewInv, RequestsInv
      <4> QED
        BY <4>1, <4>2, <4>3
    <3>4. \A x \in reversed' : x.id < effort.acts
      BY <2>0, <1>1, <1>4 DEF ReviewInv, RequestsInv, AskOK
    <3>5. ASSUME NEW s \in Reviewers, NEW x \in reversed', req'[s] \in Asks, x.id = req'[s].id
          PROVE  req'[s].at = "record"
      <4>1. CASE s = r
        BY <4>1, <2>1, <1>5
      <4>2. CASE s # r
        <5>1. x # new
          BY <4>2, <3>5, <2>1, <1>4, <1>8
        <5> QED
          BY <5>1, <4>2, <3>5, <2>0, <2>1 DEF ReviewInv, RequestsInv
      <4> QED
        BY <4>1, <4>2
    <3>6. ASSUME NEW s \in Reviewers, req'[s] \in Asks, req'[s].at = "record", req'[s].kind = "rejected"
          PROVE  TookEffect(req'[s], reversed')
      <4>1. CASE s = r
        BY <4>1, <2>1, <2>4
      <4>2. CASE s # r
        <5>1. TookEffect(req[s], reversed)
          BY <4>2, <3>6, <2>1 DEF ReviewInv, RequestsInv
        <5> QED
          BY <5>1, <4>2, <2>0, <2>1 DEF TookEffect
      <4> QED
        BY <4>1, <4>2
    <3>7. (\A x \in view' : Seen(x)) /\ \A e \in journal' : EventOK(e)
      BY <1>0 DEF ReviewInv, RequestsInv
    <3> QED
      BY <3>1, <3>2, <3>3, <3>4, <3>5, <3>6, <3>7, <1>6 DEF RequestsInv
  <2>6. Review!RejectsWhatWasShown'
    <3>1. new.above = new.shown.above => new.hunk = new.shown.hunk
      <4> SUFFICES ASSUME new.above = new.shown.above PROVE new.hunk = new.shown.hunk
        OBVIOUS
      <4>1. /\ Seen(a.shown) /\ a.shown.hunk.path = chosen.hunk.path
            /\ a.shown.start = chosen.start /\ a.shown.above = chosen.above
        BY <1>1, <1>3, <1>4 DEF AskOK, h
      <4>2. a.shown.hunk = chosen.hunk
        BY <4>1, <1>3, LineNamesHunk
      <4> QED
        BY <4>2, <1>4 DEF h
    <3> QED
      BY <3>1, <2>0 DEF ReviewInv, Review!ReviewAccounted, Review!RejectsWhatWasShown
  <2>7. Review!RejectionsRecorded'
    <3>0. Review!RejectionsRecorded
      BY DEF ReviewInv, Review!ReviewAccounted
    <3>1. ASSUME NEW x \in reversed', x.fate = "open"
          PROVE  \E s \in Reviewers : req'[s].at = "record" /\ req'[s].id = x.id
      <4>1. CASE x = new
        BY <4>1, <2>1, <1>4, <1>5
      <4>2. CASE x # new
        <5>1. x \in reversed
          BY <4>2, <2>0
        <5>2. PICK s \in Reviewers : req[s].at = "record" /\ req[s].id = x.id
          BY <5>1, <3>0, <3>1 DEF Review!RejectionsRecorded
        <5>3. s # r
          BY <5>2, <1>0 DEF a
        <5> QED
          BY <5>2, <5>3, <2>1
      <4> QED
        BY <4>1, <4>2
    <3>2. ASSUME NEW x \in reversed', x.fate # "open"
          PROVE  \/ x.fate = "recorded" /\ \E e \in journal' : e.id = x.id
                 \/ x.fate = "lost" /\ base' > 1
                 \/ x.fate = "refused" /\ task' = "cancelled"
      <4>1. x \in reversed
        BY <3>2, <2>0, <1>4
      <4> QED
        BY <4>1, <3>0, <3>2, <1>0 DEF Review!RejectionsRecorded
    <3>3. ASSUME NEW e \in journal', e.kind = "rejected"
          PROVE  e.nodiff \/ \E x \in reversed' : x.id = e.id /\ x.hunk \in e.hunks
      BY <3>0, <3>3, <2>0, <1>0 DEF Review!RejectionsRecorded
    <3> QED
      BY <3>1, <3>2, <3>3 DEF Review!RejectionsRecorded
  <2> QED
    BY <2>2, <2>5, <2>6, <2>7, <1>7 DEF ReviewInv, Review!ReviewAccounted
<1> QED
  BY <1>9, <1>10

\* The reversals but for what became of their requests.
SameReversals(xs, ys) ==
  /\ \A y \in ys : \E x \in xs : /\ y \in Reversals /\ x.id = y.id /\ x.hunk = y.hunk
                                 /\ x.shown = y.shown /\ x.above = y.above
  /\ \A x \in xs : \E y \in ys : x.id = y.id /\ x.hunk = y.hunk

LEMMA EffectStands ==
  ASSUME NEW xs, NEW ys, SameReversals(xs, ys), NEW q, TookEffect(q, xs)
  PROVE  TookEffect(q, ys)
BY DEF SameReversals, TookEffect

LEMMA FateSet ==
  ASSUME NEW x \in Reversals, NEW f \in Fates
  PROVE  LET y == [x EXCEPT !.fate = f]
         IN  /\ y \in Reversals /\ y.id = x.id /\ y.hunk = x.hunk /\ y.shown = x.shown
             /\ y.above = x.above /\ y.fate = f
BY DEF Reversals

\* The record: no other request has this id, so no other reversal is settled.
LEMMA RecordKeeps ==
  ASSUME ReviewInv, NEW r \in Reviewers, Review!Record(r)
  PROVE  ReviewInv'
<1> DEFINE a == req[r]
           allowed == task # "cancelled"
           f == IF allowed THEN "recorded" ELSE "refused"
           event == [kind |-> a.kind, path |-> a.path, start |-> a.start, base |-> base,
                     hunks |-> {x.hunk : x \in {a.shown} \cup a.found}, nodiff |-> a.nodiff,
                     above |-> a.shown.above, id |-> a.id]
           settle(x) == IF x.id = a.id THEN [x EXCEPT !.fate = f] ELSE x
<1>0. /\ a.at = "record" /\ journal' = IF allowed THEN journal \cup {event} ELSE journal
      /\ reversed' = {settle(x) : x \in reversed}
      /\ req' = [req EXCEPT ![r] = Review!NoReq]
      /\ UNCHANGED <<worktree, upstream, base, task, view, list, effort>>
  BY DEF Review!Record, Review!Settled
<1>1. a \in Asks /\ AskOK(a, effort.acts)
  BY <1>0, IsAsk
<1>2. /\ req \in [Reviewers -> {Review!NoReq} \cup Asks \cup Listings]
      /\ reversed \subseteq Reversals /\ worktree \subseteq Edits /\ base \in Nat \ {0}
      /\ effort \in [edits : Nat, acts : Nat]
  BY DEF ReviewInv, ReviewTypes
<1>3. req'[r] = Review!NoReq /\ \A s \in Reviewers : s # r => req'[s] = req[s]
  BY <1>0, <1>2
<1>4. f \in Fates
  BY DEF Fates
<1> HIDE DEF f, a, event
<1>5. ASSUME NEW x \in reversed
      PROVE  /\ settle(x) \in Reversals /\ settle(x).id = x.id /\ settle(x).hunk = x.hunk
             /\ settle(x).shown = x.shown /\ settle(x).above = x.above
             /\ settle(x).fate = IF x.id = a.id THEN f ELSE x.fate
  <2>1. x \in Reversals
    BY <1>2
  <2> QED
    BY <2>1, <1>4, FateSet
<1> HIDE DEF settle
<1>6. SameReversals(reversed, reversed')
  BY <1>0, <1>5 DEF SameReversals
<1>7. ReviewTypes'
  <2>1. reversed' \subseteq Reversals
    BY <1>0, <1>5
  <2> QED
    BY <2>1, <1>0, <1>2 DEF ReviewTypes
<1>8. /\ event.id = a.id /\ event.kind = a.kind /\ event.nodiff = a.nodiff
      /\ \A y \in a.found : y.hunk \in event.hunks
  BY DEF event
<1>9. EventOK(event)
  <2>1. /\ Seen(a.shown) /\ a.shown.hunk \in event.hunks /\ a.shown.above = event.above
        /\ a.shown.start = event.start /\ a.shown.hunk.path = event.path
    BY <1>1 DEF AskOK, event
  <2> QED
    BY <2>1 DEF EventOK
<1>10. RequestsInv'
  <2>0. RequestsInv
    BY DEF ReviewInv
  <2>1. ASSUME NEW s \in Reviewers, req'[s] \in Asks \cup Listings PROVE s # r /\ req'[s] = req[s]
    BY <2>1, <1>3, KindsOfRequest
  <2>2. \A x \in reversed' : x.id < effort.acts
    BY <2>0, <1>0, <1>5 DEF RequestsInv
  <2>3. ASSUME NEW s \in Reviewers, NEW y \in reversed', req'[s] \in Asks, y.id = req'[s].id
        PROVE  req'[s].at = "record"
    BY <2>0, <2>1, <2>3, <1>6 DEF RequestsInv, SameReversals
  <2>4. ASSUME NEW s \in Reviewers, req'[s] \in Asks, req'[s].at = "record", req'[s].kind = "rejected"
        PROVE  TookEffect(req'[s], reversed')
    <3>1. TookEffect(req[s], reversed) /\ req'[s] = req[s]
      BY <2>0, <2>1, <2>4 DEF RequestsInv
    <3> QED
      BY <3>1, <1>6, EffectStands
  <2>5. (\A x \in view' : Seen(x)) /\ \A e \in journal' : EventOK(e)
    BY <2>0, <1>0, <1>9 DEF RequestsInv
  <2>6. ASSUME NEW s \in Reviewers, req'[s] \in Asks PROVE AskOK(req'[s], effort.acts)
    BY <2>0, <2>1, <2>6 DEF RequestsInv
  <2>7. ASSUME NEW s \in Reviewers, req'[s] \in Listings PROVE \A x \in req'[s].hunks : Seen(x)
    BY <2>0, <2>1, <2>7 DEF RequestsInv
  <2>8. ASSUME NEW s \in Reviewers, NEW u \in Reviewers, req'[s] \in Asks, req'[u] \in Asks,
               req'[s].id = req'[u].id
        PROVE  s = u
    BY <2>0, <2>1, <2>8 DEF RequestsInv
  <2>9. effort' = effort
    BY <1>0
  <2> QED
    BY <2>2, <2>3, <2>4, <2>5, <2>6, <2>7, <2>8, <2>9 DEF RequestsInv
<1>11. Review!RejectsWhatWasShown'
  <2>1. Review!RejectsWhatWasShown
    BY DEF ReviewInv, Review!ReviewAccounted
  <2> QED
    BY <2>1, <1>0, <1>5 DEF Review!RejectsWhatWasShown
<1>12. Review!RejectionsRecorded'
  <2>0. Review!RejectionsRecorded
    BY DEF ReviewInv, Review!ReviewAccounted
  <2>1. ASSUME NEW x \in reversed, x.id = a.id
        PROVE  \/ f = "recorded" /\ \E e \in journal' : e.id = x.id
               \/ f = "refused" /\ task' = "cancelled"
    <3>1. CASE allowed
      <4>1. event \in journal' /\ event.id = x.id /\ f = "recorded"
        BY <3>1, <2>1, <1>0, <1>8 DEF f
      <4> QED
        BY <4>1
    <3>2. CASE ~allowed
      BY <3>2, <1>0 DEF f
    <3> QED
      BY <3>1, <3>2
  <2>2. ASSUME NEW x \in reversed, x.id # a.id
        PROVE  \/ x.fate = "recorded" /\ \E e \in journal' : e.id = x.id
               \/ x.fate = "open" /\ \E s \in Reviewers : req'[s].at = "record" /\ req'[s].id = x.id
               \/ x.fate = "lost" /\ base' > 1
               \/ x.fate = "refused" /\ task' = "cancelled"
    <3>1. ASSUME NEW s \in Reviewers, req[s].at = "record", req[s].id = x.id
          PROVE  req'[s] = req[s]
      BY <3>1, <2>2, <1>3 DEF a
    <3>2. journal \subseteq journal'
      BY <1>0
    <3> QED
      BY <3>1, <3>2, <2>0, <1>0 DEF Review!RejectionsRecorded
  <2>3. ASSUME NEW y \in reversed'
        PROVE  \/ y.fate = "recorded" /\ \E e \in journal' : e.id = y.id
               \/ y.fate = "open" /\ \E s \in Reviewers : req'[s].at = "record" /\ req'[s].id = y.id
               \/ y.fate = "lost" /\ base' > 1
               \/ y.fate = "refused" /\ task' = "cancelled"
    <3>1. PICK x \in reversed : y = settle(x)
      BY <1>0
    <3>2. y.id = x.id /\ y.fate = IF x.id = a.id THEN f ELSE x.fate
      BY <3>1, <1>5
    <3>3. CASE x.id = a.id
      BY <3>2, <3>3, <2>1
    <3>4. CASE x.id # a.id
      <4>1. y.fate = x.fate
        BY <3>2, <3>4
      <4> QED
        BY <4>1, <3>2, <3>4, <2>2
    <3> QED
      BY <3>3, <3>4
  <2>4. ASSUME NEW e \in journal', e.kind = "rejected"
        PROVE  e.nodiff \/ \E y \in reversed' : y.id = e.id /\ y.hunk \in e.hunks
    <3>1. CASE e \in journal
      <4>1. e.nodiff \/ \E x \in reversed : x.id = e.id /\ x.hunk \in e.hunks
        BY <3>1, <2>0, <2>4 DEF Review!RejectionsRecorded
      <4> QED
        BY <4>1, <1>6 DEF SameReversals
    <3>2. CASE e = event
      <4>1. TookEffect(a, reversed)
        BY <3>2, <2>4, <1>0, <1>1, <1>8 DEF ReviewInv, RequestsInv, a
      <4>2. TookEffect(a, reversed')
        BY <4>1, <1>6, EffectStands
      <4> QED
        BY <4>2, <3>2, <1>8 DEF TookEffect
    <3> QED
      BY <3>1, <3>2, <1>0
  <2> QED
    BY <2>3, <2>4 DEF Review!RejectionsRecorded
<1>13. Review!UnaskedWasReviewed'
  BY <1>0 DEF ReviewInv, Review!ReviewAccounted, Review!UnaskedWasReviewed
<1> QED
  BY <1>7, <1>10, <1>11, <1>12, <1>13 DEF ReviewInv, Review!ReviewAccounted

\* A restart ends every request, and what was not recorded is lost.
LEMMA RestartKeeps ==
  ASSUME ReviewInv, NEW merged, Review!Restart(merged)
  PROVE  ReviewInv'
<1> DEFINE cut(x) == IF x.fate = "open" THEN [x EXCEPT !.fate = "lost"] ELSE x
<1>0. /\ base' = base + 1 /\ req' = [r \in Reviewers |-> Review!NoReq]
      /\ reversed' = {cut(x) : x \in reversed}
      /\ UNCHANGED <<worktree, task, journal, view, list, effort>>
  BY DEF Review!Restart, Review!Cut
<1>1. ReviewTypes
  BY DEF ReviewInv
<1>2. ASSUME NEW x \in reversed
      PROVE  /\ cut(x) \in Reversals /\ cut(x).id = x.id /\ cut(x).hunk = x.hunk
             /\ cut(x).shown = x.shown /\ cut(x).above = x.above
             /\ cut(x).fate = IF x.fate = "open" THEN "lost" ELSE x.fate
  <2>1. x \in Reversals /\ "lost" \in Fates
    BY <1>1 DEF ReviewTypes, Fates
  <2> QED
    BY <2>1, FateSet
<1> HIDE DEF cut
<1>3. SameReversals(reversed, reversed')
  BY <1>0, <1>2 DEF SameReversals
<1>4. ReviewTypes'
  <2>1. reversed' \subseteq Reversals
    BY <1>0, <1>2
  <2>2. base' \in Nat \ {0}
    BY <1>0, <1>1 DEF ReviewTypes
  <2> QED
    BY <2>1, <2>2, <1>0, <1>1 DEF ReviewTypes
<1>5. RequestsInv'
  <2>1. \A r \in Reviewers : req'[r] \notin Asks /\ req'[r] \notin Listings
    BY <1>0, KindsOfRequest
  <2>2. \A x \in reversed' : x.id < effort'.acts
    BY <1>0, <1>2 DEF ReviewInv, RequestsInv
  <2>3. (\A x \in view' : Seen(x)) /\ \A e \in journal' : EventOK(e)
    BY <1>0 DEF ReviewInv, RequestsInv
  <2> QED
    BY <2>1, <2>2, <2>3 DEF RequestsInv
<1>6. Review!RejectsWhatWasShown'
  <2>1. Review!RejectsWhatWasShown
    BY DEF ReviewInv, Review!ReviewAccounted
  <2> QED
    BY <2>1, <1>0, <1>2 DEF Review!RejectsWhatWasShown
<1>7. Review!RejectionsRecorded'
  <2>0. Review!RejectionsRecorded
    BY DEF ReviewInv, Review!ReviewAccounted
  <2>1. base \in Nat /\ base' > 1
    BY <1>0, <1>1 DEF ReviewTypes
  <2>2. ASSUME NEW y \in reversed'
        PROVE  \/ y.fate = "recorded" /\ \E e \in journal' : e.id = y.id
               \/ y.fate = "lost"
               \/ y.fate = "refused" /\ task' = "cancelled"
    <3>1. PICK x \in reversed : y = cut(x)
      BY <1>0
    <3>2. y.id = x.id /\ y.fate = IF x.fate = "open" THEN "lost" ELSE x.fate
      BY <3>1, <1>2
    <3> QED
      BY <3>2, <2>0, <1>0 DEF Review!RejectionsRecorded
  <2>3. ASSUME NEW e \in journal', e.kind = "rejected"
        PROVE  e.nodiff \/ \E y \in reversed' : y.id = e.id /\ y.hunk \in e.hunks
    <3>1. e.nodiff \/ \E x \in reversed : x.id = e.id /\ x.hunk \in e.hunks
      BY <2>0, <2>3, <1>0 DEF Review!RejectionsRecorded
    <3> QED
      BY <3>1, <1>3 DEF SameReversals
  <2> QED
    BY <2>1, <2>2, <2>3 DEF Review!RejectionsRecorded
<1>8. Review!UnaskedWasReviewed'
  BY <1>0 DEF ReviewInv, Review!ReviewAccounted, Review!UnaskedWasReviewed
<1> QED
  BY <1>4, <1>5, <1>6, <1>7, <1>8 DEF ReviewInv, Review!ReviewAccounted

LEMMA OtherReviewSteps ==
  ASSUME ReviewAssumptions, ReviewInv,
         \/ \E e \in Edits : Review!AgentEdit(e)
         \/ Review!TaskMoves
         \/ Review!DiffHunks
         \/ \E shown \in view : Review!AddComment(shown)
         \/ UNCHANGED Review!reviewVars
  PROVE  ReviewInv'
<1>0. effort \in [edits : Nat, acts : Nat] /\ worktree \subseteq Edits /\ \A x \in view : Seen(x)
  BY DEF ReviewInv, ReviewTypes, RequestsInv
<1>1. ASSUME NEW e \in Edits, Review!AgentEdit(e) PROVE ReviewInv'
  <2>1. /\ effort' \in [edits : Nat, acts : Nat] /\ effort'.acts = effort.acts
        /\ worktree' \subseteq Edits /\ effort.acts <= effort'.acts
    BY <1>0, <1>1 DEF Review!AgentEdit
  <2> QED
    BY <2>1, <1>0, <1>1, RestOfReview DEF Review!AgentEdit
<1>2. ASSUME Review!TaskMoves PROVE ReviewInv'
  <2>1. effort.acts <= effort'.acts /\ effort' \in [edits : Nat, acts : Nat]
    BY <1>0, <1>2 DEF Review!TaskMoves
  <2> QED
    BY <2>1, <1>0, <1>2, RestOfReview DEF Review!TaskMoves
<1>3. ASSUME Review!DiffHunks PROVE ReviewInv'
  <2>1. effort.acts <= effort'.acts /\ effort' \in [edits : Nat, acts : Nat]
    BY <1>0, <1>3 DEF Review!DiffHunks
  <2>2. \A x \in view' : Seen(x)
    BY <1>0, <1>3, HunksAreSeen DEF Review!DiffHunks
  <2> QED
    BY <2>1, <2>2, <1>0, <1>3, RestOfReview DEF Review!DiffHunks
<1>4. ASSUME NEW shown \in view, Review!AddComment(shown) PROVE ReviewInv'
  <2> DEFINE event == [kind |-> "comment", path |-> shown.hunk.path, start |-> shown.start,
                       base |-> base, hunks |-> {shown.hunk}, nodiff |-> FALSE,
                       above |-> shown.above, id |-> effort.acts]
  <2>1. /\ effort' \in [edits : Nat, acts : Nat] /\ effort.acts <= effort'.acts
        /\ journal' = journal \cup {event}
        /\ UNCHANGED <<worktree, upstream, base, task, view, req, list, reversed>>
    BY <1>0, <1>4 DEF Review!AddComment
  <2>2. EventOK(event) /\ event.kind = "comment"
    <3>1. /\ Seen(shown) /\ shown.hunk \in event.hunks /\ shown.above = event.above
          /\ shown.start = event.start /\ shown.hunk.path = event.path
      BY <1>0
    <3> QED
      BY <3>1 DEF EventOK
  <2> HIDE DEF event
  <2> QED
    BY <2>1, <2>2, <1>0, RestOfReview
<1>5. ASSUME UNCHANGED Review!reviewVars PROVE ReviewInv'
  <2>1. effort.acts <= effort'.acts /\ effort' \in [edits : Nat, acts : Nat]
    BY <1>0, <1>5 DEF Review!reviewVars
  <2> QED
    BY <2>1, <1>0, <1>5, RestOfReview DEF Review!reviewVars
<1> QED
  BY <1>1, <1>2, <1>3, <1>4, <1>5

\* Hunk review, for any edits told apart by their lines and any reviewers, agent edits,
\* merges and restarts between the steps of their requests: a rejection takes out the
\* hunk its reviewer was shown unless edits above it moved; it is recorded, lost with
\* the core or refused for a cancelled task, and a recorded one took effect; and a hunk
\* the checklist does not ask for was reviewed itself.
THEOREM ReviewIsAccounted ==
  ASSUME ReviewAssumptions PROVE Review!ReviewSpec => []Review!ReviewAccounted
<1>1. Review!Init => ReviewInv
  BY ReviewStarts
<1>2. ReviewInv /\ [Review!Next]_Review!reviewVars => ReviewInv'
  <2> SUFFICES ASSUME ReviewInv, [Review!Next]_Review!reviewVars PROVE ReviewInv'
    OBVIOUS
  <2>1. ASSUME NEW r \in Reviewers,
               \/ \E shown \in view, kind \in {"accepted", "rejected"} : Review!Ask(r, shown, kind)
               \/ Review!RejectDiff(r) \/ Review!RejectApply(r) \/ Review!Record(r)
               \/ Review!ChecklistHunks(r) \/ Review!ChecklistRows(r)
        PROVE  ReviewInv'
    BY <2>1, AskKeeps, RejectDiffKeeps, RejectApplyKeeps, RecordKeeps, ChecklistHunksKeeps,
       ChecklistRowsKeeps
  <2> QED
    BY <2>1, RestartKeeps, OtherReviewSteps DEF Review!Next
<1>3. ReviewInv => Review!ReviewAccounted
  BY DEF ReviewInv
<1> QED
  BY <1>1, <1>2, <1>3, PTL DEF Review!ReviewSpec

-----------------------------------------------------------------------------
(***************************************************************************)
(* The merge transaction.  Its record keeps its word through interrupted   *)
(* steps because the tip of the target is known at every one of them: it   *)
(* holds the commit of the record, or it was reset to the rollback point,  *)
(* which is older.  Nothing else is lost because what the checked out      *)
(* branch has gained under a record is exposed, merged from another        *)
(* branch, or was there at the rollback point.                             *)
(***************************************************************************)
CONSTANTS Branches, Target, Files, MaxCommits, MaxRounds, NoTx

VARIABLES tip, head, anc, touches, local, merging, mtx, pc, rounds, disturbed, exposed

Merge == INSTANCE MergeTransaction

\* A record has these fields, whatever they hold.
IsTx(t) ==
  t = [source |-> t.source, base |-> t.base, phase |-> t.phase, conflicts |-> t.conflicts,
       resolved |-> t.resolved, failed |-> t.failed, commit |-> t.commit, asked |-> t.asked]

\* The target is a branch, and NoTx (no file) is no record.
MergeAssumptions == Target \in Branches /\ ~IsTx(NoTx)

\* A commit is its own ancestor, and its ancestors are older.
GraphOK(A) ==
  /\ A \in Seq(SUBSET Nat)
  /\ \A c \in 1..Len(A) : c \in A[c] /\ A[c] \subseteq 1..c

TipsOK(tp, hd, A) ==
  /\ tp \in [Branches -> Nat] /\ \A b \in Branches : tp[b] \in 0..Len(A)
  /\ hd \in Branches /\ tp[hd] # 0 /\ tp[Target] # 0

\* What a record of a graph with n commits says.
TxOK(t, n) ==
  /\ IsTx(t) /\ t.base \in 1..n /\ t.commit \in 0..n /\ t.phase \in Merge!Phases
  /\ t.commit # 0 => t.base < t.commit
  /\ t.asked \subseteq t.conflicts \cup t.resolved
  /\ t.phase \in {"Open", "Conflicted"} => t.commit = 0
  /\ t.phase \in {"Open", "Validating", "Committed"} => t.conflicts = {}
  /\ t.phase = "Committed" => ~t.failed

\* A branch other than the one checked out has the commit.
HeldElsewhere(x, tp, hd, A) == \E b \in Branches : b # hd /\ tp[b] # 0 /\ x \in A[tp[b]]

NoneLost(tp, hd, A, ex) ==
  \A x \in 1..Len(A) : x \in ex \/ x \in A[tp[hd]] \/ HeldElsewhere(x, tp, hd, A)

\* A reset of the branch checked out to a commit loses nothing but what is exposed.
ResetSafe(to, tp, hd, A, ex) ==
  \A x \in A[tp[hd]] : x \in ex \/ x \in A[to] \/ HeldElsewhere(x, tp, hd, A)

\* The merge under way is of another branch.
PendingOK(m, tp, hd, A) ==
  /\ m = [head |-> m.head, unmerged |-> m.unmerged] /\ m.head \in 0..Len(A)
  /\ m.head # 0 => \A x \in A[m.head] : HeldElsewhere(x, tp, hd, A)

\* Under way: an operation that has a rolled back record to save.
Unwinding == pc # Merge!Idle /\ pc.tx.phase = "RolledBack"

RecordOK ==
  mtx # NoTx =>
    /\ TxOK(mtx, Len(anc))
    /\ ~disturbed => head = Target
    /\ ~disturbed /\ mtx.phase = "RolledBack" => mtx.commit \notin anc[tip[Target]]
    /\ ~disturbed /\ ~Unwinding /\ mtx.phase \in {"Validating", "Committed"}
         => mtx.commit \in anc[tip[Target]]

ProcessOK ==
  pc # Merge!Idle =>
    /\ pc = [at |-> pc.at, tx |-> pc.tx] /\ pc.at \in {"merge", "outcome", "conclude", "save"}
    /\ Merge!Live /\ TxOK(pc.tx, Len(anc)) /\ pc.tx.base = mtx.base
    /\ pc.at = "merge" =>
         /\ pc.tx.phase = "Open" /\ mtx.phase = "Open" /\ merging = Merge!NoMerge
         /\ pc.tx.source \in Branches /\ pc.tx.source # head /\ tip[pc.tx.source] # 0
    /\ pc.at = "outcome" => pc.tx.phase \in {"Open", "Conflicted", "Validating"}
    /\ pc.at = "conclude" => pc.tx.phase = "Conflicted" /\ pc.tx.conflicts = {}
    /\ pc.at = "save" => pc.tx.phase \in {"Conflicted", "Validating", "RolledBack"}
    /\ pc.tx.phase \in {"Validating", "RolledBack"} => merging = Merge!NoMerge
    /\ ~disturbed /\ pc.tx.phase = "RolledBack" => pc.tx.commit \notin anc[tip[Target]]
    /\ ~disturbed /\ pc.tx.phase = "Validating" => pc.tx.commit \in anc[tip[Target]]

QuietOK == ~Merge!Live \/ mtx.phase = "Validating" => merging = Merge!NoMerge

MergeInv ==
  /\ GraphOK(anc) /\ TipsOK(tip, head, anc) /\ disturbed \in BOOLEAN
  /\ RecordOK /\ ProcessOK /\ QuietOK
  /\ PendingOK(merging, tip, head, anc)
  /\ NoneLost(tip, head, anc, exposed)
  /\ Merge!Live => ResetSafe(mtx.base, tip, head, anc, exposed)

LEMMA MergeInvImplies == MergeInv => Merge!MergeAccounted
<1> SUFFICES ASSUME MergeInv PROVE Merge!MergeAccounted
  OBVIOUS
<1>1. Merge!RolledBackIsUnwound
  BY DEF MergeInv, RecordOK, QuietOK, Merge!RolledBackIsUnwound, Merge!Live, Merge!Terminal
<1>2. ASSUME ~disturbed PROVE Merge!CommittedHasLanded
  <2> SUFFICES ASSUME mtx # NoTx, mtx.phase = "Committed"
               PROVE  /\ mtx.commit \in anc[tip[Target]] /\ ~mtx.failed
                      /\ mtx.conflicts = {} /\ mtx.asked \subseteq mtx.resolved
    BY Zenon DEF Merge!CommittedHasLanded
  <2>1. ~Unwinding
    BY DEF Unwinding, MergeInv, ProcessOK, Merge!Live, Merge!Terminal
  <2>2. mtx.commit \in anc[tip[Target]]
    BY <1>2, <2>1 DEF MergeInv, RecordOK
  <2>3. ~mtx.failed
    BY Zenon DEF MergeInv, RecordOK, TxOK
  <2>4. mtx.conflicts = {} /\ mtx.asked \subseteq mtx.resolved
    BY DEF MergeInv, RecordOK, TxOK
  <2> QED
    BY <2>2, <2>3, <2>4, Zenon
<1>3. Merge!NothingElseIsLost
  <2>1. DOMAIN anc = 1..Len(anc)
    BY DEF MergeInv, GraphOK
  <2>2. ASSUME NEW x \in 1..Len(anc), x \notin exposed
        PROVE  \E b \in Branches : tip[b] # 0 /\ x \in anc[tip[b]]
    BY <2>2 DEF MergeInv, NoneLost, TipsOK, HeldElsewhere
  <2> QED
    BY <2>1, <2>2 DEF Merge!NothingElseIsLost, Merge!Commits
<1> QED
  BY <1>1, <1>2, <1>3, Zenon DEF Merge!MergeAccounted

\* A commit on top of branch b, with a second parent unless that is 0.
CommitMade(A, B, tp, up, b, second) ==
  /\ Len(A) \in Nat /\ Len(B) = Len(A) + 1 /\ \A i \in 1..Len(A) : B[i] = A[i]
  /\ up[b] = Len(A) + 1 /\ \A k \in Branches : k # b => up[k] = tp[k]
  /\ \A x : x \in B[Len(A) + 1] <=>
              x = Len(A) + 1 \/ x \in A[tp[b]] \/ (second # 0 /\ x \in A[second])

LEMMA CommitMakes ==
  ASSUME MergeAssumptions, MergeInv, NEW b \in Branches, tip[b] # 0, NEW files,
         NEW second \in 0..Len(anc), Merge!Commit(b, files, second), NEW h \in Branches,
         tip[h] # 0
  PROVE  /\ CommitMade(anc, anc', tip, tip', b, second)
         /\ GraphOK(anc') /\ TipsOK(tip', h, anc')
<1>1. anc \in Seq(SUBSET Nat) /\ Len(anc) \in Nat
  BY DEF MergeInv, GraphOK
<1>2. PICK n : n = Len(anc)
  OBVIOUS
<1>3. PICK S : S = {n + 1} \cup anc[tip[b]] \cup (IF second = 0 THEN {} ELSE anc[second])
  OBVIOUS
<1>4. anc' = Append(anc, S) /\ tip' = [tip EXCEPT ![b] = n + 1] /\ n \in Nat
  BY <1>1, <1>2, <1>3 DEF Merge!Commit
<1>5. \A c \in 1..n : c \in anc[c] /\ anc[c] \subseteq 1..c
  BY <1>2 DEF MergeInv, GraphOK
<1>6. tip \in [Branches -> Nat] /\ tip[Target] # 0 /\ \A k \in Branches : tip[k] \in 0..n
  BY <1>2 DEF MergeInv, TipsOK
<1>7. tip[b] \in 1..n /\ (second # 0 => second \in 1..n)
  BY <1>2, <1>4, <1>6
<1>8. anc[tip[b]] \subseteq 1..n /\ (second # 0 => anc[second] \subseteq 1..n)
  BY <1>4, <1>5, <1>7
<1>9. S \subseteq 1..(n + 1) /\ n + 1 \in S /\ S \in SUBSET Nat
  BY <1>3, <1>4, <1>8
<1>10. /\ anc' \in Seq(SUBSET Nat) /\ Len(anc') = n + 1 /\ anc'[n + 1] = S
       /\ \A i \in 1..n : anc'[i] = anc[i]
  BY <1>1, <1>2, <1>4, <1>9, AppendProperties
<1>11. GraphOK(anc')
  <2>1. ASSUME NEW c \in 1..(n + 1) PROVE c \in anc'[c] /\ anc'[c] \subseteq 1..c
    <3>1. c = n + 1 \/ c \in 1..n
      BY <1>4
    <3> QED
      BY <3>1, <1>5, <1>9, <1>10
  <2> QED
    BY <2>1, <1>10 DEF GraphOK
<1>12. TipsOK(tip', h, anc')
  <2>1. \A k \in Branches : tip[k] \in 0..(n + 1) /\ n + 1 \in 0..(n + 1) /\ n + 1 # 0
    BY <1>4, <1>6
  <2>2. n + 1 \in Nat
    BY <1>4
  <2>3. Target \in Branches
    BY DEF MergeAssumptions
  <2> QED
    BY <2>1, <2>2, <2>3, <1>4, <1>6, <1>10 DEF TipsOK
<1>13. CommitMade(anc, anc', tip, tip', b, second)
  <2>1. tip'[b] = n + 1 /\ \A k \in Branches : k # b => tip'[k] = tip[k]
    BY <1>4, <1>6
  <2>2. \A x : x \in S <=> x = n + 1 \/ x \in anc[tip[b]] \/ (second # 0 /\ x \in anc[second])
    BY <1>3
  <2> QED
    BY <2>1, <2>2, <1>1, <1>2, <1>10 DEF CommitMade
<1> QED
  BY <1>11, <1>12, <1>13

\* Branches keep what they had.
Grew(A, B, tp, up, b, h) ==
  /\ \A k \in Branches : tp[k] # 0 => up[k] # 0 /\ A[tp[k]] \subseteq B[up[k]]
  /\ \A k \in Branches : tp[k] # 0 /\ k # b => B[up[k]] = A[tp[k]]
  /\ \A x : HeldElsewhere(x, tp, h, A) => HeldElsewhere(x, up, h, B)

LEMMA TipsGrow ==
  ASSUME NEW A, NEW B, NEW tp, NEW up, NEW b \in Branches, NEW second, NEW h,
         CommitMade(A, B, tp, up, b, second), TipsOK(tp, h, A), tp[b] # 0
  PROVE  Grew(A, B, tp, up, b, h)
<1>1. \A k \in Branches : tp[k] # 0 /\ k # b => B[up[k]] = A[tp[k]] /\ up[k] # 0
  BY DEF CommitMade, TipsOK
<1>2. A[tp[b]] \subseteq B[up[b]] /\ up[b] # 0
  BY DEF CommitMade
<1>3. \A k \in Branches : tp[k] # 0 => up[k] # 0 /\ A[tp[k]] \subseteq B[up[k]]
  BY <1>1, <1>2
<1>4. \A x : HeldElsewhere(x, tp, h, A) => HeldElsewhere(x, up, h, B)
  BY <1>3 DEF HeldElsewhere
<1> QED
  BY <1>1, <1>3, <1>4 DEF Grew

\* A commit on the branch checked out, of the merge that is pending there if one is.
LEMMA HeadCommit ==
  ASSUME NEW A, NEW B, NEW tp, NEW up, NEW h \in Branches, NEW m, NEW ex, NEW ey,
         CommitMade(A, B, tp, up, h, m.head), GraphOK(A), TipsOK(tp, h, A),
         PendingOK(m, tp, h, A), NoneLost(tp, h, A, ex), ex \subseteq ey, NEW to
  PROVE  /\ NoneLost(up, h, B, ey)
         /\ ResetSafe(to, tp, h, A, ex) /\ to \in 1..Len(A) /\ Len(A) + 1 \in ey
              => ResetSafe(to, up, h, B, ey)
<1>0. tp[h] # 0
  BY DEF TipsOK
<1>1. /\ A[tp[h]] \subseteq B[up[h]]
      /\ \A x : HeldElsewhere(x, tp, h, A) => HeldElsewhere(x, up, h, B)
  <2>1. Grew(A, B, tp, up, h, h)
    BY <1>0, TipsGrow, Zenon
  <2> QED
    BY <2>1, <1>0 DEF Grew
<1>2. PICK n : n = Len(A) /\ n \in Nat
  BY DEF CommitMade
<1>3. NoneLost(up, h, B, ey)
  <2>1. ASSUME NEW x \in 1..(n + 1)
        PROVE  x \in ey \/ x \in B[up[h]] \/ HeldElsewhere(x, up, h, B)
    <3>1. x = n + 1 \/ x \in 1..n
      BY <1>2
    <3>2. n + 1 \in B[up[h]]
      BY <1>2 DEF CommitMade
    <3>3. x \in 1..n => x \in ex \/ x \in A[tp[h]] \/ HeldElsewhere(x, tp, h, A)
      BY <1>2 DEF NoneLost
    <3> QED
      BY <3>1, <3>2, <3>3, <1>1
  <2> QED
    BY <2>1, <1>2 DEF NoneLost, CommitMade
<1>4. ASSUME ResetSafe(to, tp, h, A, ex), to \in 1..n, n + 1 \in ey
      PROVE  ResetSafe(to, up, h, B, ey)
  <2>1. B[to] = A[to] /\ up[h] = n + 1
    BY <1>2, <1>4 DEF CommitMade
  <2>2. ASSUME NEW x \in B[n + 1]
        PROVE  x \in ey \/ x \in A[to] \/ HeldElsewhere(x, up, h, B)
    <3>1. x = n + 1 \/ x \in A[tp[h]] \/ (m.head # 0 /\ x \in A[m.head])
      BY <1>2 DEF CommitMade
    <3>2. x \in A[tp[h]] => x \in ex \/ x \in A[to] \/ HeldElsewhere(x, tp, h, A)
      BY <1>4 DEF ResetSafe
    <3>3. m.head # 0 /\ x \in A[m.head] => HeldElsewhere(x, tp, h, A)
      BY DEF PendingOK
    <3> QED
      BY <3>1, <3>2, <3>3, <1>1, <1>4
  <2> QED
    BY <2>1, <2>2 DEF ResetSafe
<1> QED
  BY <1>2, <1>3, <1>4

\* A commit on another branch.
LEMMA BranchCommit ==
  ASSUME NEW A, NEW B, NEW tp, NEW up, NEW h \in Branches, NEW b \in Branches, b # h,
         tp[b] # 0, NEW m, NEW ex, CommitMade(A, B, tp, up, b, 0), TipsOK(tp, h, A),
         PendingOK(m, tp, h, A), NoneLost(tp, h, A, ex), NEW to
  PROVE  /\ NoneLost(up, h, B, ex) /\ PendingOK(m, up, h, B)
         /\ ResetSafe(to, tp, h, A, ex) /\ to \in 1..Len(A) => ResetSafe(to, up, h, B, ex)
<1>0. tp[h] # 0
  BY DEF TipsOK
<1>1. /\ B[up[h]] = A[tp[h]]
      /\ \A x : HeldElsewhere(x, tp, h, A) => HeldElsewhere(x, up, h, B)
  <2>1. Grew(A, B, tp, up, b, h)
    BY TipsGrow, Zenon
  <2> QED
    BY <2>1, <1>0 DEF Grew
<1>2. PICK n : n = Len(A) /\ n \in Nat
  BY DEF CommitMade
<1>3. NoneLost(up, h, B, ex)
  <2>1. ASSUME NEW x \in 1..(n + 1)
        PROVE  x \in ex \/ x \in B[up[h]] \/ HeldElsewhere(x, up, h, B)
    <3>1. x = n + 1 \/ x \in 1..n
      BY <1>2
    <3>2. n + 1 \in B[up[b]] /\ up[b] # 0
      BY <1>2 DEF CommitMade
    <3>3. HeldElsewhere(n + 1, up, h, B)
      BY <3>2 DEF HeldElsewhere
    <3>4. x \in 1..n => x \in ex \/ x \in A[tp[h]] \/ HeldElsewhere(x, tp, h, A)
      BY <1>2 DEF NoneLost
    <3> QED
      BY <3>1, <3>3, <3>4, <1>1
  <2> QED
    BY <2>1, <1>2 DEF NoneLost, CommitMade
<1>4. PendingOK(m, up, h, B)
  <2>1. m.head \in 0..n
    BY <1>2 DEF PendingOK
  <2>2. m.head \in 0..(n + 1) /\ (m.head # 0 => m.head \in 1..n)
    BY <2>1, <1>2
  <2>3. m.head # 0 => B[m.head] = A[m.head]
    BY <2>2, <1>2 DEF CommitMade
  <2>4. Len(B) = n + 1
    BY <1>2 DEF CommitMade
  <2> QED
    BY <2>2, <2>3, <2>4, <1>1 DEF PendingOK
<1>5. ASSUME ResetSafe(to, tp, h, A, ex), to \in 1..n PROVE ResetSafe(to, up, h, B, ex)
  <2>1. B[to] = A[to]
    BY <1>2, <1>5 DEF CommitMade
  <2> QED
    BY <2>1, <1>1, <1>5 DEF ResetSafe
<1> QED
  BY <1>2, <1>3, <1>4, <1>5

LEMMA TxOlder ==
  ASSUME NEW t, NEW n \in Nat, TxOK(t, n)
  PROVE  TxOK(t, n + 1)
<1>1. t.base \in 1..(n + 1) /\ t.commit \in 0..(n + 1)
  BY DEF TxOK
<1> QED
  BY <1>1 DEF TxOK

\* A record whose merge was concluded by commit k.
Concludes(t, u, n) ==
  /\ TxOK(t, n) /\ t.phase # "RolledBack" /\ t.conflicts = {}
  /\ u = [t EXCEPT !.phase = "Validating", !.commit = n + 1]

ConcludedOK(t, u, n) ==
  TxOK(u, n + 1) /\ u.phase = "Validating" /\ u.commit = n + 1 /\ u.base = t.base

LEMMA TxConcluded ==
  ASSUME NEW t, NEW u, NEW n \in Nat, Concludes(t, u, n)
  PROVE  ConcludedOK(t, u, n)
<1>1. /\ IsTx(u) /\ u.phase = "Validating" /\ u.commit = n + 1 /\ u.base = t.base
      /\ u.conflicts = t.conflicts /\ u.resolved = t.resolved
      /\ u.asked = t.asked
  BY DEF TxOK, IsTx, Concludes
<1>2. t.base \in 1..n /\ t.asked \subseteq t.conflicts \cup t.resolved
  BY DEF TxOK, Concludes
<1>3. t.base \in 1..(n + 1) /\ t.base < n + 1 /\ n + 1 \in 0..(n + 1)
  BY <1>2
<1> QED
  BY <1>1, <1>2, <1>3 DEF TxOK, Merge!Phases, Concludes, ConcludedOK

\* What a commit in the main worktree leaves: ConcludeClean, ConcludeResolved, CommitRootWork.
LEMMA HeadCommitStep ==
  ASSUME MergeAssumptions, MergeInv, NEW files, Merge!Commit(head, files, merging.head),
         merging' = Merge!NoMerge, Merge!Exposed, UNCHANGED <<head, mtx, disturbed>>,
         ~Unwinding, ~Unwinding'
  PROVE  /\ GraphOK(anc') /\ TipsOK(tip', head', anc') /\ RecordOK' /\ QuietOK'
         /\ PendingOK(merging', tip', head', anc') /\ NoneLost(tip', head', anc', exposed')
         /\ Merge!Live' => ResetSafe(mtx'.base, tip', head', anc', exposed')
         /\ Len(anc') = Len(anc) + 1 /\ Len(anc) \in Nat /\ Len(anc') \in anc'[tip'[head]]
<1>1. head \in Branches /\ tip[head] # 0 /\ merging.head \in 0..Len(anc)
  BY DEF MergeInv, TipsOK, PendingOK
<1>2. /\ CommitMade(anc, anc', tip, tip', head, merging.head)
      /\ GraphOK(anc') /\ TipsOK(tip', head, anc')
  BY <1>1, CommitMakes
<1>3. PICK n : n = Len(anc) /\ n \in Nat /\ Len(anc') = n + 1 /\ tip'[head] = n + 1
  BY <1>2 DEF CommitMade
<1>4. n + 1 \in anc'[n + 1] /\ n + 1 # 0
  BY <1>2, <1>3 DEF CommitMade
<1>5. Grew(anc, anc', tip, tip', head, head)
  BY <1>1, <1>2, TipsGrow DEF MergeInv
<1>6. RecordOK'
  <2> SUFFICES ASSUME mtx # NoTx
               PROVE  /\ TxOK(mtx, n + 1)
                      /\ ~disturbed => head = Target
                      /\ ~disturbed /\ mtx.phase = "RolledBack"
                           => mtx.commit \notin anc'[tip'[Target]]
                      /\ ~disturbed /\ mtx.phase \in {"Validating", "Committed"}
                           => mtx.commit \in anc'[tip'[Target]]
    BY <1>3, Zenon DEF RecordOK
  <2>1. TxOK(mtx, n + 1)
    BY <1>3, TxOlder DEF MergeInv, RecordOK
  <2>2. ~disturbed => head = Target
    BY Zenon DEF MergeInv, RecordOK
  <2>3. ASSUME ~disturbed, mtx.phase = "RolledBack" PROVE mtx.commit \notin anc'[tip'[Target]]
    <3>1. mtx.commit \notin anc[tip[Target]] /\ head = Target
      BY <2>3, <2>2, Zenon DEF MergeInv, RecordOK
    <3>2. merging.head = 0
      BY <2>3 DEF MergeInv, QuietOK, Merge!Live, Merge!Terminal, Merge!NoMerge
    <3>3. mtx.commit \in 0..n
      BY <1>3 DEF MergeInv, RecordOK, TxOK
    <3>4. mtx.commit # n + 1
      BY <3>3, <1>3
    <3> QED
      BY <3>1, <3>2, <3>4, <1>2, <1>3 DEF CommitMade
  <2>4. ASSUME ~disturbed, mtx.phase \in {"Validating", "Committed"}
        PROVE  mtx.commit \in anc'[tip'[Target]]
    <3>1. mtx.commit \in anc[tip[Target]]
      BY <2>4, Zenon DEF MergeInv, RecordOK
    <3>2. Target \in Branches /\ tip[Target] # 0
      BY DEF MergeAssumptions, MergeInv, TipsOK
    <3> QED
      BY <3>1, <3>2, <1>5 DEF Grew
  <2> QED
    BY <2>1, <2>2, <2>3, <2>4, Zenon
<1>7. QuietOK'
  BY DEF QuietOK
<1>8. PendingOK(merging', tip', head', anc')
  BY <1>3 DEF PendingOK, Merge!NoMerge
<1>9. exposed \subseteq exposed' /\ (Merge!Live => n + 1 \in exposed')
  BY <1>3 DEF Merge!Exposed
<1>10. NoneLost(tip', head, anc', exposed')
  BY <1>1, <1>2, <1>9, HeadCommit DEF MergeInv
<1>11. ASSUME Merge!Live PROVE ResetSafe(mtx.base, tip', head, anc', exposed')
  <2>1. mtx.base \in 1..Len(anc)
    BY <1>11 DEF MergeInv, RecordOK, TxOK, Merge!Live
  <2> QED
    BY <2>1, <1>1, <1>2, <1>3, <1>9, <1>11, HeadCommit DEF MergeInv
<1>12. Merge!Live' <=> Merge!Live
  BY DEF Merge!Live
<1> QED
  BY <1>2, <1>3, <1>4, <1>6, <1>7, <1>8, <1>10, <1>11, <1>12

LEMMA CommitRootStep ==
  ASSUME MergeAssumptions, MergeInv, Merge!CommitRootWork
  PROVE  MergeInv'
<1>1. /\ pc = Merge!Idle /\ pc' = pc /\ merging' = Merge!NoMerge /\ Merge!Exposed
      /\ Merge!Commit(head, local.dirty \cup local.staged, merging.head)
      /\ UNCHANGED <<head, mtx, disturbed>>
  BY DEF Merge!CommitRootWork
<1>2. ~Unwinding /\ ~Unwinding'
  BY <1>1 DEF Unwinding
<1>3. ProcessOK'
  BY <1>1 DEF ProcessOK
<1>4. disturbed' \in BOOLEAN
  BY <1>1 DEF MergeInv
<1> QED
  BY <1>1, <1>2, <1>3, <1>4, HeadCommitStep DEF MergeInv

LEMMA ConcludeStep ==
  ASSUME MergeAssumptions, MergeInv, Merge!ConcludeClean \/ Merge!ConcludeResolved
  PROVE  MergeInv'
<1>1. /\ merging' = Merge!NoMerge /\ Merge!Exposed
      /\ Merge!Commit(head, local.staged, merging.head) /\ UNCHANGED <<head, mtx, disturbed>>
  BY DEF Merge!ConcludeClean, Merge!ConcludeResolved, Merge!ConcludeMerge
<1>2. PICK at, u :
        /\ at \in {"outcome", "save"} /\ pc' = [at |-> at, tx |-> u]
        /\ u = [pc.tx EXCEPT !.phase = "Validating", !.commit = Len(anc')]
  BY DEF Merge!ConcludeClean, Merge!ConcludeResolved
<1>3. \/ pc.at = "outcome" /\ pc.tx.phase = "Open"
      \/ pc.at = "conclude"
  BY DEF Merge!ConcludeClean, Merge!ConcludeResolved
<1>4. pc # Merge!Idle
  BY <1>3 DEF Merge!Idle
<1>5. /\ Merge!Live /\ TxOK(pc.tx, Len(anc)) /\ pc.tx.base = mtx.base
      /\ pc.tx.phase \in {"Open", "Conflicted"} /\ pc.tx.conflicts = {}
  BY <1>3, <1>4 DEF MergeInv, ProcessOK, TxOK
<1>6. pc'.tx = u /\ pc'.at = at
  BY <1>2
<1>7. u.phase = "Validating"
  BY <1>2, <1>5 DEF TxOK, IsTx
<1>8. ~Unwinding /\ ~Unwinding'
  BY <1>5, <1>6, <1>7 DEF Unwinding
<1>9. /\ GraphOK(anc') /\ TipsOK(tip', head', anc') /\ RecordOK' /\ QuietOK'
      /\ PendingOK(merging', tip', head', anc') /\ NoneLost(tip', head', anc', exposed')
      /\ Merge!Live' => ResetSafe(mtx'.base, tip', head', anc', exposed')
      /\ Len(anc') = Len(anc) + 1 /\ Len(anc) \in Nat /\ Len(anc') \in anc'[tip'[head]]
  BY <1>1, <1>8, HeadCommitStep
<1>10. TxOK(u, Len(anc')) /\ u.commit = Len(anc') /\ u.base = pc.tx.base
  <2>1. PICK n, t : n = Len(anc) /\ t = pc.tx
    OBVIOUS
  <2>2. n \in Nat /\ Len(anc') = n + 1
    BY <2>1, <1>9
  <2>3. Concludes(t, u, n)
    BY <2>1, <2>2, <1>2, <1>5 DEF Concludes
  <2>4. ConcludedOK(t, u, n)
    BY <2>2, <2>3, TxConcluded
  <2> QED
    BY <2>1, <2>2, <2>4 DEF ConcludedOK
<1>11. Merge!Live'
  BY <1>1, <1>5 DEF Merge!Live
<1>12. ASSUME ~disturbed PROVE u.commit \in anc'[tip'[Target]]
  <2>1. head = Target
    BY <1>5, <1>12, Zenon DEF MergeInv, RecordOK, Merge!Live
  <2> QED
    BY <2>1, <1>9, <1>10
<1>13. ProcessOK'
  <2>1. pc' = [at |-> pc'.at, tx |-> pc'.tx] /\ pc'.at \in {"outcome", "save"}
    BY <1>2
  <2> QED
    BY <2>1, <1>1, <1>5, <1>6, <1>7, <1>10, <1>11, <1>12 DEF ProcessOK
<1>14. disturbed' \in BOOLEAN
  BY <1>1 DEF MergeInv
<1> QED
  BY <1>9, <1>13, <1>14 DEF MergeInv

LEMMA SessionWorkStep ==
  ASSUME MergeAssumptions, MergeInv, NEW b \in Branches, NEW files,
         Merge!CommitSessionWork(b, files)
  PROVE  MergeInv'
<1>1. /\ b # head /\ b # Target /\ tip[b] # 0 /\ Merge!Commit(b, files, 0)
      /\ UNCHANGED <<head, merging, mtx, pc, disturbed, exposed>>
  BY DEF Merge!CommitSessionWork
<1>2. head \in Branches /\ tip[head] # 0 /\ 0 \in 0..Len(anc)
  BY DEF MergeInv, TipsOK, GraphOK
<1>3. /\ CommitMade(anc, anc', tip, tip', b, 0)
      /\ GraphOK(anc') /\ TipsOK(tip', head, anc')
  BY <1>1, <1>2, CommitMakes
<1>4. Grew(anc, anc', tip, tip', b, head)
  BY <1>1, <1>3, TipsGrow DEF MergeInv
<1>5. /\ NoneLost(tip', head, anc', exposed) /\ PendingOK(merging, tip', head, anc')
      /\ ResetSafe(mtx.base, tip, head, anc, exposed) /\ mtx.base \in 1..Len(anc)
           => ResetSafe(mtx.base, tip', head, anc', exposed)
  BY <1>1, <1>2, <1>3, BranchCommit DEF MergeInv
<1>6. Merge!Live => ResetSafe(mtx.base, tip', head, anc', exposed)
  BY <1>5 DEF MergeInv, RecordOK, TxOK, Merge!Live
<1>7. anc'[tip'[Target]] = anc[tip[Target]]
  BY <1>1, <1>4 DEF Grew, MergeInv, TipsOK, MergeAssumptions
<1>8. PICK n : n = Len(anc) /\ n \in Nat /\ Len(anc') = n + 1
  BY <1>3 DEF CommitMade
<1>9. RecordOK'
  <2>1. mtx # NoTx => TxOK(mtx, n + 1)
    BY <1>8, TxOlder DEF MergeInv, RecordOK
  <2> QED
    BY <2>1, <1>1, <1>7, <1>8 DEF MergeInv, RecordOK, Unwinding
<1>10. ProcessOK'
  <2>1. pc # Merge!Idle => TxOK(pc.tx, n + 1)
    BY <1>8, TxOlder DEF MergeInv, ProcessOK
  <2>2. \A k \in Branches : tip[k] # 0 => tip'[k] # 0
    BY <1>4 DEF Grew
  <2>3. Merge!Live' <=> Merge!Live
    BY <1>1 DEF Merge!Live
  <2> QED
    BY <2>1, <2>2, <2>3, <1>1, <1>7, <1>8 DEF MergeInv, ProcessOK
<1>11. QuietOK'
  BY <1>1 DEF MergeInv, QuietOK, Merge!Live
<1>12. Merge!Live' <=> Merge!Live
  BY <1>1 DEF Merge!Live
<1> QED
  BY <1>1, <1>3, <1>5, <1>6, <1>9, <1>10, <1>11, <1>12 DEF MergeInv

\* A new branch begins at the commit checked out.
BranchBegun(tp, up, hd, b) ==
  /\ tp[b] = 0 /\ up[b] = tp[hd] /\ up \in [Branches -> Nat]
  /\ \A k \in Branches : k # b => up[k] = tp[k]

LEMMA BranchBegins ==
  ASSUME NEW tp, NEW up, NEW h, NEW b \in Branches, NEW A, TipsOK(tp, h, A),
         BranchBegun(tp, up, h, b), Target \in Branches
  PROVE  /\ b # h /\ b # Target /\ TipsOK(up, h, A) /\ TipsOK(up, b, A)
         /\ \A x : HeldElsewhere(x, tp, h, A) =>
              HeldElsewhere(x, up, h, A) /\ HeldElsewhere(x, up, b, A)
         /\ \A x \in A[tp[h]] : HeldElsewhere(x, up, b, A)
<1>1. b # h /\ b # Target /\ h \in Branches
  BY DEF TipsOK, BranchBegun
<1>2. \A k \in Branches : tp[k] # 0 => k # b /\ up[k] = tp[k]
  BY DEF BranchBegun
<1>3. TipsOK(up, h, A) /\ TipsOK(up, b, A)
  BY <1>1 DEF TipsOK, BranchBegun
<1>4. ASSUME NEW x, HeldElsewhere(x, tp, h, A)
      PROVE  HeldElsewhere(x, up, h, A) /\ HeldElsewhere(x, up, b, A)
  BY <1>2, <1>4 DEF HeldElsewhere
<1>5. ASSUME NEW x \in A[tp[h]] PROVE HeldElsewhere(x, up, b, A)
  BY <1>1, <1>2 DEF HeldElsewhere, TipsOK
<1> QED
  BY <1>1, <1>3, <1>4, <1>5

LEMMA NewBranchStep ==
  ASSUME MergeAssumptions, MergeInv, NEW b \in Branches,
         Merge!CloneSession(b) \/ Merge!OpenRootSession(b)
  PROVE  MergeInv'
<1>1. /\ pc = Merge!Idle /\ tip[b] = 0 /\ tip' = [tip EXCEPT ![b] = tip[head]]
      /\ UNCHANGED <<anc, merging, mtx, pc, exposed>>
  BY DEF Merge!CloneSession, Merge!OpenRootSession, Merge!Here
<1>2. BranchBegun(tip, tip', head, b)
  BY <1>1 DEF BranchBegun, MergeInv, TipsOK
<1>3. Target \in Branches /\ TipsOK(tip, head, anc)
  BY DEF MergeAssumptions, MergeInv
<1>4. /\ b # head /\ b # Target /\ TipsOK(tip', head, anc) /\ TipsOK(tip', b, anc)
      /\ \A x : HeldElsewhere(x, tip, head, anc) =>
           HeldElsewhere(x, tip', head, anc) /\ HeldElsewhere(x, tip', b, anc)
      /\ \A x \in anc[tip[head]] : HeldElsewhere(x, tip', b, anc)
  BY <1>2, <1>3, BranchBegins
<1>5. tip'[b] = tip[head] /\ \A k \in Branches : k # b => tip'[k] = tip[k]
  BY <1>2 DEF BranchBegun
<1>6. tip'[Target] = tip[Target] /\ tip'[head] = tip[head]
  BY <1>3, <1>4, <1>5 DEF TipsOK
<1>7. ProcessOK' /\ QuietOK' /\ ~Unwinding /\ ~Unwinding' /\ (Merge!Live' <=> Merge!Live)
  BY <1>1 DEF ProcessOK, MergeInv, QuietOK, Unwinding, Merge!Live
<1>8. CASE Merge!CloneSession(b)
  <2>1. head' = head /\ disturbed' = disturbed
    BY <1>8 DEF Merge!CloneSession
  <2>2. RecordOK'
    BY <2>1, <1>1, <1>6, <1>7 DEF MergeInv, RecordOK
  <2>3. NoneLost(tip', head, anc, exposed) /\ PendingOK(merging, tip', head, anc)
    BY <1>4, <1>6 DEF MergeInv, NoneLost, PendingOK
  <2>4. Merge!Live => ResetSafe(mtx.base, tip', head, anc, exposed)
    BY <1>4, <1>6 DEF MergeInv, ResetSafe
  <2> QED
    BY <2>1, <2>2, <2>3, <2>4, <1>1, <1>4, <1>7 DEF MergeInv
<1>9. CASE Merge!OpenRootSession(b)
  <2>1. head' = b /\ merging = Merge!NoMerge /\ disturbed' = (disturbed \/ mtx # NoTx)
    BY <1>9 DEF Merge!OpenRootSession
  <2>2. disturbed' \in BOOLEAN /\ (mtx # NoTx => disturbed')
    BY <2>1, Zenon
  <2>3. RecordOK'
    BY <2>2, <1>1, Zenon DEF MergeInv, RecordOK
  <2>4. NoneLost(tip', b, anc, exposed)
    BY <1>4 DEF MergeInv, NoneLost
  <2>5. PendingOK(merging, tip', b, anc)
    BY <2>1 DEF MergeInv, PendingOK, Merge!NoMerge
  <2>6. Merge!Live => ResetSafe(mtx.base, tip', b, anc, exposed)
    BY <1>4, <1>5 DEF MergeInv, ResetSafe
  <2> QED
    BY <2>1, <2>2, <2>3, <2>4, <2>5, <2>6, <1>1, <1>4, <1>7 DEF MergeInv
<1> QED
  BY <1>8, <1>9

\* A new record, with the tip of the target as its rollback point.
LEMMA TxBegins ==
  ASSUME NEW s, NEW n \in Nat, NEW r \in 1..n, NEW t, t = Merge!TxAt(s, r)
  PROVE  TxOK(t, n) /\ t.phase = "Open" /\ t.base = r /\ t.source = s
<1>1. PICK no : t = [source |-> s, base |-> r, phase |-> "Open", conflicts |-> {},
                     resolved |-> {}, failed |-> no, commit |-> 0, asked |-> {}]
  BY Zenon DEF Merge!TxAt
<1>2. /\ IsTx(t) /\ t.phase = "Open" /\ t.base = r /\ t.source = s /\ t.conflicts = {}
      /\ t.resolved = {} /\ t.asked = {} /\ t.commit = 0
  BY <1>1 DEF IsTx
<1>3. 0 \in 0..n
  OBVIOUS
<1> QED
  BY <1>2, <1>3 DEF TxOK, Merge!Phases

LEMMA OpenMergeStep ==
  ASSUME MergeAssumptions, MergeInv, NEW s \in Branches, Merge!OpenAndMerge(s)
  PROVE  MergeInv'
<1>1. /\ pc = Merge!Idle /\ ~Merge!Live /\ s # Target /\ tip[s] # 0 /\ head' = Target
      /\ mtx' = Merge!TxAt(s, tip[Target]) /\ pc' = [at |-> "merge", tx |-> mtx']
      /\ UNCHANGED <<tip, anc, merging, exposed>>
  BY DEF Merge!OpenAndMerge, Merge!NewTx
<1>2. ~disturbed' /\ disturbed' \in BOOLEAN
  BY Zenon DEF Merge!OpenAndMerge
<1>3. Target \in Branches /\ TipsOK(tip, head, anc) /\ GraphOK(anc)
  BY DEF MergeAssumptions, MergeInv
<1>4. PICK n : n = Len(anc) /\ n \in Nat /\ tip[Target] \in 1..n
  BY <1>3 DEF TipsOK, GraphOK
<1>5. TxOK(mtx', n) /\ mtx'.phase = "Open" /\ mtx'.base = tip[Target] /\ mtx'.source = s
  BY <1>1, <1>4, TxBegins
<1>6. mtx' # NoTx
  BY <1>5 DEF TxOK, MergeAssumptions
<1>7. Merge!Live'
  BY <1>5, <1>6 DEF Merge!Live, Merge!Phases, Merge!Terminal
<1>8. merging = Merge!NoMerge
  BY <1>1 DEF MergeInv, QuietOK
<1>9. pc'.at = "merge" /\ pc'.tx = mtx' /\ pc' = [at |-> pc'.at, tx |-> pc'.tx]
  BY <1>1
<1>10. TipsOK(tip, Target, anc)
  BY <1>3 DEF TipsOK
<1>11. RecordOK'
  BY <1>1, <1>4, <1>5, Zenon DEF RecordOK
<1>12. ProcessOK'
  BY <1>1, <1>4, <1>5, <1>7, <1>8, <1>9 DEF ProcessOK
<1>13. QuietOK'
  BY <1>1, <1>8 DEF QuietOK
<1>14. PendingOK(merging, tip, Target, anc)
  BY <1>4, <1>8 DEF PendingOK, Merge!NoMerge
<1>15. NoneLost(tip, Target, anc, exposed)
  <2>1. ASSUME NEW x PROVE HeldElsewhere(x, tip, head, anc) =>
                             x \in anc[tip[Target]] \/ HeldElsewhere(x, tip, Target, anc)
    BY DEF HeldElsewhere
  <2>2. ASSUME NEW x \in anc[tip[head]]
        PROVE  x \in anc[tip[Target]] \/ HeldElsewhere(x, tip, Target, anc)
    BY <1>3 DEF HeldElsewhere, TipsOK
  <2> QED
    BY <2>1, <2>2 DEF MergeInv, NoneLost
<1>16. ResetSafe(mtx'.base, tip, Target, anc, exposed)
  BY <1>5 DEF ResetSafe
<1> QED
  BY <1>1, <1>2, <1>3, <1>10, <1>11, <1>12, <1>13, <1>14, <1>15, <1>16 DEF MergeInv

\* The record after git has merged, with the conflicts it reported.
Merges(t, u, c, p) ==
  /\ p \in {"Open", "Conflicted"} /\ (p = "Open" => c = {})
  /\ u = [t EXCEPT !.phase = p, !.conflicts = c, !.asked = c]

LEMMA TxMerged ==
  ASSUME NEW t, NEW u, NEW n, NEW c, NEW p, TxOK(t, n), t.phase = "Open", Merges(t, u, c, p)
  PROVE  TxOK(u, n) /\ u.phase = p /\ u.base = t.base
<1>1. /\ IsTx(u) /\ u.phase = p /\ u.base = t.base /\ u.conflicts = c
      /\ u.asked = c /\ u.commit = t.commit /\ u.resolved = t.resolved
  BY DEF TxOK, IsTx, Merges
<1> QED
  BY <1>1 DEF TxOK, Merge!Phases, Merges

LEMMA StartMergeStep ==
  ASSUME MergeAssumptions, MergeInv, Merge!StartMerge
  PROVE  MergeInv'
<1>1. pc.at = "merge" /\ UNCHANGED <<tip, head, anc, mtx, disturbed, exposed>>
  BY DEF Merge!StartMerge
<1>2. PICK src, c, p, u :
        /\ src = tip[pc.tx.source] /\ Merges(pc.tx, u, c, p)
        /\ pc' = [at |-> "outcome", tx |-> u]
        /\ (merging' = merging \/ merging' = [head |-> src, unmerged |-> c])
  BY Zenon DEF Merge!StartMerge, Merges
<1>3. pc # Merge!Idle
  BY <1>1 DEF Merge!Idle
<1>4. /\ Merge!Live /\ TxOK(pc.tx, Len(anc)) /\ pc.tx.base = mtx.base /\ pc.tx.phase = "Open"
      /\ mtx.phase = "Open" /\ pc.tx.source \in Branches /\ pc.tx.source # head
      /\ tip[pc.tx.source] # 0
  BY <1>1, <1>3 DEF MergeInv, ProcessOK
<1>5. TxOK(u, Len(anc)) /\ u.phase = p /\ u.base = mtx.base
  <2>1. TxOK(u, Len(anc)) /\ u.phase = p /\ u.base = pc.tx.base
    BY <1>2, <1>4, TxMerged, Zenon
  <2> QED
    BY <2>1, <1>4
<1>6. pc'.at = "outcome" /\ pc'.tx = u /\ pc' = [at |-> pc'.at, tx |-> pc'.tx]
  BY <1>2
<1>7. Merge!Live'
  BY <1>1, <1>4 DEF Merge!Live
<1>8. ProcessOK'
  <2>1. p \in {"Open", "Conflicted"}
    BY <1>2 DEF Merges
  <2> QED
    BY <2>1, <1>1, <1>5, <1>6, <1>7 DEF ProcessOK
<1>9. RecordOK'
  BY <1>1, <1>4 DEF MergeInv, RecordOK
<1>10. QuietOK'
  BY <1>1, <1>4, <1>7 DEF QuietOK
<1>11. PendingOK(merging', tip, head, anc)
  <2>1. CASE merging' = merging
    BY <2>1 DEF MergeInv
  <2>2. CASE merging' = [head |-> src, unmerged |-> c]
    <3>1. src \in 0..Len(anc)
      BY <1>2, <1>4 DEF MergeInv, TipsOK
    <3>2. \A x \in anc[src] : HeldElsewhere(x, tip, head, anc)
      BY <1>2, <1>4 DEF HeldElsewhere
    <3> QED
      BY <2>2, <3>1, <3>2 DEF PendingOK
  <2> QED
    BY <1>2, <2>1, <2>2
<1> QED
  BY <1>1, <1>4, <1>8, <1>9, <1>10, <1>11 DEF MergeInv

LEMMA SaveStep ==
  ASSUME MergeAssumptions, MergeInv, Merge!SaveTx
  PROVE  MergeInv'
<1>1. /\ pc.at = "save" \/ (pc.at = "outcome" /\ pc.tx.phase # "Open")
      /\ mtx' = pc.tx /\ pc' = Merge!Idle
      /\ UNCHANGED <<tip, head, anc, merging, disturbed, exposed>>
  BY DEF Merge!SaveTx
<1>2. pc # Merge!Idle
  BY <1>1 DEF Merge!Idle
<1>3. /\ Merge!Live /\ TxOK(pc.tx, Len(anc)) /\ pc.tx.base = mtx.base
      /\ pc.tx.phase \in {"Conflicted", "Validating", "RolledBack"}
      /\ pc.tx.phase \in {"Validating", "RolledBack"} => merging = Merge!NoMerge
  BY <1>1, <1>2 DEF MergeInv, ProcessOK
<1>4. /\ ~disturbed /\ pc.tx.phase = "RolledBack" => pc.tx.commit \notin anc[tip[Target]]
      /\ ~disturbed /\ pc.tx.phase = "Validating" => pc.tx.commit \in anc[tip[Target]]
      /\ ~disturbed => head = Target
  BY <1>2, <1>3, Zenon DEF MergeInv, ProcessOK, RecordOK, Merge!Live
<1>5. RecordOK'
  BY <1>1, <1>3, <1>4 DEF RecordOK
<1>6. ProcessOK'
  BY <1>1 DEF ProcessOK
<1>7. QuietOK'
  <2>1. mtx' # NoTx
    BY <1>1, <1>3 DEF TxOK, MergeAssumptions
  <2>2. pc.tx.phase = "Conflicted" => Merge!Live'
    BY <2>1, <1>1 DEF Merge!Live, Merge!Phases, Merge!Terminal
  <2> QED
    BY <2>2, <1>1, <1>3 DEF QuietOK
<1> QED
  BY <1>1, <1>3, <1>5, <1>6, <1>7 DEF MergeInv

\* One conflict more is resolved.
Resolves(t, u, f) == u = [t EXCEPT !.conflicts = t.conflicts \ {f}, !.resolved = t.resolved \cup {f}]

LEMMA TxResolved ==
  ASSUME NEW t, NEW u, NEW n, NEW f, TxOK(t, n), t.phase = "Conflicted", Resolves(t, u, f)
  PROVE  TxOK(u, n) /\ u.phase = "Conflicted" /\ u.base = t.base /\ u.conflicts = t.conflicts \ {f}
<1>1. /\ IsTx(u) /\ u.phase = t.phase /\ u.base = t.base /\ u.conflicts = t.conflicts \ {f}
      /\ u.asked = t.asked /\ u.commit = t.commit /\ u.resolved = t.resolved \cup {f}
  BY DEF TxOK, IsTx, Resolves
<1> QED
  BY <1>1 DEF TxOK

LEMMA ResolutionStep ==
  ASSUME MergeAssumptions, MergeInv, NEW f \in Files, Merge!RecordResolution(f)
  PROVE  MergeInv'
<1>1. /\ pc = Merge!Idle /\ mtx # NoTx /\ mtx.phase = "Conflicted"
      /\ merging' = [merging EXCEPT !.unmerged = merging.unmerged \ {f}]
      /\ UNCHANGED <<tip, head, anc, mtx, disturbed, exposed>>
  BY DEF Merge!RecordResolution
<1>2. PICK u, at : /\ Resolves(mtx, u, f) /\ pc' = [at |-> at, tx |-> u]
                   /\ at \in {"conclude", "save"} /\ (at = "conclude" => mtx.conflicts \ {f} = {})
  <2>1. PICK u : u = [mtx EXCEPT !.conflicts = mtx.conflicts \ {f},
                                  !.resolved = mtx.resolved \cup {f}]
    OBVIOUS
  <2>2. PICK at : at = IF mtx.conflicts \ {f} = {} THEN "conclude" ELSE "save"
    OBVIOUS
  <2>3. Resolves(mtx, u, f) /\ pc' = [at |-> at, tx |-> u]
    BY <2>1, <2>2 DEF Merge!RecordResolution, Resolves
  <2>4. at \in {"conclude", "save"} /\ (at = "conclude" => mtx.conflicts \ {f} = {})
    BY <2>2
  <2> QED
    BY <2>3, <2>4, Zenon
<1>3. TxOK(mtx, Len(anc))
  BY <1>1 DEF MergeInv, RecordOK
<1>4. /\ TxOK(u, Len(anc)) /\ u.phase = "Conflicted" /\ u.base = mtx.base
      /\ u.conflicts = mtx.conflicts \ {f}
  <2>1. PICK t, n : t = mtx /\ n = Len(anc)
    OBVIOUS
  <2>2. TxOK(t, n) /\ t.phase = "Conflicted" /\ Resolves(t, u, f)
    BY <2>1, <1>1, <1>2, <1>3
  <2>3. /\ TxOK(u, n) /\ u.phase = "Conflicted" /\ u.base = t.base
        /\ u.conflicts = t.conflicts \ {f}
    BY <2>2, TxResolved
  <2> QED
    BY <2>1, <2>3
<1>5. pc'.at = at /\ pc'.tx = u /\ pc' = [at |-> pc'.at, tx |-> pc'.tx]
  BY <1>2
<1>6. Merge!Live /\ Merge!Live'
  BY <1>1 DEF Merge!Live, Merge!Phases, Merge!Terminal
<1>7. ProcessOK'
  BY <1>1, <1>2, <1>4, <1>5, <1>6 DEF ProcessOK
<1>8. RecordOK'
  BY <1>1 DEF MergeInv, RecordOK
<1>9. QuietOK'
  BY <1>1, <1>6 DEF QuietOK
<1>10. PendingOK(merging', tip, head, anc)
  <2>1. merging' = [head |-> merging'.head, unmerged |-> merging'.unmerged]
        /\ merging'.head = merging.head
    BY <1>1 DEF MergeInv, PendingOK
  <2> QED
    BY <2>1 DEF MergeInv, PendingOK
<1> QED
  BY <1>1, <1>6, <1>7, <1>8, <1>9, <1>10 DEF MergeInv

\* A record that has a new phase, and the verdict it had or another.
LEMMA TxVerdict ==
  ASSUME NEW t, NEW u, NEW n, NEW v, TxOK(t, n), t.phase = "Validating",
         u = [t EXCEPT !.failed = v]
  PROVE  TxOK(u, n) /\ u.phase = "Validating" /\ u.base = t.base /\ u.commit = t.commit
<1>1. /\ IsTx(u) /\ u.phase = t.phase /\ u.base = t.base /\ u.conflicts = t.conflicts
      /\ u.asked = t.asked /\ u.commit = t.commit /\ u.resolved = t.resolved
  BY DEF TxOK, IsTx
<1> QED
  BY <1>1 DEF TxOK

Ends(t, u, p) == u = [t EXCEPT !.phase = p]

LEMMA TxEnds ==
  ASSUME NEW t, NEW u, NEW n, NEW p \in {"Committed", "RolledBack"}, TxOK(t, n), Ends(t, u, p),
         p = "Committed" => t.phase = "Validating" /\ ~t.failed
  PROVE  TxOK(u, n) /\ u.phase = p /\ u.base = t.base /\ u.commit = t.commit
<1>1. /\ IsTx(u) /\ u.phase = p /\ u.base = t.base /\ u.conflicts = t.conflicts
      /\ u.asked = t.asked /\ u.commit = t.commit /\ u.resolved = t.resolved
      /\ u.failed = t.failed
  BY DEF TxOK, IsTx, Ends
<1>2. p = "Committed" => ~u.failed
  BY <1>1, Zenon
<1>3. p \in Merge!Phases
  BY DEF Merge!Phases
<1> QED
  BY <1>1, <1>2, <1>3 DEF TxOK

LEMMA VerdictStep ==
  ASSUME MergeAssumptions, MergeInv,
         Merge!CommitTx \/ \E passed \in BOOLEAN : Merge!RecordValidation(passed)
  PROVE  MergeInv'
<1>1. /\ pc = Merge!Idle /\ mtx # NoTx /\ mtx.phase = "Validating"
      /\ UNCHANGED <<tip, head, anc, merging, pc, disturbed, exposed>>
  BY DEF Merge!CommitTx, Merge!RecordValidation
<1>2. Merge!Live /\ TxOK(mtx, Len(anc)) /\ merging = Merge!NoMerge
  BY <1>1 DEF MergeInv, RecordOK, QuietOK, Merge!Live, Merge!Phases, Merge!Terminal
<1>3. /\ TxOK(mtx', Len(anc)) /\ mtx'.phase \in {"Validating", "Committed"}
      /\ mtx'.base = mtx.base /\ mtx'.commit = mtx.commit
  <2>1. CASE Merge!CommitTx
    <3>1. Ends(mtx, mtx', "Committed") /\ ~mtx.failed
      BY <2>1, Zenon DEF Merge!CommitTx, Ends
    <3>2. PICK p \in {"Committed", "RolledBack"} : p = "Committed"
      OBVIOUS
    <3> QED
      BY <3>1, <3>2, <1>1, <1>2, TxEnds, Zenon
  <2>2. ASSUME NEW passed, Merge!RecordValidation(passed)
        PROVE  /\ TxOK(mtx', Len(anc)) /\ mtx'.phase \in {"Validating", "Committed"}
               /\ mtx'.base = mtx.base /\ mtx'.commit = mtx.commit
    <3>1. PICK v : mtx' = [mtx EXCEPT !.failed = v]
      BY <2>2, Zenon DEF Merge!RecordValidation
    <3>2. /\ TxOK(mtx', Len(anc)) /\ mtx'.phase = "Validating"
          /\ mtx'.base = mtx.base /\ mtx'.commit = mtx.commit
      BY <3>1, <1>1, <1>2, TxVerdict
    <3> QED
      BY <3>2
  <2> QED
    BY <2>1, <2>2
<1>4. ~Unwinding /\ ~Unwinding'
  BY <1>1 DEF Unwinding
<1>5. RecordOK'
  BY <1>1, <1>3, <1>4 DEF MergeInv, RecordOK
<1>6. ProcessOK' /\ QuietOK'
  BY <1>1, <1>2 DEF ProcessOK, QuietOK
<1> QED
  BY <1>1, <1>2, <1>3, <1>5, <1>6 DEF MergeInv

\* What the two rollbacks leave in the process: the record, rolled back, to be saved.
LEMMA UnwindingOK ==
  ASSUME MergeAssumptions, MergeInv, pc = Merge!Idle, mtx # NoTx, Merge!Live,
         NEW u, Ends(mtx, u, "RolledBack"), pc' = [at |-> "save", tx |-> u],
         merging' = Merge!NoMerge, UNCHANGED <<head, anc, mtx, disturbed>>,
         ~disturbed => mtx.commit \notin anc[tip'[Target]]
  PROVE  RecordOK' /\ ProcessOK' /\ QuietOK' /\ Merge!Live'
<1>1. TxOK(mtx, Len(anc))
  BY DEF MergeInv, RecordOK
<1>2. TxOK(u, Len(anc)) /\ u.phase = "RolledBack" /\ u.base = mtx.base /\ u.commit = mtx.commit
  <2>1. PICK t, n, p : t = mtx /\ n = Len(anc) /\ p = "RolledBack"
    OBVIOUS
  <2>2. TxOK(t, n) /\ Ends(t, u, p) /\ p \in {"Committed", "RolledBack"} /\ p # "Committed"
    BY <2>1, <1>1
  <2>3. TxOK(u, n) /\ u.phase = p /\ u.base = t.base /\ u.commit = t.commit
    BY <2>2, TxEnds, Zenon
  <2> QED
    BY <2>1, <2>3
<1>3. pc'.at = "save" /\ pc'.tx = u /\ pc' = [at |-> pc'.at, tx |-> pc'.tx]
  OBVIOUS
<1>4. Merge!Live' /\ mtx.phase # "RolledBack" /\ mtx.phase # "Committed"
  BY DEF Merge!Live, Merge!Terminal
<1>5. pc' # Merge!Idle
  <2>1. Merge!Idle.at = "idle"
    BY DEF Merge!Idle
  <2> QED
    BY <2>1, <1>3
<1>6. Unwinding'
  BY <1>2, <1>3, <1>5 DEF Unwinding
<1>7. RecordOK'
  BY <1>1, <1>4, <1>6 DEF MergeInv, RecordOK
<1>8. ProcessOK'
  BY <1>2, <1>3, <1>4 DEF ProcessOK
<1>9. QuietOK'
  BY DEF QuietOK
<1> QED
  BY <1>4, <1>7, <1>8, <1>9

LEMMA RollbackConflictedStep ==
  ASSUME MergeAssumptions, MergeInv, Merge!RollbackConflicted
  PROVE  MergeInv'
<1>1. /\ pc = Merge!Idle /\ mtx # NoTx /\ mtx.phase = "Conflicted" /\ merging' = Merge!NoMerge
      /\ UNCHANGED <<tip, head, anc, mtx, disturbed, exposed>>
  BY DEF Merge!RollbackConflicted
<1>2. PICK u : Ends(mtx, u, "RolledBack") /\ pc' = [at |-> "save", tx |-> u]
  BY DEF Merge!RollbackConflicted, Ends
<1>3. Merge!Live
  BY <1>1 DEF Merge!Live, Merge!Phases, Merge!Terminal
<1>4. mtx.commit \notin anc[tip[Target]]
  <2>1. mtx.commit = 0
    BY <1>1 DEF MergeInv, RecordOK, TxOK
  <2>2. tip[Target] \in 1..Len(anc)
    BY DEF MergeInv, TipsOK, MergeAssumptions, GraphOK
  <2>3. anc[tip[Target]] \subseteq 1..tip[Target]
    BY <2>2 DEF MergeInv, GraphOK
  <2> QED
    BY <2>1, <2>3
<1>5. RecordOK' /\ ProcessOK' /\ QuietOK' /\ Merge!Live'
  BY <1>1, <1>2, <1>3, <1>4, UnwindingOK
<1>6. PendingOK(merging', tip, head, anc)
  BY <1>1 DEF MergeInv, GraphOK, PendingOK, Merge!NoMerge
<1> QED
  BY <1>1, <1>3, <1>5, <1>6 DEF MergeInv

LEMMA RollbackValidatingStep ==
  ASSUME MergeAssumptions, MergeInv, Merge!RollbackValidating
  PROVE  MergeInv'
<1>1. /\ pc = Merge!Idle /\ mtx # NoTx /\ mtx.phase = "Validating" /\ merging' = Merge!NoMerge
      /\ tip' = [tip EXCEPT ![head] = mtx.base]
      /\ UNCHANGED <<head, anc, mtx, disturbed, exposed>>
  BY DEF Merge!RollbackValidating
<1>2. PICK u : Ends(mtx, u, "RolledBack") /\ pc' = [at |-> "save", tx |-> u]
  BY DEF Merge!RollbackValidating, Ends
<1>3. Merge!Live
  BY <1>1 DEF Merge!Live, Merge!Phases, Merge!Terminal
<1>4. /\ TxOK(mtx, Len(anc)) /\ mtx.base \in 1..Len(anc) /\ mtx.commit \in 0..Len(anc)
      /\ mtx.commit # 0 => mtx.base < mtx.commit
  BY <1>1 DEF MergeInv, RecordOK, TxOK
<1>5. mtx.commit \notin anc[mtx.base]
  <2>1. anc[mtx.base] \subseteq 1..mtx.base
    BY <1>4 DEF MergeInv, GraphOK
  <2>2. mtx.commit \notin 1..mtx.base
    BY <1>4
  <2> QED
    BY <2>1, <2>2
<1>6. /\ tip' \in [Branches -> Nat] /\ head \in Branches /\ tip'[head] = mtx.base
      /\ \A b \in Branches : b # head => tip'[b] = tip[b]
  BY <1>1, <1>4 DEF MergeInv, TipsOK
<1>7. ~disturbed => mtx.commit \notin anc[tip'[Target]]
  <2>1. ~disturbed => head = Target
    BY <1>1, Zenon DEF MergeInv, RecordOK
  <2> QED
    BY <2>1, <1>5, <1>6, Zenon
<1>8. RecordOK' /\ ProcessOK' /\ QuietOK' /\ Merge!Live'
  BY <1>1, <1>2, <1>3, <1>7, UnwindingOK
<1>9. TipsOK(tip', head, anc)
  <2>1. mtx.base # 0 /\ mtx.base \in 0..Len(anc)
    BY <1>4
  <2> QED
    BY <2>1, <1>6 DEF MergeInv, TipsOK, MergeAssumptions
<1>10. PendingOK(merging', tip', head, anc)
  BY <1>1 DEF MergeInv, GraphOK, PendingOK, Merge!NoMerge
<1>11. \A x : HeldElsewhere(x, tip, head, anc) => HeldElsewhere(x, tip', head, anc)
  BY <1>6 DEF HeldElsewhere
<1>12. NoneLost(tip', head, anc, exposed)
  <2>1. ResetSafe(mtx.base, tip, head, anc, exposed)
    BY <1>3 DEF MergeInv
  <2> QED
    BY <2>1, <1>6, <1>11 DEF MergeInv, NoneLost, ResetSafe
<1>13. ResetSafe(mtx.base, tip', head, anc, exposed)
  BY <1>6 DEF ResetSafe
<1> QED
  BY <1>1, <1>8, <1>9, <1>10, <1>12, <1>13 DEF MergeInv

LEMMA InterruptedStep ==
  ASSUME MergeAssumptions, MergeInv, Merge!Interrupted
  PROVE  MergeInv'
<1>1. /\ pc # Merge!Idle /\ pc' = Merge!Idle
      /\ UNCHANGED <<tip, head, anc, merging, mtx, exposed>>
      /\ disturbed' = (disturbed \/ pc.tx.phase = "RolledBack")
  BY DEF Merge!Interrupted
<1>2. disturbed' \in BOOLEAN /\ (~disturbed' => ~disturbed /\ ~Unwinding)
  BY <1>1, Zenon DEF Unwinding
<1>3. RecordOK'
  BY <1>1, <1>2, Zenon DEF MergeInv, RecordOK
<1>4. ProcessOK'
  BY <1>1 DEF ProcessOK
<1>5. QuietOK' /\ (Merge!Live' <=> Merge!Live)
  BY <1>1 DEF MergeInv, QuietOK, Merge!Live
<1> QED
  BY <1>1, <1>2, <1>3, <1>4, <1>5 DEF MergeInv

LEMMA MergeStill ==
  ASSUME MergeInv, UNCHANGED <<tip, head, anc, merging, mtx, pc, disturbed, exposed>>
  PROVE  MergeInv'
  BY DEF MergeInv, RecordOK, ProcessOK, QuietOK, Unwinding, Merge!Live

LEMMA MergeStart ==
  ASSUME MergeAssumptions, Merge!Init
  PROVE  MergeInv
<1>1. /\ tip = [b \in Branches |-> IF b = Target THEN 1 ELSE 0] /\ head = Target
      /\ anc = <<{1}>> /\ merging = Merge!NoMerge /\ mtx = NoTx /\ pc = Merge!Idle
      /\ exposed = {}
  BY DEF Merge!Init
<1>2. disturbed \in BOOLEAN
  BY Zenon DEF Merge!Init
<1>3. Len(anc) = 1 /\ anc[1] = {1} /\ anc \in Seq(SUBSET Nat)
  BY <1>1
<1>4. 1..1 = {1} /\ 0 \in 0..1 /\ 1 \in 0..1
  OBVIOUS
<1>5. GraphOK(anc)
  BY <1>3, <1>4 DEF GraphOK
<1>6. tip[head] = 1 /\ tip[Target] = 1
  BY <1>1 DEF MergeAssumptions
<1>7. TipsOK(tip, head, anc)
  BY <1>1, <1>3, <1>4, <1>6 DEF TipsOK, MergeAssumptions
<1>8. RecordOK /\ ProcessOK /\ QuietOK /\ ~Merge!Live
  BY <1>1 DEF RecordOK, ProcessOK, QuietOK, Merge!Live
<1>9. PendingOK(merging, tip, head, anc)
  BY <1>1, <1>3, <1>4 DEF PendingOK, Merge!NoMerge
<1>10. NoneLost(tip, head, anc, exposed)
  BY <1>3, <1>4, <1>6 DEF NoneLost
<1> QED
  BY <1>2, <1>5, <1>7, <1>8, <1>9, <1>10 DEF MergeInv

LEMMA MergeStep ==
  ASSUME MergeAssumptions, MergeInv, [Merge!Next]_Merge!mergeVars
  PROVE  MergeInv'
<1>1. CASE UNCHANGED Merge!mergeVars
  BY <1>1, MergeStill DEF Merge!mergeVars
<1>2. ASSUME NEW b \in Branches,
             \/ Merge!CloneSession(b) \/ Merge!OpenRootSession(b) \/ Merge!OpenAndMerge(b)
             \/ \E files \in SUBSET Files : Merge!CommitSessionWork(b, files)
      PROVE  MergeInv'
  BY <1>2, NewBranchStep, OpenMergeStep, SessionWorkStep
<1>3. ASSUME NEW f \in Files, Merge!EditFile(f) \/ Merge!RecordResolution(f) PROVE MergeInv'
  <2>1. CASE Merge!EditFile(f)
    BY <2>1, MergeStill DEF Merge!EditFile
  <2> QED
    BY <2>1, <1>3, ResolutionStep
<1>4. CASE Merge!CommitTx \/ \E passed \in BOOLEAN : Merge!RecordValidation(passed)
  BY <1>4, VerdictStep
<1>5. CASE Merge!CommitRootWork \/ Merge!ConcludeClean \/ Merge!ConcludeResolved
  BY <1>5, CommitRootStep, ConcludeStep
<1>6. CASE Merge!StartMerge \/ Merge!SaveTx \/ Merge!Interrupted
  BY <1>6, StartMergeStep, SaveStep, InterruptedStep
<1>7. CASE Merge!RollbackConflicted \/ Merge!RollbackValidating
  BY <1>7, RollbackConflictedStep, RollbackValidatingStep
<1> QED
  BY <1>1, <1>2, <1>3, <1>4, <1>5, <1>6, <1>7 DEF Merge!Next

\* The merge transaction, for any branches, files and commits, interrupted between any two
\* of its steps.  A record that says rolled back left neither its merge commit nor a pending
\* merge on the target; one that says committed has its commit there, no failed gate and no
\* conflict unresolved; and no commit is lost but those made in the main worktree under a
\* record (merge_transaction.rs: rollback, commit, record_resolution).
THEOREM MergesAreAccounted ==
  MergeAssumptions => (Merge!MergeSpec => []Merge!MergeAccounted)
<1> SUFFICES ASSUME MergeAssumptions PROVE Merge!MergeSpec => []Merge!MergeAccounted
  OBVIOUS
<1>1. Merge!Init => MergeInv
  BY MergeStart
<1>2. MergeInv /\ [Merge!Next]_Merge!mergeVars => MergeInv'
  BY MergeStep
<1>3. MergeInv => Merge!MergeAccounted
  BY MergeInvImplies
<1> QED
  BY <1>1, <1>2, <1>3, PTL DEF Merge!MergeSpec

-----------------------------------------------------------------------------
(***************************************************************************)
(* The tools of a run.  A call that has passed the checks carries its      *)
(* grant, and on the pipeline its accepted arguments; a call under way has *)
(* no report; an object is torn only by a crash; the stored epoch is       *)
(* always behind the next one.                                             *)
(***************************************************************************)
CONSTANTS Media, PipeCap, MaxOutput, MaxHandles, MaxCalls, MaxRevokes

VARIABLES offered, using, proc, late, report, file, objects, refs, cursors, stored, epoch,
          done, count

Belt == INSTANCE RunTools WITH Contents <- Media, grants <- offered, call <- using, journal <- cursors

\* A runner prints a number of times.
ToolAssumptions == MaxOutput \in Nat

Arguments == [req : Belt!Kinds, opt : Belt!Kinds, extra : BOOLEAN]
Usings == [at : {"none", "check", "run", "gate", "put"}, path : {"", "run", "pipeline"},
           tool : Belt!Tools \cup {""}, args : Arguments, granted : BOOLEAN, content : Media \cup {0}]
Runners == [at : {"none", "running", "exited", "killed", "orphan"}, left : Int, pipe : Int, code : Int]
Reports == [has : BOOLEAN, passed : BOOLEAN, timedOut : BOOLEAN]
Counts == [calls : Nat, crashes : Nat, revokes : Nat]

\* A call: what its tool takes, and what it has passed.
UsingOK ==
  /\ using \in Usings
  /\ using.at # "none" => using.tool \in Belt!Tools /\ using.args \in Belt!Args(using.tool)
  /\ using.at \notin {"none", "check"} =>
       using.granted /\ (using.path = "pipeline" => Belt!Normalize(using.tool, using.args))
  /\ using.at = "put" => using.content \in Media
  /\ using.at # "none" => ~report.has

\* The runner of a call, and the report on one that is gone.
RunnerOK ==
  /\ proc \in Runners /\ late \in BOOLEAN /\ report \in Reports
  /\ using.at = "gate" => proc.at \in {"running", "exited"}
  /\ report.has =>
       /\ proc.at \in {"exited", "killed"}
       /\ report.passed => proc.at = "exited" /\ proc.code = 0
       /\ ~report.passed => report.timedOut \/ proc.code # 0

ObjectsOK ==
  /\ file \in Media /\ count \in Counts /\ refs \subseteq Media
  /\ objects \in [Media -> {"none", "whole", "torn"}]
  /\ \A c \in refs : objects[c] # "none"
  /\ count.crashes = 0 => \A c \in Media : objects[c] # "torn"

CursorsOK == epoch \in Nat /\ stored.epoch \in Nat /\ stored.epoch < epoch /\ Belt!CursorsStored

ToolInv == UsingOK /\ RunnerOK /\ ObjectsOK /\ CursorsOK /\ Belt!EffectsTyped

LEMMA ToolInvImplies == ToolInv => Belt!ToolsSound
<1> SUFFICES ASSUME ToolInv PROVE Belt!ToolsSound
  OBVIOUS
<1>1. Belt!ReportTruthful
  BY DEF ToolInv, RunnerOK, Belt!ReportTruthful
<1>2. Belt!ObjectsTrue
  BY DEF ToolInv, ObjectsOK, Belt!ObjectsTrue
<1> QED
  BY <1>1, <1>2 DEF ToolInv, CursorsOK, Belt!ToolsSound

LEMMA NoneIsUsed ==
  /\ Belt!NoCall \in Usings /\ Belt!NoCall.at = "none"
  /\ Belt!NoProc \in Runners /\ Belt!NoProc.at = "none"
  /\ Belt!NoReport \in Reports /\ ~Belt!NoReport.has
<1>1. Belt!NoCall \in Usings /\ Belt!NoCall.at = "none"
  BY DEF Belt!NoCall, Usings, Arguments, Belt!Kinds
<1>2. Belt!NoProc \in Runners /\ Belt!NoProc.at = "none"
  BY DEF Belt!NoProc, Runners
<1>3. Belt!NoReport \in Reports /\ ~Belt!NoReport.has
  BY DEF Belt!NoReport, Reports
<1> QED
  BY <1>1, <1>2, <1>3

\* A call that is over leaves nothing to say of it.
LEMMA NobodyUses ==
  ASSUME using' = Belt!NoCall
  PROVE  UsingOK'
BY NoneIsUsed DEF UsingOK

LEMMA ToolsStart == Belt!Init => ToolInv
<1> SUFFICES ASSUME Belt!Init PROVE ToolInv
  OBVIOUS
<1>1. UsingOK
  BY NoneIsUsed DEF Belt!Init, UsingOK
<1>2. RunnerOK
  BY NoneIsUsed DEF Belt!Init, RunnerOK
<1>3. ObjectsOK
  BY DEF Belt!Init, ObjectsOK, Counts
<1>4. CursorsOK /\ Belt!EffectsTyped
  BY DEF Belt!Init, CursorsOK, Belt!CursorsStored, Belt!EffectsTyped
<1> QED
  BY <1>1, <1>2, <1>3, <1>4 DEF ToolInv

\* What an effector that runs leaves on record.
LEMMA RanTyped ==
  ASSUME UsingOK, using.at = "run", Belt!Ran
  PROVE  Belt!EffectsTyped'
<1>1. PICK d : d = [tool |-> using.tool, path |-> using.path, args |-> using.args,
                    granted |-> using.granted, opted |-> Belt!Given(using.tool, using.args)]
  OBVIOUS
<1>2. done' = {d}
  BY <1>1 DEF Belt!Ran
<1>3. d.granted /\ (d.path = "pipeline" => Belt!Normalize(d.tool, d.args))
  BY <1>1 DEF UsingOK
<1>4. Belt!Normalize(d.tool, d.args) => (d.opted <=> d.args.opt # "absent")
  <2>1. d.args = using.args /\ d.tool = using.tool /\ d.opted = Belt!Given(using.tool, using.args)
    BY <1>1
  <2>2. using.args \in Belt!Args(using.tool)
    BY DEF UsingOK
  <2>3. Belt!Normalize(using.tool, using.args) => using.args.opt \in {"absent", "str"}
    BY DEF Belt!Normalize
  <2>4. ~Belt!Registry[using.tool].opt => using.args.opt = "absent"
    BY <2>2 DEF Belt!Args
  <2>5. Belt!Given(using.tool, using.args) <=> Belt!Registry[using.tool].opt /\ using.args.opt = "str"
    BY DEF Belt!Given
  <2> QED
    BY <2>1, <2>3, <2>4, <2>5
<1> QED
  BY <1>2, <1>3, <1>4 DEF Belt!EffectsTyped

LEMMA EffectsKept ==
  ASSUME Belt!EffectsTyped, done' \subseteq done
  PROVE  Belt!EffectsTyped'
BY DEF Belt!EffectsTyped

LEMMA CursorsKept ==
  ASSUME CursorsOK, UNCHANGED <<cursors, stored, epoch>>
  PROVE  CursorsOK'
BY DEF CursorsOK, Belt!CursorsStored

LEMMA ObjectsKept ==
  ASSUME ObjectsOK, UNCHANGED <<objects, refs>>, file' \in Media, count' \in Counts, count'.crashes = count.crashes
  PROVE  ObjectsOK'
BY DEF ObjectsOK

LEMMA CountsMove ==
  ASSUME NEW x \in Counts
  PROVE  /\ [x EXCEPT !.calls = x.calls + 1] \in Counts /\ [x EXCEPT !.calls = x.calls + 1].crashes = x.crashes
         /\ [x EXCEPT !.revokes = x.revokes + 1] \in Counts /\ [x EXCEPT !.revokes = x.revokes + 1].crashes = x.crashes
         /\ [x EXCEPT !.crashes = x.crashes + 1] \in Counts /\ [x EXCEPT !.crashes = x.crashes + 1].crashes # 0
<1>1. PICK n \in Nat : n = x.calls + 1
  BY DEF Counts
<1>2. PICK m \in Nat : m = x.revokes + 1
  BY DEF Counts
<1>3. PICK k \in Nat : k = x.crashes + 1 /\ k # 0
  BY DEF Counts
<1>4. [x EXCEPT !.calls = n] \in Counts /\ [x EXCEPT !.calls = n].crashes = x.crashes
  BY DEF Counts
<1>5. [x EXCEPT !.revokes = m] \in Counts /\ [x EXCEPT !.revokes = m].crashes = x.crashes
  BY DEF Counts
<1>6. [x EXCEPT !.crashes = k] \in Counts /\ [x EXCEPT !.crashes = k].crashes # 0
  BY <1>3 DEF Counts
<1> QED
  BY <1>1, <1>2, <1>3, <1>4, <1>5, <1>6

\* A call comes, and the runner and the report of the one before are forgotten.
LEMMA CallStep ==
  ASSUME ToolInv, NEW p \in {"run", "pipeline"}, NEW t \in Belt!Tools, NEW a \in Belt!Args(t), Belt!Call(p, t, a)
  PROVE  ToolInv'
<1>1. /\ count' = [count EXCEPT !.calls = count.calls + 1]
      /\ using' = [Belt!NoCall EXCEPT !.at = "check", !.path = p, !.tool = t, !.args = a]
      /\ done' = {} /\ proc' = Belt!NoProc /\ report' = Belt!NoReport /\ late' = FALSE
      /\ UNCHANGED <<file, objects, refs, cursors, stored, epoch>>
  BY DEF Belt!Call
<1>2. a \in Arguments
  BY DEF Belt!Args, Arguments, Belt!Kinds
<1>3. /\ using' \in Usings /\ using'.at = "check" /\ using'.tool = t /\ using'.args = a
  BY <1>1, <1>2 DEF Belt!NoCall, Usings
<1>4. UsingOK'
  BY <1>1, <1>3, NoneIsUsed DEF UsingOK
<1>5. RunnerOK'
  BY <1>1, <1>3, NoneIsUsed DEF RunnerOK
<1>6. ObjectsOK'
  <2>1. count' \in Counts /\ count'.crashes = count.crashes /\ file' \in Media
    BY <1>1, CountsMove DEF ToolInv, ObjectsOK
  <2> QED
    BY <2>1, <1>1, ObjectsKept DEF ToolInv
<1>7. CursorsOK' /\ Belt!EffectsTyped'
  BY <1>1, CursorsKept, EffectsKept DEF ToolInv
<1> QED
  BY <1>4, <1>5, <1>6, <1>7 DEF ToolInv

\* The same call goes on at another place, having passed what it had to.
LEMMA UsingMoves ==
  ASSUME NEW u \in Usings, NEW x \in {"none", "check", "run", "gate", "put"}, NEW g \in BOOLEAN, NEW m \in Media
  PROVE  /\ [u EXCEPT !.at = x] \in Usings /\ [u EXCEPT !.at = x].at = x
         /\ [u EXCEPT !.at = x, !.granted = g] \in Usings /\ [u EXCEPT !.at = x, !.granted = g].at = x
         /\ [u EXCEPT !.at = x, !.content = m] \in Usings /\ [u EXCEPT !.at = x, !.content = m].at = x
<1>1. [u EXCEPT !.at = x] \in Usings /\ [u EXCEPT !.at = x].at = x
  BY DEF Usings
<1>2. [u EXCEPT !.at = x, !.granted = g] \in Usings /\ [u EXCEPT !.at = x, !.granted = g].at = x
  BY DEF Usings
<1>3. [u EXCEPT !.at = x, !.content = m] \in Usings /\ [u EXCEPT !.at = x, !.content = m].at = x
  BY DEF Usings
<1> QED
  BY <1>1, <1>2, <1>3

LEMMA UsingFields ==
  ASSUME NEW u \in Usings, NEW x, NEW g, NEW m
  PROVE  /\ [u EXCEPT !.at = x].tool = u.tool /\ [u EXCEPT !.at = x].args = u.args
         /\ [u EXCEPT !.at = x].path = u.path /\ [u EXCEPT !.at = x].granted = u.granted
         /\ [u EXCEPT !.at = x, !.granted = g].tool = u.tool /\ [u EXCEPT !.at = x, !.granted = g].args = u.args
         /\ [u EXCEPT !.at = x, !.granted = g].path = u.path /\ [u EXCEPT !.at = x, !.granted = g].granted = g
         /\ [u EXCEPT !.at = x, !.content = m].tool = u.tool /\ [u EXCEPT !.at = x, !.content = m].args = u.args
         /\ [u EXCEPT !.at = x, !.content = m].path = u.path /\ [u EXCEPT !.at = x, !.content = m].granted = u.granted
         /\ [u EXCEPT !.at = x, !.content = m].content = m
BY DEF Usings

LEMMA CheckStep ==
  ASSUME ToolInv, NEW v \in BOOLEAN, Belt!Check(v)
  PROVE  ToolInv'
<1>1. /\ using.at = "check"
      /\ UNCHANGED <<proc, late, report, file, objects, refs, cursors, stored, epoch, done, count>>
  BY DEF Belt!Check
<1>2. PICK u \in Usings : u = using
  BY DEF ToolInv, UsingOK
<1>3. PICK g \in BOOLEAN : g = (using.tool \in offered)
  <2>1. CASE using.tool \in offered
    <3>1. TRUE = (using.tool \in offered)
      BY <2>1
    <3> QED
      BY <3>1
  <2>2. CASE using.tool \notin offered
    <3>1. FALSE = (using.tool \in offered)
      BY <2>2
    <3> QED
      BY <3>1
  <2> QED
    BY <2>1, <2>2
<1>4. \/ using' = Belt!NoCall
      \/ /\ using' = [u EXCEPT !.at = "run", !.granted = g] /\ g
         /\ u.path = "pipeline" => Belt!Normalize(u.tool, u.args)
  BY <1>2, <1>3 DEF Belt!Check, Belt!Checks
<1>5. UsingOK' /\ using'.at # "gate"
  <2>1. CASE using' = Belt!NoCall
    BY <2>1, NobodyUses, NoneIsUsed
  <2>2. CASE /\ using' = [u EXCEPT !.at = "run", !.granted = g] /\ g
             /\ u.path = "pipeline" => Belt!Normalize(u.tool, u.args)
    <3>1. using' \in Usings /\ using'.at = "run"
      BY <2>2, <1>2, <1>3 DEF Usings
    <3>2. using'.tool = u.tool /\ using'.args = u.args /\ using'.path = u.path /\ using'.granted = g
      BY <2>2, <1>2, UsingFields
    <3>3. u.tool \in Belt!Tools /\ u.args \in Belt!Args(u.tool) /\ ~report.has
      BY <1>1, <1>2 DEF ToolInv, UsingOK
    <3> QED
      BY <3>1, <3>2, <3>3, <2>2, <1>1 DEF UsingOK
  <2> QED
    BY <1>4, <2>1, <2>2
<1>6. RunnerOK'
  BY <1>1, <1>5 DEF ToolInv, RunnerOK
<1>7. ObjectsOK'
  BY <1>1, ObjectsKept DEF ToolInv, ObjectsOK
<1>8. CursorsOK' /\ Belt!EffectsTyped'
  BY <1>1, CursorsKept, EffectsKept DEF ToolInv
<1> QED
  BY <1>5, <1>6, <1>7, <1>8 DEF ToolInv

\* A call that ends and leaves the runner, the objects and the counts as they are.
LEMMA FinishStep ==
  ASSUME ToolInv, using' = Belt!NoCall, UNCHANGED <<proc, late, report, file, objects, refs, count>>,
         CursorsOK', Belt!EffectsTyped'
  PROVE  ToolInv'
<1>1. UsingOK'
  BY NobodyUses
<1>2. RunnerOK'
  BY NoneIsUsed DEF ToolInv, RunnerOK
<1>3. ObjectsOK'
  BY ObjectsKept DEF ToolInv, ObjectsOK
<1> QED
  BY <1>1, <1>2, <1>3 DEF ToolInv

LEMMA ShellStep ==
  ASSUME ToolInv, Belt!ShellDone
  PROVE  ToolInv'
<1>1. /\ using.at = "run" /\ Belt!Ran /\ using' = Belt!NoCall
      /\ UNCHANGED <<proc, late, report, file, objects, refs, count>>
  BY DEF Belt!ShellDone, Belt!Runs, Belt!Finish
<1>2. PICK now : /\ cursors' = now /\ epoch' = epoch + 1
                 /\ stored' = IF Len(now) <= MaxHandles /\ epoch > stored.epoch
                              THEN [epoch |-> epoch, cursors |-> now] ELSE stored
  BY DEF Belt!ShellDone, Belt!RecordSurface
<1>3. epoch \in Nat /\ stored.epoch \in Nat /\ stored.epoch < epoch
  BY DEF ToolInv, CursorsOK
<1>4. epoch' \in Nat /\ stored'.epoch \in Nat /\ stored'.epoch < epoch'
  <2>1. CASE stored' = [epoch |-> epoch, cursors |-> now]
    BY <2>1, <1>2, <1>3
  <2>2. CASE stored' = stored
    BY <2>2, <1>2, <1>3
  <2> QED
    BY <1>2, <2>1, <2>2
<1>5. Len(cursors') <= MaxHandles => stored'.cursors = cursors'
  BY <1>2, <1>3
<1>6. CursorsOK'
  BY <1>4, <1>5 DEF CursorsOK, Belt!CursorsStored
<1>7. Belt!EffectsTyped'
  BY <1>1, RanTyped DEF ToolInv
<1> QED
  BY <1>1, <1>6, <1>7, FinishStep

\* The steps that end a call without effect, or with one that only reads.
LEMMA EndsStep ==
  ASSUME ToolInv, Belt!Missing \/ Belt!ShellFails \/ Belt!ReadOnlyTool
  PROVE  ToolInv'
<1>1. /\ using' = Belt!NoCall
      /\ UNCHANGED <<proc, late, report, file, objects, refs, cursors, stored, epoch, count>>
      /\ done' = done \/ (using.at = "run" /\ Belt!Ran)
  BY DEF Belt!Missing, Belt!ShellFails, Belt!ReadOnlyTool, Belt!Finish, Belt!Runs
<1>2. CursorsOK'
  BY <1>1, CursorsKept DEF ToolInv
<1>3. Belt!EffectsTyped'
  BY <1>1, RanTyped, EffectsKept DEF ToolInv
<1> QED
  BY <1>1, <1>2, <1>3, FinishStep

LEMMA SpawnStep ==
  ASSUME ToolInv, NEW output \in Nat, NEW code \in Nat, NEW works \in BOOLEAN, Belt!Spawn(output, code, works)
  PROVE  ToolInv'
<1>1. using.at = "run" /\ UNCHANGED <<report, file, objects, refs, cursors, stored, epoch, count>>
  BY DEF Belt!Spawn, Belt!Runs
<1>2. CASE works
  <2>1. /\ proc' = [at |-> "running", left |-> output, pipe |-> 0, code |-> code] /\ late' = FALSE
        /\ using' = [using EXCEPT !.at = "gate"] /\ Belt!Ran
    BY <1>2 DEF Belt!Spawn
  <2>2. PICK u \in Usings : u = using
    BY DEF ToolInv, UsingOK
  <2>3. using' \in Usings /\ using'.at = "gate"
    BY <2>1, <2>2 DEF Usings
  <2>4. using'.tool = u.tool /\ using'.args = u.args /\ using'.path = u.path /\ using'.granted = u.granted
    BY <2>1, <2>2, UsingFields
  <2>5. UsingOK'
    BY <1>1, <2>2, <2>3, <2>4 DEF ToolInv, UsingOK
  <2>6. proc' \in Runners /\ proc'.at = "running"
    BY <2>1 DEF Runners
  <2>7. RunnerOK'
    BY <1>1, <2>1, <2>3, <2>6 DEF ToolInv, RunnerOK, UsingOK
  <2>8. ObjectsOK'
    BY <1>1, ObjectsKept DEF ToolInv, ObjectsOK
  <2>9. CursorsOK' /\ Belt!EffectsTyped'
    BY <1>1, <2>1, CursorsKept, RanTyped DEF ToolInv
  <2> QED
    BY <2>5, <2>7, <2>8, <2>9 DEF ToolInv
<1>3. CASE ~works
  <2>1. using' = Belt!NoCall /\ UNCHANGED <<proc, late, done>>
    BY <1>3 DEF Belt!Spawn, Belt!Finish
  <2>2. CursorsOK' /\ Belt!EffectsTyped'
    BY <1>1, <2>1, CursorsKept, EffectsKept DEF ToolInv
  <2> QED
    BY <1>1, <2>1, <2>2, FinishStep
<1> QED
  BY <1>2, <1>3

\* The runner, its time and the media file move; the call does not.
LEMMA AroundStep ==
  ASSUME ToolInv, Belt!Prints \/ Belt!Exits \/ Belt!TimeUp \/ (\E c \in Media : Belt!Edit(c)) \/ (\E t \in Belt!Tools : Belt!Revoke(t))
  PROVE  ToolInv'
<1>1. UNCHANGED <<using, report, objects, refs, cursors, stored, epoch, done>>
  BY DEF Belt!Prints, Belt!Exits, Belt!TimeUp, Belt!Edit, Belt!Revoke
<1>2. UsingOK'
  BY <1>1 DEF ToolInv, UsingOK
<1>3. RunnerOK'
  <2>1. CASE Belt!Prints
    <3>1. PICK x \in Runners : x = proc
      BY DEF ToolInv, RunnerOK
    <3>2. PICK l \in Int, k \in Int : l = x.left - 1 /\ k = x.pipe + 1
      BY <3>1 DEF Runners
    <3>3. proc' = [x EXCEPT !.left = l, !.pipe = k] /\ late' = late
      BY <2>1, <3>1, <3>2 DEF Belt!Prints
    <3>4. proc' \in Runners /\ proc'.at = x.at /\ proc'.code = x.code
      BY <3>1, <3>2, <3>3 DEF Runners
    <3> QED
      BY <3>1, <3>3, <3>4, <1>1 DEF ToolInv, RunnerOK
  <2>2. CASE Belt!Exits
    <3>1. PICK x \in Runners : x = proc /\ x.at = "running"
      BY <2>2 DEF ToolInv, RunnerOK, Belt!Exits
    <3>2. proc' = [x EXCEPT !.at = "exited"] /\ late' = late
      BY <2>2, <3>1 DEF Belt!Exits
    <3>3. proc' \in Runners /\ proc'.at = "exited"
      BY <3>1, <3>2 DEF Runners
    <3>4. ~report.has
      BY <3>1 DEF ToolInv, RunnerOK
    <3> QED
      BY <3>2, <3>3, <3>4, <1>1 DEF ToolInv, RunnerOK
  <2>3. CASE Belt!TimeUp
    BY <2>3, <1>1 DEF Belt!TimeUp, ToolInv, RunnerOK
  <2>4. CASE (\E c \in Media : Belt!Edit(c)) \/ (\E t \in Belt!Tools : Belt!Revoke(t))
    <3>1. UNCHANGED <<proc, late>>
      BY <2>4 DEF Belt!Edit, Belt!Revoke
    <3> QED
      BY <3>1, <1>1 DEF ToolInv, RunnerOK
  <2> QED
    BY <2>1, <2>2, <2>3, <2>4
<1>4. file' \in Media /\ count' \in Counts /\ count'.crashes = count.crashes
  <2>1. file \in Media /\ count \in Counts
    BY DEF ToolInv, ObjectsOK
  <2>2. CASE \E t \in Belt!Tools : Belt!Revoke(t)
    <3>1. count' = [count EXCEPT !.revokes = count.revokes + 1] /\ file' = file
      BY <2>2 DEF Belt!Revoke
    <3> QED
      BY <2>1, <3>1, CountsMove
  <2>3. CASE Belt!Prints \/ Belt!Exits \/ Belt!TimeUp
    BY <2>1, <2>3 DEF Belt!Prints, Belt!Exits, Belt!TimeUp
  <2>4. CASE \E c \in Media : Belt!Edit(c)
    BY <2>1, <2>4 DEF Belt!Edit
  <2> QED
    BY <2>2, <2>3, <2>4
<1>5. ObjectsOK'
  BY <1>1, <1>4, ObjectsKept DEF ToolInv
<1>6. CursorsOK' /\ Belt!EffectsTyped'
  BY <1>1, CursorsKept, EffectsKept DEF ToolInv
<1> QED
  BY <1>2, <1>3, <1>5, <1>6 DEF ToolInv

\* The report: the deadline is looked at first, then the exit.
LEMMA GateStep ==
  ASSUME ToolInv, Belt!GateEnds
  PROVE  ToolInv'
<1>1. /\ using.at = "gate" /\ (late \/ proc.at = "exited") /\ using' = Belt!NoCall
      /\ report' = [has |-> TRUE, timedOut |-> late, passed |-> ~late /\ proc.code = 0]
      /\ UNCHANGED <<late, file, objects, refs, cursors, stored, epoch, done, count>>
  BY DEF Belt!GateEnds, Belt!Finish
<1>2. PICK x \in Runners : x = proc /\ x.at \in {"running", "exited"}
  BY <1>1 DEF ToolInv, RunnerOK
<1>3. PICK y : y = proc'
  OBVIOUS
<1>4. /\ y \in Runners /\ y.code = x.code /\ y.at \in {"exited", "killed"}
      /\ ~late => y.at = "exited"
  <2>1. CASE late /\ x.at = "running"
    <3>1. y = [x EXCEPT !.at = "killed"]
      BY <2>1, <1>2, <1>3 DEF Belt!GateEnds
    <3> QED
      BY <2>1, <3>1, <1>2 DEF Runners
  <2>2. CASE ~(late /\ x.at = "running")
    <3>1. y = x /\ x.at = "exited"
      BY <2>2, <1>1, <1>2, <1>3 DEF Belt!GateEnds
    <3> QED
      BY <3>1, <1>2
  <2> QED
    BY <2>1, <2>2
<1>5. late \in BOOLEAN
  BY DEF ToolInv, RunnerOK
<1>6. PICK p \in BOOLEAN : p <=> (~late /\ x.code = 0)
  OBVIOUS
<1>7. report' \in Reports /\ report'.timedOut = late /\ (report'.passed <=> p)
  BY <1>1, <1>2, <1>5, <1>6 DEF Reports
<1>8. RunnerOK'
  <2>1. report'.passed => y.at = "exited" /\ y.code = 0
    BY <1>4, <1>6, <1>7
  <2>2. ~report'.passed => report'.timedOut \/ y.code # 0
    BY <1>4, <1>6, <1>7
  <2> QED
    BY <2>1, <2>2, <1>1, <1>3, <1>4, <1>5, <1>7, NoneIsUsed DEF RunnerOK
<1>9. UsingOK'
  BY <1>1, NobodyUses
<1>10. ObjectsOK'
  BY <1>1, ObjectsKept DEF ToolInv, ObjectsOK
<1>11. CursorsOK' /\ Belt!EffectsTyped'
  BY <1>1, CursorsKept, EffectsKept DEF ToolInv
<1> QED
  BY <1>8, <1>9, <1>10, <1>11 DEF ToolInv

LEMMA MediaStep ==
  ASSUME ToolInv, NEW fits \in BOOLEAN, Belt!ReadMedia(fits)
  PROVE  ToolInv'
<1>1. using.at = "run" /\ UNCHANGED <<proc, late, report, file, objects, refs, cursors, stored, epoch, count>>
  BY DEF Belt!ReadMedia, Belt!Runs
<1>2. CASE fits
  <2>1. using' = [using EXCEPT !.at = "put", !.content = file] /\ Belt!Ran
    BY <1>2 DEF Belt!ReadMedia
  <2>2. PICK u \in Usings, m \in Media : u = using /\ m = file
    BY DEF ToolInv, UsingOK, ObjectsOK
  <2>3. using' \in Usings /\ using'.at = "put" /\ using'.content = m
    BY <2>1, <2>2 DEF Usings
  <2>4. using'.tool = u.tool /\ using'.args = u.args /\ using'.path = u.path /\ using'.granted = u.granted
    BY <2>1, <2>2, UsingFields
  <2>5. UsingOK'
    BY <1>1, <2>2, <2>3, <2>4 DEF ToolInv, UsingOK
  <2>6. RunnerOK'
    BY <1>1, <2>3 DEF ToolInv, RunnerOK
  <2>7. ObjectsOK'
    BY <1>1, ObjectsKept DEF ToolInv, ObjectsOK
  <2>8. CursorsOK' /\ Belt!EffectsTyped'
    BY <1>1, <2>1, CursorsKept, RanTyped DEF ToolInv
  <2> QED
    BY <2>5, <2>6, <2>7, <2>8 DEF ToolInv
<1>3. CASE ~fits
  <2>1. using' = Belt!NoCall /\ UNCHANGED done
    BY <1>3 DEF Belt!ReadMedia, Belt!Finish
  <2>2. CursorsOK' /\ Belt!EffectsTyped'
    BY <1>1, <2>1, CursorsKept, EffectsKept DEF ToolInv
  <2> QED
    BY <1>1, <2>1, <2>2, FinishStep
<1> QED
  BY <1>2, <1>3

\* An object is written unless its path exists; only then is it referred to.
LEMMA PutStep ==
  ASSUME ToolInv, Belt!Put
  PROVE  ToolInv'
<1>1. /\ using.at = "put" /\ using' = Belt!NoCall /\ refs' = refs \cup {using.content}
      /\ objects' = IF objects[using.content] = "none"
                    THEN [objects EXCEPT ![using.content] = "whole"] ELSE objects
      /\ UNCHANGED <<proc, late, report, file, cursors, stored, epoch, done, count>>
  BY DEF Belt!Put, Belt!Finish
<1>2. PICK m \in Media : m = using.content
  BY <1>1 DEF ToolInv, UsingOK
<1>3. objects \in [Media -> {"none", "whole", "torn"}]
  BY DEF ToolInv, ObjectsOK
<1>4. /\ objects' \in [Media -> {"none", "whole", "torn"}] /\ objects'[m] # "none"
      /\ \A c \in Media : objects'[c] = objects[c] \/ (objects[c] = "none" /\ objects'[c] = "whole")
  BY <1>1, <1>2, <1>3
<1>5. ObjectsOK'
  BY <1>1, <1>2, <1>4 DEF ToolInv, ObjectsOK
<1>6. UsingOK'
  BY <1>1, NobodyUses
<1>7. RunnerOK'
  BY <1>1, NoneIsUsed DEF ToolInv, RunnerOK
<1>8. CursorsOK' /\ Belt!EffectsTyped'
  BY <1>1, CursorsKept, EffectsKept DEF ToolInv
<1> QED
  BY <1>5, <1>6, <1>7, <1>8 DEF ToolInv

LEMMA ToolsRestartStep ==
  ASSUME ToolInv, Belt!Restart
  PROVE  ToolInv'
<1>1. /\ count' = [count EXCEPT !.crashes = count.crashes + 1]
      /\ objects' = IF using.at = "put" /\ objects[using.content] = "none"
                    THEN [objects EXCEPT ![using.content] = "torn"] ELSE objects
      /\ using' = Belt!NoCall
      /\ proc' = IF proc.at = "running" THEN [proc EXCEPT !.at = "orphan"] ELSE proc
      /\ late' = FALSE /\ report' = Belt!NoReport
      /\ cursors' = <<>> /\ epoch' = 1 /\ stored' = [epoch |-> 0, cursors |-> <<>>]
      /\ done' = {} /\ UNCHANGED <<file, refs>>
  BY DEF Belt!Restart
<1>2. UsingOK'
  BY <1>1, NobodyUses
<1>3. RunnerOK'
  <2>1. PICK x \in Runners : x = proc
    BY DEF ToolInv, RunnerOK
  <2>2. [x EXCEPT !.at = "orphan"] \in Runners
    BY <2>1 DEF Runners
  <2>3. proc' \in Runners
    BY <1>1, <2>1, <2>2
  <2> QED
    BY <1>1, <2>3, NoneIsUsed DEF RunnerOK
<1>4. ObjectsOK'
  <2>1. count' \in Counts /\ count'.crashes # 0
    BY <1>1, CountsMove DEF ToolInv, ObjectsOK
  <2>2. using.at = "put" => using.content \in Media
    BY DEF ToolInv, UsingOK
  <2>3. objects \in [Media -> {"none", "whole", "torn"}]
    BY DEF ToolInv, ObjectsOK
  <2>4. /\ objects' \in [Media -> {"none", "whole", "torn"}]
        /\ \A c \in Media : objects[c] # "none" => objects'[c] # "none"
    BY <1>1, <2>2, <2>3
  <2> QED
    BY <1>1, <2>1, <2>4 DEF ToolInv, ObjectsOK
<1>5. CursorsOK'
  BY <1>1 DEF CursorsOK, Belt!CursorsStored
<1>6. Belt!EffectsTyped'
  BY <1>1 DEF Belt!EffectsTyped
<1> QED
  BY <1>2, <1>3, <1>4, <1>5, <1>6 DEF ToolInv

LEMMA ToolStep ==
  ASSUME ToolInv, [Belt!Next]_Belt!toolVars, ToolAssumptions
  PROVE  ToolInv'
<1>1. CASE UNCHANGED Belt!toolVars
  BY <1>1 DEF Belt!toolVars, ToolInv, UsingOK, RunnerOK, ObjectsOK, CursorsOK, Belt!CursorsStored, Belt!EffectsTyped
<1>2. CASE \E p \in {"run", "pipeline"}, t \in Belt!Tools : \E a \in Belt!Args(t) : Belt!Call(p, t, a)
  BY <1>2, CallStep
<1>3. CASE \E v \in BOOLEAN : Belt!Check(v)
  BY <1>3, CheckStep
<1>4. CASE Belt!Missing \/ Belt!ShellFails \/ Belt!ReadOnlyTool
  BY <1>4, EndsStep
<1>5. CASE \E n \in 0..MaxOutput, code \in 0..1, w \in BOOLEAN : Belt!Spawn(n, code, w)
  <2>1. PICK n \in 0..MaxOutput, code \in 0..1, w \in BOOLEAN : Belt!Spawn(n, code, w)
    BY <1>5
  <2>2. n \in Nat /\ code \in Nat
    BY <2>1 DEF ToolAssumptions
  <2> QED
    BY <2>1, <2>2, SpawnStep
<1>6. CASE Belt!Prints \/ Belt!Exits \/ Belt!TimeUp \/ (\E c \in Media : Belt!Edit(c)) \/ (\E t \in Belt!Tools : Belt!Revoke(t))
  BY <1>6, AroundStep
<1>7. CASE Belt!GateEnds
  BY <1>7, GateStep
<1>8. CASE \E f \in BOOLEAN : Belt!ReadMedia(f)
  BY <1>8, MediaStep
<1>9. CASE Belt!Put
  BY <1>9, PutStep
<1>10. CASE Belt!ShellDone
  BY <1>10, ShellStep
<1>11. CASE Belt!Restart
  BY <1>11, ToolsRestartStep
<1> QED
  BY <1>1, <1>2, <1>3, <1>4, <1>5, <1>6, <1>7, <1>8, <1>9, <1>10, <1>11 DEF Belt!Next

\* The tools of a run (build_worktree_registry, schema.rs, media.rs, verification/lib.rs,
\* record_surface), for any contents, outputs, crashes and revocations: an effector ran
\* with a grant, on the pipeline with accepted arguments and on exactly those; a test
\* report is about a runner that is gone and tells its exit; an object the model was
\* referred to is there, and whole unless a crash tore it; no cursor is missing from the
\* stored checkpoint that there was room for.
THEOREM ToolsAreSound == ToolAssumptions => (Belt!ToolSpec => []Belt!ToolsSound)
<1> SUFFICES ASSUME ToolAssumptions PROVE Belt!ToolSpec => []Belt!ToolsSound
  OBVIOUS
<1>1. Belt!Init => ToolInv
  BY ToolsStart
<1>2. ToolInv /\ [Belt!Next]_Belt!toolVars => ToolInv'
  BY ToolStep
<1>3. ToolInv => Belt!ToolsSound
  BY ToolInvImplies
<1> QED
  BY <1>1, <1>2, <1>3, PTL DEF Belt!ToolSpec

-----------------------------------------------------------------------------
(***************************************************************************)
(* The user's configuration.  A clone's directory is taken once; the rows  *)
(* are numbered; until two first requests overlap there is one session,    *)
(* and nobody is about to make a second.                                   *)
(***************************************************************************)
CONSTANTS Conns, Urls, DirOf, Secrets, MaxAsks, MaxDeaths

VARIABLES doc, keychain, disk, repos, sessions, jobs, asking, asked, want, filed, crowded

Bench == INSTANCE Workbench WITH call <- asking

\* An empty directory is not the clone of any URL.
BenchAssumptions == Bench!Unset \notin Urls

Jobs == [session : Nat, repo : Nat, tree : Urls \cup {Bench!Unset, "default"}, branch : BOOLEAN]

\* A key is filed under the provider named, or one that was current.
RightKey(k) ==
  \E p \in (IF k.named # Bench!Unset THEN {k.named} ELSE k.current) : k.cred = Bench!CredentialEnvFor(p)

\* A request under way on a connection.
AskingOK(r, d, n) ==
  /\ r.at = "file" => RightKey(r)
  /\ r.at \in {"clone", "row"} => r.url \in Urls
  /\ r.at = "row" => d[DirOf[r.url]] = r.url
  /\ r.at \in {"session", "task"} => r.repo \in Nat
  /\ r.at = "task" => r.session \in 1..n

RowsOK ==
  /\ IsFiniteSet(repos)
  /\ \A r \in repos : r.id \in 1..Cardinality(repos) /\ r.url \in Urls /\ disk[DirOf[r.url]] = r.url
  /\ \A i \in 1..Cardinality(repos) : \E r \in repos : r.id = i
  /\ \A r, s \in repos : r.id = s.id => r = s

AskingsOK ==
  /\ DOMAIN asking = Conns /\ DOMAIN disk = {DirOf[x] : x \in Urls}
  /\ \A c \in Conns : AskingOK(asking[c], disk, sessions)
  /\ \A c \in Conns : asking[c].at \in {"session", "task"} => asking[c].repo <= Cardinality(repos)

JobsOK ==
  /\ jobs \in Seq(Jobs) /\ sessions \in Nat
  /\ \A j \in 1..Len(jobs) :
       /\ jobs[j].session \in 1..sessions /\ jobs[j].repo <= Cardinality(repos)
       /\ (jobs[j].tree # Bench!Unset /\ jobs[j].repo # 0) =>
            \E r \in repos : r.id = jobs[j].repo /\ r.url = jobs[j].tree

OneSession ==
  /\ crowded \in BOOLEAN
  /\ ~crowded => sessions <= 1 /\ (sessions = 1 => \A c \in Conns : asking[c].at # "session")

BenchInv ==
  /\ Bench!NoLostSetting /\ (\A k \in filed : RightKey(k))
  /\ RowsOK /\ AskingsOK /\ JobsOK /\ OneSession

LEMMA BenchInvImplies == BenchInv => Bench!BenchSound
<1> SUFFICES ASSUME BenchInv PROVE Bench!BenchSound
  OBVIOUS
<1>1. Bench!KeysFiledRight
  BY DEF BenchInv, RightKey, Bench!KeysFiledRight
<1>2. DOMAIN jobs = 1..Len(jobs)
  BY DEF BenchInv, JobsOK
<1>3. Bench!ReposAreReal
  BY <1>2 DEF BenchInv, RowsOK, JobsOK, Bench!ReposAreReal
<1>4. Bench!OneDefaultSession
  <2>1. ASSUME ~crowded, NEW i \in DOMAIN jobs, NEW j \in DOMAIN jobs PROVE jobs[i].session = jobs[j].session
    <3>1. sessions \in Nat /\ sessions <= 1 /\ jobs[i].session \in 1..sessions /\ jobs[j].session \in 1..sessions
      BY <1>2, <2>1 DEF BenchInv, JobsOK, OneSession
    <3> QED
      BY <3>1
  <2> QED
    BY <2>1 DEF Bench!OneDefaultSession
<1> QED
  BY <1>1, <1>3, <1>4 DEF BenchInv, Bench!BenchSound

LEMMA BenchStart == Bench!Init => BenchInv
<1> SUFFICES ASSUME Bench!Init PROVE BenchInv
  OBVIOUS
<1>1. /\ repos = {} /\ sessions = 0 /\ jobs = <<>> /\ asking = [c \in Conns |-> Bench!NoCall]
      /\ filed = {} /\ crowded = FALSE /\ DOMAIN disk = {DirOf[x] : x \in Urls}
  BY DEF Bench!Init
<1>2. Bench!NoLostSetting
  BY DEF Bench!Init, Bench!NoLostSetting
<1>3. RowsOK
  <2>1. IsFiniteSet(repos) /\ Cardinality(repos) = 0
    BY <1>1, FS_EmptySet
  <2> QED
    BY <2>1, <1>1 DEF RowsOK
<1>4. AskingsOK
  <2>1. Bench!NoCall.at = "idle"
    BY DEF Bench!NoCall
  <2> QED
    BY <1>1, <2>1 DEF AskingsOK, AskingOK
<1>5. JobsOK
  <2>1. <<>> \in Seq(Jobs) /\ Len(<<>>) = 0
    BY EmptySeq
  <2> QED
    BY <1>1, <2>1 DEF JobsOK
<1>6. OneSession
  <2>1. sessions <= 1 /\ sessions # 1
    BY <1>1
  <2>2. crowded \in BOOLEAN
    BY <1>1
  <2> QED
    BY <2>1, <2>2 DEF OneSession
<1> QED
  BY <1>1, <1>2, <1>3, <1>4, <1>5, <1>6 DEF BenchInv

\* A request is taken up or moves on, and the rest does not.
LEMMA AskingMoves ==
  ASSUME BenchInv, NEW c \in Conns, NEW r, asking' = [asking EXCEPT ![c] = r],
         UNCHANGED <<disk, repos, sessions>>, AskingOK(r, disk, sessions),
         r.at \in {"session", "task"} => r.repo <= Cardinality(repos)
  PROVE  AskingsOK' /\ RowsOK'
<1>1. DOMAIN asking' = Conns /\ asking'[c] = r /\ \A d \in Conns \ {c} : asking'[d] = asking[d]
  BY DEF BenchInv, AskingsOK
<1>2. \A d \in Conns : AskingOK(asking'[d], disk, sessions)
  BY <1>1 DEF BenchInv, AskingsOK
<1>3. AskingsOK'
  BY <1>1, <1>2 DEF BenchInv, AskingsOK
<1> QED
  BY <1>3 DEF BenchInv, RowsOK

LEMMA IdleAsks ==
  ASSUME NEW d, NEW n
  PROVE  AskingOK(Bench!NoCall, d, n) /\ Bench!NoCall.at = "idle"
<1>1. Bench!NoCall.at = "idle"
  BY DEF Bench!NoCall
<1> QED
  BY <1>1 DEF AskingOK

\* The sessions stand as they did when no request for one is added.
LEMMA SessionKept ==
  ASSUME BenchInv, NEW c \in Conns, NEW r, asking' = [asking EXCEPT ![c] = r], r.at # "session",
         UNCHANGED <<sessions, crowded>>
  PROVE  OneSession'
<1>1. asking'[c] = r /\ \A d \in Conns \ {c} : asking'[d] = asking[d]
  BY DEF BenchInv, AskingsOK
<1> QED
  BY <1>1 DEF BenchInv, OneSession

LEMMA JobsKept ==
  ASSUME JobsOK, UNCHANGED <<jobs, sessions, repos>>
  PROVE  JobsOK'
BY DEF JobsOK

-----------------------------------------------------------------------------
LEMMA SettingsStep ==
  ASSUME BenchInv, NEW c \in Conns, NEW patch, NEW key, Bench!UpdateSettings(c, patch, key)
  PROVE  BenchInv'
<1>1. PICK r : /\ asking' = [asking EXCEPT ![c] = r] /\ r.at \in {"idle", "bind"}
  <2>1. CASE key = Bench!Unset
    BY <2>1, IdleAsks DEF Bench!UpdateSettings, Bench!Begin
  <2>2. CASE key # Bench!Unset
    <3>1. PICK r : /\ r = [at |-> "bind", named |-> patch["provider"], key |-> key,
                         current |-> {Bench!Provider(Bench!Merged(doc, patch))}]
      OBVIOUS
    <3>2. asking' = [asking EXCEPT ![c] = r] /\ r.at = "bind"
      BY <2>2, <3>1 DEF Bench!UpdateSettings, Bench!Begin
    <3> QED
      BY <3>2
  <2> QED
    BY <2>1, <2>2
<1>2. /\ doc' = Bench!Merged(doc, patch)
      /\ want' = [f \in Bench!Fields |-> IF patch[f] = Bench!Unset THEN want[f] ELSE patch[f]]
      /\ UNCHANGED <<disk, repos, sessions, jobs, filed, crowded>>
  BY DEF Bench!UpdateSettings
<1>3. Bench!NoLostSetting'
  BY <1>2 DEF BenchInv, Bench!NoLostSetting, Bench!Merged
<1>4. AskingOK(r, disk, sessions)
  BY <1>1 DEF AskingOK
<1>5. AskingsOK' /\ RowsOK'
  BY <1>1, <1>2, <1>4, AskingMoves
<1>6. OneSession' /\ JobsOK'
  BY <1>1, <1>2, SessionKept, JobsKept DEF BenchInv
<1> QED
  BY <1>2, <1>3, <1>5, <1>6 DEF BenchInv

LEMMA BindStep ==
  ASSUME BenchInv, NEW c \in Conns, Bench!BindKey(c)
  PROVE  BenchInv'
<1>1. PICK p : p = Bench!Provider(doc)
  OBVIOUS
<1>2. PICK r : r = [at |-> "file", named |-> asking[c].named, key |-> asking[c].key,
                    current |-> asking[c].current \cup {p},
                    cred |-> Bench!CredentialEnvFor(IF asking[c].named # Bench!Unset THEN asking[c].named ELSE p)]
  OBVIOUS
<1>3. asking' = [asking EXCEPT ![c] = r] /\ UNCHANGED <<doc, disk, repos, sessions, jobs, want, filed, crowded>>
  BY <1>1, <1>2 DEF Bench!BindKey, Bench!Goto
<1>4. r.at = "file" /\ r.named = asking[c].named /\ p \in r.current
      /\ r.cred = Bench!CredentialEnvFor(IF r.named # Bench!Unset THEN r.named ELSE p)
  BY <1>2
<1>5. RightKey(r)
  <2>1. CASE r.named # Bench!Unset
    BY <2>1, <1>4 DEF RightKey
  <2>2. CASE r.named = Bench!Unset
    BY <2>2, <1>4 DEF RightKey
  <2> QED
    BY <2>1, <2>2
<1>6. AskingOK(r, disk, sessions)
  BY <1>4, <1>5 DEF AskingOK
<1>7. AskingsOK' /\ RowsOK'
  BY <1>3, <1>4, <1>6, AskingMoves
<1>8. OneSession' /\ JobsOK'
  BY <1>3, <1>4, SessionKept, JobsKept DEF BenchInv
<1> QED
  BY <1>3, <1>7, <1>8 DEF BenchInv, Bench!NoLostSetting

LEMMA SecretStep ==
  ASSUME BenchInv, NEW c \in Conns, NEW works \in BOOLEAN, Bench!StoreSecret(c, works)
  PROVE  BenchInv'
<1>1. /\ asking[c].at = "file" /\ asking' = [asking EXCEPT ![c] = Bench!NoCall]
      /\ UNCHANGED <<doc, disk, repos, sessions, jobs, want, crowded>>
  BY DEF Bench!StoreSecret, Bench!Goto
<1>2. AskingsOK' /\ RowsOK'
  BY <1>1, IdleAsks, AskingMoves
<1>3. OneSession' /\ JobsOK'
  BY <1>1, IdleAsks, SessionKept, JobsKept DEF BenchInv
<1>4. \A k \in filed' : RightKey(k)
  <2>1. PICK k : k = [cred |-> asking[c].cred, named |-> asking[c].named,
                      key |-> asking[c].key, current |-> asking[c].current]
    OBVIOUS
  <2>2. filed' \subseteq filed \cup {k}
    BY <2>1 DEF Bench!StoreSecret
  <2>3. RightKey(asking[c])
    BY <1>1 DEF BenchInv, AskingsOK, AskingOK
  <2>4. k.named = asking[c].named /\ k.current = asking[c].current /\ k.cred = asking[c].cred
    BY <2>1
  <2>5. RightKey(k)
    BY <2>3, <2>4 DEF RightKey
  <2> QED
    BY <2>2, <2>5 DEF BenchInv
<1> QED
  BY <1>1, <1>2, <1>3, <1>4 DEF BenchInv, Bench!NoLostSetting

-----------------------------------------------------------------------------
LEMMA RegisterStep ==
  ASSUME BenchInv, NEW c \in Conns, NEW u \in Urls, Bench!RegisterRepo(c, u)
  PROVE  BenchInv'
<1>1. PICK r : asking' = [asking EXCEPT ![c] = r] /\ (r = Bench!NoCall \/ r = [at |-> "clone", url |-> u])
  <2>1. CASE disk[DirOf[u]] = Bench!Unset
    BY <2>1 DEF Bench!RegisterRepo, Bench!Begin
  <2>2. CASE disk[DirOf[u]] # Bench!Unset
    BY <2>2 DEF Bench!RegisterRepo, Bench!Begin
  <2> QED
    BY <2>1, <2>2
<1>2. UNCHANGED <<doc, disk, repos, sessions, jobs, want, filed, crowded>>
  BY DEF Bench!RegisterRepo
<1>3. AskingOK(r, disk, sessions) /\ r.at \in {"idle", "clone"}
  <2>1. CASE r = Bench!NoCall
    BY <2>1, IdleAsks
  <2>2. CASE r = [at |-> "clone", url |-> u]
    <3>1. r.at = "clone" /\ r.url = u
      BY <2>2
    <3> QED
      BY <3>1 DEF AskingOK
  <2> QED
    BY <1>1, <2>1, <2>2
<1>4. AskingsOK' /\ RowsOK'
  BY <1>1, <1>2, <1>3, AskingMoves
<1>5. OneSession' /\ JobsOK'
  BY <1>1, <1>2, <1>3, SessionKept, JobsKept DEF BenchInv
<1> QED
  BY <1>2, <1>4, <1>5 DEF BenchInv, Bench!NoLostSetting

\* A directory that holds a clone keeps it.
DiskKept == /\ DOMAIN disk' = DOMAIN disk
            /\ \A u \in Urls : disk[DirOf[u]] = u => disk'[DirOf[u]] = u

LEMMA CloneStep ==
  ASSUME BenchInv, BenchAssumptions, NEW c \in Conns, NEW works \in BOOLEAN, Bench!Clone(c, works)
  PROVE  BenchInv'
<1>1. PICK u \in Urls : u = asking[c].url /\ asking[c].at = "clone"
  BY DEF Bench!Clone, BenchInv, AskingsOK, AskingOK
<1>2. /\ UNCHANGED <<doc, repos, sessions, jobs, want, filed, crowded>>
      /\ \/ /\ disk[DirOf[u]] = Bench!Unset /\ disk' = [disk EXCEPT ![DirOf[u]] = u]
            /\ asking' = [asking EXCEPT ![c] = [at |-> "row", url |-> u]]
         \/ disk' = disk /\ asking' = [asking EXCEPT ![c] = Bench!NoCall]
  BY <1>1 DEF Bench!Clone, Bench!Goto
<1>3. DOMAIN disk = {DirOf[x] : x \in Urls} /\ DirOf[u] \in DOMAIN disk
  BY DEF BenchInv, AskingsOK
<1>4. DiskKept
  BY <1>2, <1>3 DEF DiskKept, BenchAssumptions
<1>5. PICK r : /\ asking' = [asking EXCEPT ![c] = r] /\ r.at \in {"row", "idle"}
               /\ r.at = "row" => r.url = u /\ disk'[DirOf[u]] = u
  <2>1. CASE /\ disk' = [disk EXCEPT ![DirOf[u]] = u]
             /\ asking' = [asking EXCEPT ![c] = [at |-> "row", url |-> u]]
    <3>1. PICK r : r = [at |-> "row", url |-> u]
      OBVIOUS
    <3>2. /\ asking' = [asking EXCEPT ![c] = r] /\ r.at = "row" /\ r.url = u /\ disk'[DirOf[u]] = u
      BY <2>1, <3>1, <1>3
    <3> QED
      BY <3>2
  <2>2. CASE asking' = [asking EXCEPT ![c] = Bench!NoCall]
    BY <2>2, IdleAsks
  <2> QED
    BY <1>2, <2>1, <2>2
<1>6. DOMAIN asking' = Conns /\ asking'[c] = r /\ \A d \in Conns \ {c} : asking'[d] = asking[d]
  BY <1>5 DEF BenchInv, AskingsOK
<1>7. AskingsOK'
  <2>1. AskingOK(r, disk', sessions)
    BY <1>5 DEF AskingOK
  <2>2. ASSUME NEW d \in Conns \ {c} PROVE AskingOK(asking[d], disk', sessions)
    BY <2>2, <1>4 DEF BenchInv, AskingsOK, AskingOK, DiskKept
  <2> QED
    BY <2>1, <2>2, <1>2, <1>3, <1>4, <1>5, <1>6 DEF BenchInv, AskingsOK, DiskKept
<1>8. RowsOK'
  BY <1>2, <1>4 DEF BenchInv, RowsOK, DiskKept
<1>9. OneSession' /\ JobsOK'
  BY <1>2, <1>5, SessionKept, JobsKept DEF BenchInv
<1> QED
  BY <1>2, <1>7, <1>8, <1>9 DEF BenchInv, Bench!NoLostSetting

LEMMA SameRowCount == \A S : Bench!Cardinality(S) = Cardinality(S)
BY DEF Bench!Cardinality, Cardinality

\* A row is added under the next number.
LEMMA RowStep ==
  ASSUME BenchInv, NEW c \in Conns, Bench!RegisterRow(c)
  PROVE  BenchInv'
<1>1. PICK u \in Urls : u = asking[c].url /\ disk[DirOf[u]] = u
  BY DEF Bench!RegisterRow, BenchInv, AskingsOK, AskingOK
<1>2. PICK n \in Nat : n = Cardinality(repos)
  BY FS_CardinalityType DEF BenchInv, RowsOK
<1>3. PICK x : x = [id |-> n + 1, url |-> u]
  OBVIOUS
<1>4. /\ repos' = repos \cup {x} /\ asking' = [asking EXCEPT ![c] = Bench!NoCall]
      /\ UNCHANGED <<doc, disk, sessions, jobs, want, filed, crowded>>
  <2>1. /\ asking' = [asking EXCEPT ![c] = Bench!NoCall]
        /\ UNCHANGED <<doc, disk, sessions, jobs, want, filed, crowded>>
    BY DEF Bench!RegisterRow, Bench!Goto
  <2>2. repos' = repos \cup {[id |-> Bench!Cardinality(repos) + 1, url |-> asking[c].url]}
    BY DEF Bench!RegisterRow
  <2>3. x = [id |-> Bench!Cardinality(repos) + 1, url |-> asking[c].url]
    BY <1>1, <1>2, <1>3, SameRowCount
  <2>4. repos' = repos \cup {x}
    BY <2>2, <2>3
  <2> QED
    BY <2>1, <2>4
<1>5. x.id = n + 1 /\ x.url = u
  BY <1>3
<1>6. x \notin repos
  BY <1>2, <1>5 DEF BenchInv, RowsOK
<1>7. IsFiniteSet(repos') /\ Cardinality(repos') = n + 1
  BY <1>2, <1>4, <1>6, FS_AddElement DEF BenchInv, RowsOK
<1>8. RowsOK'
  <2>1. \A r \in repos : r.id \in 1..n /\ r.url \in Urls /\ disk[DirOf[r.url]] = r.url
    BY <1>2 DEF BenchInv, RowsOK
  <2>2. \A i \in 1..n : i \in 1..(n + 1) /\ i # n + 1
    OBVIOUS
  <2>3. \A i \in 1..(n + 1) : i = n + 1 \/ i \in 1..n
    BY <1>2
  <2>4. \A i \in 1..(n + 1) : \E r \in repos' : r.id = i
    BY <2>3, <1>2, <1>4, <1>5 DEF BenchInv, RowsOK
  <2>5. \A r, s \in repos' : r.id = s.id => r = s
    BY <2>1, <2>2, <1>4, <1>5 DEF BenchInv, RowsOK
  <2>6. n + 1 \in 1..(n + 1)
    BY <1>2
  <2> QED
    BY <2>1, <2>2, <2>4, <2>5, <2>6, <1>1, <1>4, <1>5, <1>7 DEF RowsOK
<1>9. AskingsOK'
  <2>1. DOMAIN asking' = Conns /\ asking'[c] = Bench!NoCall /\ \A d \in Conns \ {c} : asking'[d] = asking[d]
    BY <1>4 DEF BenchInv, AskingsOK
  <2>2. \A d \in Conns : AskingOK(asking'[d], disk, sessions)
    BY <2>1, IdleAsks DEF BenchInv, AskingsOK
  <2>3. ASSUME NEW d \in Conns, asking'[d].at \in {"session", "task"} PROVE asking'[d].repo <= n + 1
    <3>1. asking'[d] = asking[d]
      BY <2>1, <2>3, IdleAsks
    <3>2. asking[d].repo \in Nat /\ asking[d].repo <= n
      BY <2>3, <3>1, <1>2 DEF BenchInv, AskingsOK, AskingOK
    <3> QED
      BY <3>1, <3>2, <1>2
  <2> QED
    BY <2>1, <2>2, <2>3, <1>4, <1>7 DEF BenchInv, AskingsOK
<1>10. JobsOK'
  <2>1. ASSUME NEW j \in 1..Len(jobs) PROVE jobs[j].repo <= n + 1
    <3>1. jobs[j] \in Jobs /\ jobs[j].repo <= n
      BY <1>2 DEF BenchInv, JobsOK
    <3>2. jobs[j].repo \in Nat
      BY <3>1 DEF Jobs
    <3> QED
      BY <3>1, <3>2, <1>2
  <2> QED
    BY <2>1, <1>4, <1>7 DEF BenchInv, JobsOK
<1>11. OneSession'
  BY <1>4, IdleAsks, SessionKept
<1> QED
  BY <1>4, <1>8, <1>9, <1>10, <1>11 DEF BenchInv, Bench!NoLostSetting

-----------------------------------------------------------------------------
LEMMA CreateStep ==
  ASSUME BenchInv, NEW c \in Conns, NEW repo \in 0..Cardinality(repos), Bench!CreateTask(c, repo)
  PROVE  BenchInv'
<1>1. repo \in Nat /\ repo <= Cardinality(repos) /\ sessions \in Nat
  <2>1. Cardinality(repos) \in Nat
    BY FS_CardinalityType DEF BenchInv, RowsOK
  <2> QED
    BY <2>1 DEF BenchInv, JobsOK
<1>2. UNCHANGED <<doc, disk, repos, sessions, jobs, want, filed, crowded>>
  BY DEF Bench!CreateTask
<1>3. PICK r : /\ asking' = [asking EXCEPT ![c] = r] /\ r.repo = repo
               /\ \/ r.at = "session" /\ sessions = 0
                  \/ r.at = "task" /\ r.session \in 1..sessions
  <2>1. CASE sessions = 0 /\ Bench!Begin(c, [at |-> "session", repo |-> repo])
    <3>1. PICK r : r = [at |-> "session", repo |-> repo]
      OBVIOUS
    <3>2. asking' = [asking EXCEPT ![c] = r] /\ r.at = "session" /\ r.repo = repo
      BY <2>1, <3>1 DEF Bench!Begin
    <3> QED
      BY <2>1, <3>2
  <2>2. CASE \E s \in 1..sessions : Bench!Begin(c, [at |-> "task", repo |-> repo, session |-> s])
    <3>1. PICK s \in 1..sessions : Bench!Begin(c, [at |-> "task", repo |-> repo, session |-> s])
      BY <2>2
    <3>2. PICK r : r = [at |-> "task", repo |-> repo, session |-> s]
      OBVIOUS
    <3>3. asking' = [asking EXCEPT ![c] = r] /\ r.at = "task" /\ r.repo = repo /\ r.session = s
      BY <3>1, <3>2 DEF Bench!Begin
    <3> QED
      BY <3>1, <3>3
  <2> QED
    BY <2>1, <2>2 DEF Bench!CreateTask
<1>4. AskingOK(r, disk, sessions)
  BY <1>1, <1>3 DEF AskingOK
<1>5. AskingsOK' /\ RowsOK'
  BY <1>1, <1>2, <1>3, <1>4, AskingMoves
<1>6. OneSession'
  <2>1. asking'[c] = r /\ \A d \in Conns \ {c} : asking'[d] = asking[d]
    BY <1>3 DEF BenchInv, AskingsOK
  <2>2. CASE sessions = 0
    <3>1. sessions' <= 1 /\ sessions' # 1
      BY <2>2, <1>2
    <3> QED
      BY <3>1, <1>2 DEF BenchInv, OneSession
  <2>3. CASE sessions # 0
    BY <2>1, <2>3, <1>2, <1>3 DEF BenchInv, OneSession
  <2> QED
    BY <2>2, <2>3
<1>7. JobsOK'
  BY <1>2, JobsKept DEF BenchInv
<1> QED
  BY <1>2, <1>5, <1>6, <1>7 DEF BenchInv, Bench!NoLostSetting

LEMMA SessionStep ==
  ASSUME BenchInv, NEW c \in Conns, Bench!EnsureDefaultSession(c)
  PROVE  BenchInv'
<1>1. PICK n \in Nat : n = sessions
  BY DEF BenchInv, JobsOK
<1>2. PICK r : r = [at |-> "task", repo |-> asking[c].repo, session |-> n + 1]
  OBVIOUS
<1>3. /\ asking[c].at = "session" /\ sessions' = n + 1 /\ asking' = [asking EXCEPT ![c] = r]
      /\ crowded' = (crowded \/ \E d \in Conns \ {c} : asking[d].at = "session")
      /\ UNCHANGED <<doc, disk, repos, jobs, want, filed>>
  BY <1>1, <1>2 DEF Bench!EnsureDefaultSession, Bench!Goto
<1>4. r.at = "task" /\ r.repo = asking[c].repo /\ r.session = n + 1
  BY <1>2
<1>5. asking[c].repo \in Nat /\ asking[c].repo <= Cardinality(repos)
  BY <1>3 DEF BenchInv, AskingsOK, AskingOK
<1>6. DOMAIN asking' = Conns /\ asking'[c] = r /\ \A d \in Conns \ {c} : asking'[d] = asking[d]
  BY <1>3 DEF BenchInv, AskingsOK
<1>7. \A i \in 1..n : i \in 1..(n + 1)
  BY <1>1
<1>8. AskingsOK'
  <2>1. AskingOK(r, disk, n + 1)
    BY <1>1, <1>4, <1>5 DEF AskingOK
  <2>2. ASSUME NEW d \in Conns \ {c} PROVE AskingOK(asking[d], disk, n + 1)
    BY <2>2, <1>1, <1>7 DEF BenchInv, AskingsOK, AskingOK
  <2> QED
    BY <2>1, <2>2, <1>3, <1>4, <1>5, <1>6 DEF BenchInv, AskingsOK
<1>9. JobsOK'
  BY <1>1, <1>3, <1>7 DEF BenchInv, JobsOK
<1>10. OneSession'
  <2>1. crowded' \in BOOLEAN
    BY <1>3
  <2>2. ASSUME ~crowded' PROVE sessions' <= 1 /\ \A d \in Conns : asking'[d].at # "session"
    <3>1. ~crowded /\ \A d \in Conns \ {c} : asking[d].at # "session"
      BY <2>2, <1>3
    <3>2. n <= 1 /\ n # 1
      BY <3>1, <1>1, <1>3 DEF BenchInv, OneSession
    <3>3. n + 1 <= 1
      BY <3>2, <1>1
    <3> QED
      BY <3>1, <3>3, <1>3, <1>4, <1>6
  <2> QED
    BY <2>1, <2>2 DEF OneSession
<1>11. RowsOK'
  BY <1>3 DEF BenchInv, RowsOK
<1> QED
  BY <1>3, <1>8, <1>9, <1>10, <1>11 DEF BenchInv, Bench!NoLostSetting

LEMMA MintStep ==
  ASSUME BenchInv, NEW c \in Conns, Bench!MintTask(c)
  PROVE  BenchInv'
<1>1. PICK x : x = [session |-> asking[c].session, repo |-> asking[c].repo, tree |-> Bench!Unset, branch |-> FALSE]
  OBVIOUS
<1>2. /\ asking[c].at = "task" /\ jobs' = Append(jobs, x) /\ asking' = [asking EXCEPT ![c] = Bench!NoCall]
      /\ UNCHANGED <<doc, disk, repos, sessions, want, filed, crowded>>
  BY <1>1 DEF Bench!MintTask, Bench!Goto
<1>3. /\ asking[c].session \in 1..sessions /\ asking[c].repo \in Nat /\ asking[c].repo <= Cardinality(repos)
      /\ sessions \in Nat /\ asking[c].session \in Nat
  <2>1. /\ asking[c].session \in 1..sessions /\ asking[c].repo \in Nat /\ asking[c].repo <= Cardinality(repos)
        /\ sessions \in Nat
    BY <1>2 DEF BenchInv, AskingsOK, AskingOK, JobsOK
  <2> QED
    BY <2>1
<1>4. x \in Jobs /\ x.session = asking[c].session /\ x.repo = asking[c].repo /\ x.tree = Bench!Unset
  BY <1>1, <1>3 DEF Jobs
<1>5. PICK q \in Seq(Jobs), l \in Nat : q = jobs /\ l = Len(q)
  BY DEF BenchInv, JobsOK
<1>6. /\ Append(q, x) \in Seq(Jobs) /\ Len(Append(q, x)) = l + 1 /\ Append(q, x)[l + 1] = x
      /\ \A i \in 1..l : Append(q, x)[i] = q[i]
  BY <1>4, <1>5
<1>7. \A i \in 1..(l + 1) : i = l + 1 \/ i \in 1..l
  BY <1>5
<1>8. JobsOK'
  <2>1. ASSUME NEW j \in 1..(l + 1)
        PROVE  /\ jobs'[j].session \in 1..sessions /\ jobs'[j].repo <= Cardinality(repos)
               /\ (jobs'[j].tree # Bench!Unset /\ jobs'[j].repo # 0) =>
                    \E r \in repos : r.id = jobs'[j].repo /\ r.url = jobs'[j].tree
    <3>1. CASE j = l + 1
      BY <3>1, <1>2, <1>3, <1>4, <1>5, <1>6
    <3>2. CASE j \in 1..l
      <4>1. jobs'[j] = jobs[j] /\ j \in 1..Len(jobs)
        BY <3>2, <1>2, <1>5, <1>6
      <4> QED
        BY <4>1 DEF BenchInv, JobsOK
    <3> QED
      BY <1>7, <3>1, <3>2
  <2> QED
    BY <2>1, <1>2, <1>3, <1>5, <1>6 DEF JobsOK
<1>9. AskingsOK' /\ RowsOK'
  BY <1>2, IdleAsks, AskingMoves
<1>10. OneSession'
  BY <1>2, IdleAsks, SessionKept
<1> QED
  BY <1>2, <1>8, <1>9, <1>10 DEF BenchInv, Bench!NoLostSetting

\* A job is given its worktree, or is left with a branch only.
LEMMA JobMoves ==
  ASSUME JobsOK, UNCHANGED <<sessions, repos>>, NEW j \in DOMAIN jobs, NEW y \in Jobs,
         jobs' = [jobs EXCEPT ![j] = y], y.session = jobs[j].session, y.repo = jobs[j].repo,
         (y.tree # Bench!Unset /\ y.repo # 0) => \E r \in repos : r.id = y.repo /\ r.url = y.tree
  PROVE  JobsOK'
<1>1. PICK q \in Seq(Jobs), l \in Nat : q = jobs /\ l = Len(q) /\ j \in 1..l
  BY DEF JobsOK
<1>2. PICK s : s = [q EXCEPT ![j] = y]
  OBVIOUS
<1>3. s \in Seq(Jobs) /\ Len(s) = l /\ s[j] = y /\ \A i \in (1..l) \ {j} : s[i] = q[i]
  BY <1>1, <1>2
<1>4. ASSUME NEW i \in 1..l
      PROVE  /\ s[i].session \in 1..sessions /\ s[i].repo <= Cardinality(repos)
             /\ (s[i].tree # Bench!Unset /\ s[i].repo # 0) =>
                  \E r \in repos : r.id = s[i].repo /\ r.url = s[i].tree
  <2>1. CASE i = j
    BY <2>1, <1>1, <1>3 DEF JobsOK
  <2>2. CASE i # j
    BY <2>2, <1>1, <1>3 DEF JobsOK
  <2> QED
    BY <2>1, <2>2
<1> QED
  BY <1>1, <1>2, <1>3, <1>4 DEF JobsOK

LEMMA JobFields ==
  ASSUME NEW x \in Jobs, NEW t \in Urls \cup {Bench!Unset, "default"}
  PROVE  /\ [x EXCEPT !.tree = t, !.branch = TRUE] \in Jobs /\ [x EXCEPT !.branch = TRUE] \in Jobs
         /\ [x EXCEPT !.tree = t, !.branch = TRUE].session = x.session
         /\ [x EXCEPT !.tree = t, !.branch = TRUE].repo = x.repo
         /\ [x EXCEPT !.tree = t, !.branch = TRUE].tree = t
         /\ [x EXCEPT !.branch = TRUE].session = x.session
         /\ [x EXCEPT !.branch = TRUE].repo = x.repo /\ [x EXCEPT !.branch = TRUE].tree = x.tree
<1>1. [x EXCEPT !.tree = t, !.branch = TRUE] \in Jobs /\ [x EXCEPT !.branch = TRUE] \in Jobs
  BY DEF Jobs
<1>2. /\ [x EXCEPT !.tree = t, !.branch = TRUE].session = x.session
      /\ [x EXCEPT !.tree = t, !.branch = TRUE].repo = x.repo
      /\ [x EXCEPT !.tree = t, !.branch = TRUE].tree = t
  BY DEF Jobs
<1>3. /\ [x EXCEPT !.branch = TRUE].session = x.session
      /\ [x EXCEPT !.branch = TRUE].repo = x.repo /\ [x EXCEPT !.branch = TRUE].tree = x.tree
  BY DEF Jobs
<1> QED
  BY <1>1, <1>2, <1>3

LEMMA WorktreeStep ==
  ASSUME BenchInv, NEW j \in DOMAIN jobs, Bench!AllocateWorktree(j)
  PROVE  BenchInv'
<1>1. PICK x \in Jobs : x = jobs[j] /\ x.repo <= Cardinality(repos)
  BY DEF BenchInv, JobsOK
<1>2. PICK t : t = Bench!Source(j)
  OBVIOUS
<1>3. /\ t \in Urls \cup {Bench!Unset, "default"}
      /\ x.repo # 0 => \E r \in repos : r.id = x.repo /\ r.url = t
  <2>1. CASE Bench!Row(x.repo) = {}
    <3>1. t = "default"
      BY <2>1, <1>1, <1>2 DEF Bench!Source
    <3>2. x.repo = 0
      <4>1. x.repo \in Nat /\ Cardinality(repos) \in Nat
        BY <1>1, FS_CardinalityType DEF Jobs, BenchInv, RowsOK
      <4>2. x.repo # 0 => x.repo \in 1..Cardinality(repos)
        BY <4>1, <1>1
      <4> QED
        BY <4>2, <2>1 DEF BenchInv, RowsOK, Bench!Row
    <3> QED
      BY <3>1, <3>2
  <2>2. CASE Bench!Row(x.repo) # {}
    <3>1. PICK r : r = CHOOSE s \in Bench!Row(x.repo) : TRUE
      OBVIOUS
    <3>2. r \in Bench!Row(x.repo)
      BY <2>2, <3>1
    <3>3. t = r.url
      BY <2>2, <3>1, <1>1, <1>2 DEF Bench!Source
    <3> QED
      BY <3>2, <3>3 DEF Bench!Row, BenchInv, RowsOK
  <2> QED
    BY <2>1, <2>2
<1>4. PICK y : y = [x EXCEPT !.tree = t, !.branch = TRUE]
  OBVIOUS
<1>5. y \in Jobs /\ y.session = x.session /\ y.repo = x.repo /\ y.tree = t
  BY <1>1, <1>3, <1>4, JobFields
<1>6. /\ jobs' = [jobs EXCEPT ![j] = y]
      /\ UNCHANGED <<doc, disk, repos, sessions, asking, want, filed, crowded>>
  BY <1>1, <1>2, <1>4 DEF Bench!AllocateWorktree
<1>7. JobsOK'
  BY <1>1, <1>3, <1>5, <1>6, JobMoves DEF BenchInv
<1>8. RowsOK' /\ AskingsOK' /\ OneSession'
  BY <1>6 DEF BenchInv, RowsOK, AskingsOK, OneSession
<1> QED
  BY <1>6, <1>7, <1>8 DEF BenchInv, Bench!NoLostSetting

\* The core dies: what is half done is no clone, and no request is left.
LEMMA DieStep ==
  ASSUME BenchInv, BenchAssumptions, NEW half \in BOOLEAN, NEW j, Bench!Die(half, j)
  PROVE  BenchInv'
<1>1. /\ asking' = [c \in Conns |-> Bench!NoCall]
      /\ UNCHANGED <<doc, repos, sessions, want, filed, crowded>>
      /\ DOMAIN disk' = DOMAIN disk
      /\ \A d \in DOMAIN disk : disk'[d] = disk[d] \/ disk[d] = Bench!Unset
  BY DEF Bench!Die
<1>2. DOMAIN disk = {DirOf[x] : x \in Urls}
  BY DEF BenchInv, AskingsOK
<1>3. DiskKept
  <2>1. ASSUME NEW u \in Urls, disk[DirOf[u]] = u PROVE disk'[DirOf[u]] = u
    <3>1. DirOf[u] \in DOMAIN disk /\ u # Bench!Unset
      BY <1>2 DEF BenchAssumptions
    <3> QED
      BY <1>1, <2>1, <3>1
  <2> QED
    BY <1>1, <2>1 DEF DiskKept
<1>4. AskingsOK'
  BY <1>1, <1>2, IdleAsks DEF AskingsOK
<1>5. RowsOK'
  BY <1>1, <1>3 DEF BenchInv, RowsOK, DiskKept
<1>6. OneSession'
  BY <1>1, IdleAsks DEF BenchInv, OneSession
<1>7. JobsOK'
  <2>1. CASE j \in DOMAIN jobs
    <3>1. PICK x \in Jobs : x = jobs[j]
      BY <2>1 DEF BenchInv, JobsOK
    <3>2. PICK y : y = [x EXCEPT !.branch = TRUE]
      OBVIOUS
    <3>3. y \in Jobs /\ y.session = x.session /\ y.repo = x.repo /\ y.tree = x.tree
      BY <3>1, <3>2 DEF Jobs
    <3>4. jobs' = [jobs EXCEPT ![j] = y]
      BY <2>1, <3>1, <3>2 DEF Bench!Die
    <3>5. (y.tree # Bench!Unset /\ y.repo # 0) => \E r \in repos : r.id = y.repo /\ r.url = y.tree
      BY <2>1, <3>1, <3>3 DEF BenchInv, JobsOK
    <3> QED
      BY <1>1, <2>1, <3>1, <3>3, <3>4, <3>5, JobMoves DEF BenchInv
  <2>2. CASE j \notin DOMAIN jobs
    <3>1. jobs' = jobs
      BY <2>2 DEF Bench!Die
    <3> QED
      BY <3>1, <1>1, JobsKept DEF BenchInv
  <2> QED
    BY <2>1, <2>2
<1> QED
  BY <1>1, <1>4, <1>5, <1>6, <1>7 DEF BenchInv, Bench!NoLostSetting

LEMMA BenchStep ==
  ASSUME BenchInv, BenchAssumptions, [Bench!Next]_Bench!benchVars
  PROVE  BenchInv'
<1>1. CASE UNCHANGED Bench!benchVars
  BY <1>1 DEF Bench!benchVars, BenchInv, Bench!NoLostSetting, RowsOK, AskingsOK, JobsOK, OneSession
<1>2. ASSUME NEW c \in Conns,
             \/ \E patch \in Bench!Patches, key \in Secrets \cup {Bench!Unset} : Bench!UpdateSettings(c, patch, key)
             \/ Bench!BindKey(c)
             \/ \E works \in BOOLEAN : Bench!StoreSecret(c, works) \/ Bench!Clone(c, works)
             \/ \E u \in Urls : Bench!RegisterRepo(c, u)
             \/ Bench!RegisterRow(c)
             \/ \E repo \in 0..Cardinality(repos) : Bench!CreateTask(c, repo)
             \/ Bench!EnsureDefaultSession(c) \/ Bench!MintTask(c)
      PROVE  BenchInv'
  <2>1. CASE \E patch \in Bench!Patches, key \in Secrets \cup {Bench!Unset} : Bench!UpdateSettings(c, patch, key)
    BY <2>1, SettingsStep
  <2>2. CASE Bench!BindKey(c)
    BY <2>2, BindStep
  <2>3. CASE \E works \in BOOLEAN : Bench!StoreSecret(c, works)
    BY <2>3, SecretStep
  <2>4. CASE \E works \in BOOLEAN : Bench!Clone(c, works)
    BY <2>4, CloneStep
  <2>5. CASE \E u \in Urls : Bench!RegisterRepo(c, u)
    BY <2>5, RegisterStep
  <2>6. CASE Bench!RegisterRow(c)
    BY <2>6, RowStep
  <2>7. CASE \E repo \in 0..Cardinality(repos) : Bench!CreateTask(c, repo)
    BY <2>7, CreateStep
  <2>8. CASE Bench!EnsureDefaultSession(c)
    BY <2>8, SessionStep
  <2>9. CASE Bench!MintTask(c)
    BY <2>9, MintStep
  <2> QED
    BY <1>2, <2>1, <2>2, <2>3, <2>4, <2>5, <2>6, <2>7, <2>8, <2>9
<1>3. CASE \E j \in DOMAIN jobs : Bench!AllocateWorktree(j)
  BY <1>3, WorktreeStep
<1>4. CASE \E half \in BOOLEAN, j \in {0} \cup DOMAIN jobs : Bench!Die(half, j)
  BY <1>4, DieStep
<1> QED
  BY <1>1, <1>2, <1>3, <1>4, SameRowCount DEF Bench!Next

\* The configuration the surface serves (settings.rs, keychain.rs, repos.rs, scheduler.rs),
\* for any connections, URLs, keys and crashes: no update loses another's field, a key is
\* filed under its own provider or one that was current, a registered repository is a
\* complete clone of its own URL and a run works in the one its task names, and tasks
\* share one default session unless two first requests overlapped.
THEOREM WorkbenchIsSound == BenchAssumptions => (Bench!BenchSpec => []Bench!BenchSound)
<1> SUFFICES ASSUME BenchAssumptions PROVE Bench!BenchSpec => []Bench!BenchSound
  OBVIOUS
<1>1. Bench!Init => BenchInv
  BY BenchStart
<1>2. BenchInv /\ [Bench!Next]_Bench!benchVars => BenchInv'
  BY BenchStep
<1>3. BenchInv => Bench!BenchSound
  BY BenchInvImplies
<1> QED
  BY <1>1, <1>2, <1>3, PTL DEF Bench!BenchSpec
=============================================================================
