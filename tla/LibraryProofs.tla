--------------------------- MODULE LibraryProofs ---------------------------
(***************************************************************************)
(* The libraries that say who may do what: the credential broker hands out *)
(* values under standing leases only, and of those who ask for control of  *)
(* a scope, a browser or a machine only the one in control gets through.   *)
(* With them the agent fleet and its journal, the capacity tickets of its  *)
(* admission library, the approvals of the policy crate, and the guest of  *)
(* a sandbox.                                                              *)
(*                                                                         *)
(* The properties of the broker are not inductive: that a lease which is   *)
(* still live has no revocation in the audit needs to know that the rows   *)
(* of the audit name leases of their own task, and that a current caller   *)
(* gets a value through a lease of its own generation needs to know that   *)
(* no lease is ahead of the work.  CredInv adds both.  What the properties *)
(* of control need is said at FencerInv, HandInv and HumanInv.             *)
(***************************************************************************)
EXTENDS CredentialLeases, FiniteSetTheorems, SequenceTheorems, WellFoundedInduction, TLAPS

Kinds == {"issue", "revoke", "materialize", "denied-unknown", "denied-revoked", "denied-expired",
          "denied-task-mismatch", "denied-fenced", "denied-scope"}
AuditRows == [kind : Kinds, lease : Nat, task : Tasks]
LeaseRecords == [secret : Refs, task : Tasks, gen : Nat, scopes : SUBSET Scopes, expires : Nat,
                 live : BOOLEAN]
HandedRecords == [lease : Nat, task : Tasks, gen : Nat, work : Nat, scope : Scopes, time : Nat,
                  at : Nat]

CredTypes ==
  /\ secrets \subseteq Refs
  /\ leases \in Seq(LeaseRecords)
  /\ audit \in Seq(AuditRows)
  /\ now \in Nat
  /\ work \in [Tasks -> Nat]
  /\ handed \subseteq HandedRecords

\* No lease is ahead of the work it was issued for, and its issue is in the audit.
LeasesIssued ==
  \A l \in DOMAIN leases :
    /\ leases[l].gen <= work[leases[l].task]
    /\ \E k \in DOMAIN audit : audit[k] = Row("issue", l, leases[l].task)

\* A revocation in the audit names a lease, and its task.
RevocationsNamed ==
  \A k \in DOMAIN audit :
    audit[k].kind = "revoke" => /\ audit[k].lease \in DOMAIN leases
                                /\ audit[k].task = leases[audit[k].lease].task

HandedKnown == \A h \in handed : h.lease \in DOMAIN leases /\ h.at \in DOMAIN audit

CredInv == CredTypes /\ LeasesIssued /\ RevocationsNamed /\ HandedKnown /\ CredentialsSound

-----------------------------------------------------------------------------
\* What every step of the broker leaves alone: the audit only grows, and a lease
\* keeps all but its authority.
Grows == /\ Len(audit) <= Len(audit')
         /\ \A k \in DOMAIN audit : audit'[k] = audit[k]
Keeps == /\ Len(leases) <= Len(leases')
         /\ \A l \in DOMAIN leases :
              /\ leases'[l].task = leases[l].task /\ leases'[l].gen = leases[l].gen
              /\ leases'[l].scopes = leases[l].scopes /\ leases'[l].expires = leases[l].expires
Advances == \A t \in Tasks : work[t] <= work'[t]

\* The initial state of a new broker satisfies the invariant.
LEMMA CredInitial == Init => CredInv
BY DEF Init, CredInv, CredTypes, LeasesIssued, RevocationsNamed, HandedKnown, CredentialsSound,
       RevocationIsFinal, CurrentCallersOnly, AuditComplete, BlastRadius

\* The verdict of materialize is a kind of the audit, and "materialize" only for a
\* lease that passes every check.
LEMMA VerdictChecks ==
  ASSUME NEW l, NEW t, NEW gen, NEW scope
  PROVE  /\ Verdict(l, t, gen, scope) \in Kinds \ {"issue", "revoke"}
         /\ Verdict(l, t, gen, scope) = "materialize" =>
              /\ leases[l].live /\ ~(now >= leases[l].expires) /\ leases[l].task = t
              /\ ~(leases[l].gen < gen) /\ scope \in leases[l].scopes
BY DEF Verdict, Kinds

\* What was handed out before a step is as sound after it.
LEMMA HandedKeep ==
  ASSUME CredInv, CredTypes', Grows, Keeps, NEW h \in handed
  PROVE  /\ h.lease \in DOMAIN leases' /\ h.at \in DOMAIN audit'
         /\ leases'[h.lease].task = h.task /\ h.scope \in leases'[h.lease].scopes
         /\ h.time < leases'[h.lease].expires
         /\ \A k \in 1..h.at : audit'[k].kind = "revoke" => audit'[k].lease # h.lease
         /\ h.gen = h.work => leases'[h.lease].gen = h.work
         /\ audit'[h.at] = Row("materialize", h.lease, h.task)
         /\ \E k \in 1..h.at : audit'[k] = Row("issue", h.lease, h.task)
  <1>1. h.lease \in DOMAIN leases /\ h.at \in DOMAIN audit
    BY DEF CredInv, HandedKnown
  <1>2. \A k \in 1..h.at : k \in DOMAIN audit
    BY <1>1 DEF CredInv, CredTypes
  <1>3. h.lease \in DOMAIN leases' /\ h.at \in DOMAIN audit'
    BY <1>1 DEF CredInv, CredTypes, Grows, Keeps
  <1>4. /\ leases'[h.lease].task = h.task /\ h.scope \in leases'[h.lease].scopes
        /\ h.time < leases'[h.lease].expires
        /\ h.gen = h.work => leases'[h.lease].gen = h.work
    BY <1>1 DEF CredInv, CredentialsSound, RevocationIsFinal, CurrentCallersOnly, Keeps
  <1>5. \A k \in 1..h.at : audit'[k].kind = "revoke" => audit'[k].lease # h.lease
    BY <1>2 DEF CredInv, CredentialsSound, RevocationIsFinal, Grows
  <1>6. /\ audit'[h.at] = Row("materialize", h.lease, h.task)
        /\ \E k \in 1..h.at : audit'[k] = Row("issue", h.lease, h.task)
    BY <1>1, <1>2 DEF CredInv, CredentialsSound, AuditComplete, Grows
  <1>7. QED
    BY <1>3, <1>4, <1>5, <1>6

\* The leases there were before a step keep their issue, behind a work that only
\* advances.
LEMMA IssuedKeep ==
  ASSUME CredInv, CredTypes', Grows, Keeps, Advances, NEW l \in DOMAIN leases
  PROVE  /\ leases'[l].gen <= work'[leases'[l].task]
         /\ \E k \in DOMAIN audit' : audit'[k] = Row("issue", l, leases'[l].task)
  <1>0. leases[l] \in LeaseRecords
    BY DEF CredInv, CredTypes
  <1>1. leases[l].task \in Tasks /\ leases[l].gen \in Nat
    BY <1>0 DEF LeaseRecords
  <1>2. /\ leases[l].gen <= work[leases[l].task]
        /\ work[leases[l].task] <= work'[leases[l].task]
        /\ work[leases[l].task] \in Nat /\ work'[leases[l].task] \in Nat
    BY <1>1 DEF CredInv, CredTypes, LeasesIssued, Advances
  <1>3. leases'[l].gen <= work'[leases'[l].task]
    BY <1>1, <1>2 DEF Keeps
  <1>4. PICK k \in DOMAIN audit : audit[k] = Row("issue", l, leases[l].task)
    BY DEF CredInv, LeasesIssued
  <1>5. k \in DOMAIN audit' /\ audit'[k] = Row("issue", l, leases'[l].task)
    BY <1>4 DEF CredInv, CredTypes, Grows, Keeps
  <1>6. QED
    BY <1>3, <1>5

\* A step that hands nothing out and writes no row of a value leaves the history of
\* values sound.
LEMMA QuietKeep ==
  ASSUME CredInv, CredTypes', Grows, Keeps, handed' = handed,
         \A i \in DOMAIN audit' : i \notin DOMAIN audit => audit'[i].kind # "materialize"
  PROVE  HandedKnown' /\ RevocationIsFinal' /\ CurrentCallersOnly' /\ AuditComplete'
  <1>1. HandedKnown' /\ RevocationIsFinal' /\ CurrentCallersOnly'
    BY HandedKeep DEF HandedKnown, RevocationIsFinal, CurrentCallersOnly
  <1>2. ASSUME NEW i \in DOMAIN audit', audit'[i].kind = "materialize"
        PROVE  \E h \in handed' : h.at = i
    <2>1. i \in DOMAIN audit
      BY <1>2
    <2>2. audit[i].kind = "materialize"
      BY <1>2, <2>1 DEF Grows
    <2>3. QED
      BY <2>1, <2>2 DEF CredInv, CredentialsSound, AuditComplete
  <1>3. AuditComplete'
    BY HandedKeep, <1>2 DEF AuditComplete, Row
  <1>4. QED
    BY <1>1, <1>3

\* Revocations stay named if the new ones are.
LEMMA NamedKeep ==
  ASSUME CredInv, CredTypes', Grows, Keeps,
         \A k \in DOMAIN audit' : k \notin DOMAIN audit /\ audit'[k].kind = "revoke" =>
            audit'[k].lease \in DOMAIN leases' /\ audit'[k].task = leases'[audit'[k].lease].task
  PROVE  RevocationsNamed'
  <1>1. SUFFICES ASSUME NEW k \in DOMAIN audit', audit'[k].kind = "revoke", k \in DOMAIN audit
                 PROVE  /\ audit'[k].lease \in DOMAIN leases'
                        /\ audit'[k].task = leases'[audit'[k].lease].task
    BY DEF RevocationsNamed
  <1>2. /\ audit'[k].lease \in DOMAIN leases
        /\ audit'[k].task = leases[audit'[k].lease].task
    BY <1>1 DEF CredInv, RevocationsNamed, Grows
  <1>3. QED
    BY <1>2 DEF CredInv, CredTypes, Keeps

\* A step that changes no lease and records no revocation leaves the two in step.
LEMMA BlastKeep ==
  ASSUME CredInv, CredTypes', Grows, leases' = leases,
         \A k \in DOMAIN audit' : k \notin DOMAIN audit => audit'[k].kind # "revoke"
  PROVE  BlastRadius'
  <1>1. SUFFICES ASSUME NEW l \in DOMAIN leases
                 PROVE  ~leases[l].live <=>
                          \E k \in DOMAIN audit' : audit'[k] = Row("revoke", l, leases[l].task)
    BY DEF BlastRadius
  <1>2. ~leases[l].live <=>
          \E k \in DOMAIN audit : audit[k] = Row("revoke", l, leases[l].task)
    BY DEF CredInv, CredentialsSound, BlastRadius
  <1>3. ASSUME NEW k \in DOMAIN audit, audit[k] = Row("revoke", l, leases[l].task)
        PROVE  k \in DOMAIN audit' /\ audit'[k] = Row("revoke", l, leases[l].task)
    BY <1>3 DEF CredInv, CredTypes, Grows
  <1>4. ASSUME NEW k \in DOMAIN audit', audit'[k] = Row("revoke", l, leases[l].task)
        PROVE  k \in DOMAIN audit /\ audit[k] = Row("revoke", l, leases[l].task)
    BY <1>4 DEF Row, Grows
  <1>5. QED
    BY <1>2, <1>3, <1>4

-----------------------------------------------------------------------------
(* One lemma per operation that writes the audit                           *)

\* A row appended to the audit.
LEMMA AppendGrows ==
  ASSUME CredInv, NEW row \in AuditRows, audit' = Append(audit, row)
  PROVE  /\ audit' \in Seq(AuditRows) /\ Grows
         /\ Len(audit') = Len(audit) + 1 /\ audit'[Len(audit) + 1] = row
         /\ \A k \in DOMAIN audit' : k \notin DOMAIN audit => k = Len(audit) + 1
BY DEF CredInv, CredTypes, Grows

\* The clock and the advance of a task's work touch neither leases nor audit, and
\* register only adds a reference.
LEMMA TickKeeps ==
  ASSUME CredInv, Tick \/ (\E r \in Refs : Register(r)) \/ (\E t \in Tasks : Advance(t))
  PROVE  CredInv'
  <1>1. CredTypes'
    BY DEF CredInv, CredTypes, Register, Tick, Advance
  <1>2. leases' = leases /\ audit' = audit /\ handed' = handed
    BY DEF Register, Tick, Advance
  <1>3. Grows /\ Keeps
    BY <1>2 DEF CredInv, CredTypes, Grows, Keeps
  <1>4. Advances
    BY DEF CredInv, CredTypes, Register, Tick, Advance, Advances
  <1>5. LeasesIssued'
    BY <1>1, <1>2, <1>3, <1>4, IssuedKeep DEF LeasesIssued
  <1>6. HandedKnown' /\ RevocationIsFinal' /\ CurrentCallersOnly' /\ AuditComplete'
    BY <1>1, <1>2, <1>3, QuietKeep
  <1>7. RevocationsNamed'
    BY <1>1, <1>2, <1>3, NamedKeep
  <1>8. BlastRadius'
    BY <1>1, <1>2, <1>3, BlastKeep
  <1>9. QED
    BY <1>1, <1>5, <1>6, <1>7, <1>8 DEF CredInv, CredentialsSound

\* materialize of an unknown handle writes a row and nothing else.
LEMMA UnknownKeeps ==
  ASSUME CredInv, NEW t \in Tasks, MaterializeUnknown(t)
  PROVE  CredInv'
  <1>1. Row("denied-unknown", 0, t) \in AuditRows
    BY DEF Row, AuditRows, Kinds
  <1>2. /\ audit' \in Seq(AuditRows) /\ Grows
        /\ \A k \in DOMAIN audit' : k \notin DOMAIN audit => audit'[k].kind = "denied-unknown"
    BY <1>1, AppendGrows DEF MaterializeUnknown, Row
  <1>3. CredTypes'
    BY <1>2 DEF CredInv, CredTypes, MaterializeUnknown
  <1>4. leases' = leases /\ handed' = handed /\ work' = work
    BY DEF MaterializeUnknown
  <1>5. Keeps /\ Advances
    BY <1>4 DEF CredInv, CredTypes, Keeps, Advances
  <1>6. LeasesIssued'
    BY <1>2, <1>3, <1>4, <1>5, IssuedKeep DEF LeasesIssued
  <1>7. HandedKnown' /\ RevocationIsFinal' /\ CurrentCallersOnly' /\ AuditComplete'
    BY <1>2, <1>3, <1>4, <1>5, QuietKeep
  <1>8. RevocationsNamed'
    BY <1>2, <1>3, <1>5, NamedKeep
  <1>9. BlastRadius'
    BY <1>2, <1>3, <1>4, BlastKeep
  <1>10. QED
    BY <1>3, <1>6, <1>7, <1>8, <1>9 DEF CredInv, CredentialsSound

\* issue_lease: a fresh lease, which no revocation can name yet.
LEMMA IssueKeeps ==
  ASSUME CredInv, NEW r \in Refs, NEW t \in Tasks, NEW scopes \in SUBSET Scopes, NEW ttl \in Nat,
         IssueLease(r, t, scopes, ttl)
  PROVE  CredInv'
  <1> DEFINE n     == Len(leases) + 1
             lease == [secret |-> r, task |-> t, gen |-> work[t], scopes |-> scopes,
                       expires |-> now + ttl, live |-> TRUE]
  <1>1. Row("issue", n, t) \in AuditRows
    BY DEF CredInv, CredTypes, Row, AuditRows, Kinds
  <1>2. /\ audit' \in Seq(AuditRows) /\ Grows
        /\ Len(audit) + 1 \in DOMAIN audit' /\ audit'[Len(audit) + 1] = Row("issue", n, t)
        /\ \A k \in DOMAIN audit' : k \notin DOMAIN audit => audit'[k].kind = "issue"
    <2>1. audit' = Append(audit, Row("issue", n, t))
      BY DEF IssueLease
    <2>2. Len(audit) \in Nat
      BY DEF CredInv, CredTypes
    <2>3. QED
      BY <1>1, <2>1, <2>2, AppendGrows DEF Row
  <1>3. lease \in LeaseRecords
    BY DEF CredInv, CredTypes, LeaseRecords
  <1>4. leases' = Append(leases, lease)
    BY DEF IssueLease
  <1>5. /\ leases' \in Seq(LeaseRecords) /\ n \in DOMAIN leases' /\ leases'[n] = lease
        /\ \A l \in DOMAIN leases' : l = n \/ l \in DOMAIN leases
        /\ \A l \in DOMAIN leases : leases'[l] = leases[l]
        /\ Len(leases) <= Len(leases')
    BY <1>3, <1>4 DEF CredInv, CredTypes
  <1>6. CredTypes' /\ handed' = handed /\ work' = work
    BY <1>2, <1>5 DEF CredInv, CredTypes, IssueLease
  <1>7. Keeps /\ Advances
    BY <1>5, <1>6 DEF CredInv, CredTypes, Keeps, Advances
  <1>8. LeasesIssued'
    <2>1. /\ leases'[n].gen <= work'[leases'[n].task]
          /\ \E k \in DOMAIN audit' : audit'[k] = Row("issue", n, leases'[n].task)
      BY <1>2, <1>5, <1>6 DEF CredInv, CredTypes
    <2>2. QED
      BY <2>1, <1>2, <1>5, <1>6, <1>7, IssuedKeep DEF LeasesIssued
  <1>9. HandedKnown' /\ RevocationIsFinal' /\ CurrentCallersOnly' /\ AuditComplete'
    BY <1>2, <1>6, <1>7, QuietKeep
  <1>10. RevocationsNamed'
    BY <1>2, <1>6, <1>7, NamedKeep
  <1>11. BlastRadius'
    <2>1. ASSUME NEW k \in DOMAIN audit', audit'[k].kind = "revoke"
          PROVE  k \in DOMAIN audit /\ audit[k] = audit'[k] /\ audit[k].lease \in DOMAIN leases
      BY <1>2, <2>1 DEF CredInv, RevocationsNamed, Grows
    <2>2. n \notin DOMAIN leases
      BY DEF CredInv, CredTypes
    <2>3. ~\E k \in DOMAIN audit' : audit'[k] = Row("revoke", n, leases'[n].task)
      BY <2>1, <2>2 DEF Row
    <2>4. ASSUME NEW l \in DOMAIN leases
          PROVE  ~leases'[l].live <=>
                   \E k \in DOMAIN audit' : audit'[k] = Row("revoke", l, leases'[l].task)
      <3>1. leases'[l] = leases[l]
        BY <1>5
      <3>2. ~leases[l].live <=>
              \E k \in DOMAIN audit : audit[k] = Row("revoke", l, leases[l].task)
        BY DEF CredInv, CredentialsSound, BlastRadius
      <3>3. ASSUME NEW k \in DOMAIN audit
            PROVE  k \in DOMAIN audit' /\ audit'[k] = audit[k]
        BY <1>2 DEF CredInv, CredTypes, Grows
      <3>4. QED
        BY <2>1, <3>1, <3>2, <3>3 DEF Row
    <2>5. leases'[n].live = TRUE
      BY <1>5
    <2>6. QED
      BY <1>5, <2>3, <2>4, <2>5 DEF BlastRadius
  <1>12. QED
    BY <1>6, <1>8, <1>9, <1>10, <1>11 DEF CredInv, CredentialsSound

\* materialize: a value leaves under a lease that is live, so that no revocation of it
\* is in the audit, and that passed every other check.
LEMMA MaterializeKeeps ==
  ASSUME CredInv, NEW l \in Nat, NEW t \in Tasks, NEW gen \in Nat, NEW scope \in Scopes,
         Materialize(l, t, gen, scope)
  PROVE  CredInv'
  <1> DEFINE kind == Verdict(l, t, gen, scope)
             n    == Len(audit) + 1
             new  == [lease |-> l, task |-> t, gen |-> gen, work |-> work[t], scope |-> scope,
                      time |-> now, at |-> n]
  <1>0. kind \in Kinds \ {"issue", "revoke"}
    BY VerdictChecks
  <1>1. l \in DOMAIN leases /\ leases[l] \in LeaseRecords /\ n \in Nat
    BY DEF CredInv, CredTypes, Materialize
  <1>2. leases[l].task \in Tasks /\ leases[l].gen \in Nat /\ leases[l].expires \in Nat
    BY <1>1 DEF LeaseRecords
  <1>3. Row(kind, l, leases[l].task) \in AuditRows
    BY <1>0, <1>2 DEF Row, AuditRows
  <1>4. audit' = Append(audit, Row(kind, l, leases[l].task))
    BY DEF Materialize
  <1>5. /\ audit' \in Seq(AuditRows) /\ Grows
        /\ n \in DOMAIN audit' /\ audit'[n] = Row(kind, l, leases[l].task)
        /\ \A k \in DOMAIN audit' : k \notin DOMAIN audit => k = n
    BY <1>1, <1>3, <1>4, AppendGrows
  <1>6. leases' = leases /\ work' = work /\ now' = now /\ secrets' = secrets
    BY DEF Materialize
  <1>7. new \in HandedRecords
    BY <1>1 DEF CredInv, CredTypes, HandedRecords
  <1>8. handed' = IF kind # "materialize" THEN handed ELSE handed \cup {new}
    BY DEF Materialize
  <1>9. CredTypes'
    BY <1>5, <1>6, <1>7, <1>8 DEF CredInv, CredTypes
  <1>10. Keeps /\ Advances
    BY <1>6 DEF CredInv, CredTypes, Keeps, Advances
  <1>11. LeasesIssued'
    BY <1>5, <1>6, <1>9, <1>10, IssuedKeep DEF LeasesIssued
  <1>12. RevocationsNamed' /\ BlastRadius'
    <2>1. \A k \in DOMAIN audit' : k \notin DOMAIN audit => audit'[k].kind # "revoke"
      BY <1>0, <1>5 DEF Row
    <2>2. QED
      BY <2>1, <1>5, <1>6, <1>9, <1>10, NamedKeep, BlastKeep
  <1>13. HandedKnown' /\ RevocationIsFinal' /\ CurrentCallersOnly' /\ AuditComplete'
    <2>1. CASE kind # "materialize"
      <3>1. handed' = handed
        BY <1>8, <2>1
      <3>2. \A i \in DOMAIN audit' : i \notin DOMAIN audit => audit'[i].kind # "materialize"
        BY <1>5, <2>1 DEF Row
      <3>3. QED
        BY <3>1, <3>2, <1>5, <1>9, <1>10, QuietKeep
    <2>2. CASE kind = "materialize"
      <3>1. /\ leases[l].live /\ now < leases[l].expires /\ leases[l].task = t
            /\ gen <= leases[l].gen /\ scope \in leases[l].scopes
        BY <1>1, <1>2, <2>2, VerdictChecks DEF CredInv, CredTypes
      <3>2. gen = work[t] => leases[l].gen = work[t]
        BY <1>1, <1>2, <3>1 DEF CredInv, CredTypes, LeasesIssued
      <3>3. \A k \in DOMAIN audit : audit[k].kind = "revoke" => audit[k].lease # l
        <4>1. SUFFICES ASSUME NEW k \in DOMAIN audit, audit[k].kind = "revoke", audit[k].lease = l
                       PROVE  FALSE
          OBVIOUS
        <4>2. audit[k] \in AuditRows /\ audit[k].task = leases[l].task
          BY <4>1 DEF CredInv, CredTypes, RevocationsNamed
        <4>3. audit[k] = Row("revoke", l, leases[l].task)
          BY <4>1, <4>2 DEF AuditRows, Row
        <4>4. ~leases[l].live
          BY <1>1, <4>3 DEF CredInv, CredentialsSound, BlastRadius
        <4>5. QED
          BY <3>1, <4>4
      <3>4. \A k \in 1..n : k = n \/ (k \in DOMAIN audit /\ audit'[k] = audit[k])
        BY <1>5 DEF CredInv, CredTypes, Grows
      <3>5. audit'[n] = Row("materialize", l, t)
        BY <1>5, <2>2, <3>1
      <3>6. PICK j \in DOMAIN audit : audit[j] = Row("issue", l, t)
        BY <1>1, <3>1 DEF CredInv, LeasesIssued
      <3>7. j \in 1..n /\ audit'[j] = Row("issue", l, t)
        BY <3>6, <1>5 DEF CredInv, CredTypes, Grows
      <3>8. /\ new.lease \in DOMAIN leases' /\ new.at \in DOMAIN audit'
            /\ leases'[new.lease].task = new.task /\ new.scope \in leases'[new.lease].scopes
            /\ new.time < leases'[new.lease].expires
            /\ \A k \in 1..new.at : audit'[k].kind = "revoke" => audit'[k].lease # new.lease
            /\ new.gen = new.work => leases'[new.lease].gen = new.work
            /\ audit'[new.at] = Row("materialize", new.lease, new.task)
            /\ \E k \in 1..new.at : audit'[k] = Row("issue", new.lease, new.task)
        <4>1. /\ new.lease \in DOMAIN leases' /\ new.at \in DOMAIN audit'
              /\ leases'[new.lease].task = new.task /\ new.scope \in leases'[new.lease].scopes
              /\ new.time < leases'[new.lease].expires
              /\ new.gen = new.work => leases'[new.lease].gen = new.work
          BY <1>1, <1>5, <1>6, <3>1, <3>2
        <4>2. \A k \in 1..n : audit'[k].kind = "revoke" => audit'[k].lease # l
          BY <3>3, <3>4, <3>5 DEF Row
        <4>3. QED
          BY <4>1, <4>2, <3>5, <3>7
      <3>9. handed' = handed \cup {new}
        BY <1>8, <2>2
      <3>10. HandedKnown' /\ RevocationIsFinal' /\ CurrentCallersOnly'
        BY <1>5, <1>9, <1>10, <3>8, <3>9, HandedKeep
           DEF HandedKnown, RevocationIsFinal, CurrentCallersOnly
      <3>11. ASSUME NEW i \in DOMAIN audit', audit'[i].kind = "materialize"
             PROVE  \E h \in handed' : h.at = i
        <4>1. CASE i \in DOMAIN audit
          <5>1. audit[i].kind = "materialize"
            BY <4>1, <3>11, <1>5 DEF Grows
          <5>2. QED
            BY <4>1, <5>1, <3>9 DEF CredInv, CredentialsSound, AuditComplete
        <4>2. CASE i = n
          <5>1. new.at = i /\ new \in handed'
            BY <4>2, <3>9
          <5>2. QED
            BY <5>1
        <4>3. QED
          BY <4>1, <4>2, <1>5
      <3>12. AuditComplete'
        BY <1>5, <1>9, <1>10, <3>8, <3>9, <3>11, HandedKeep DEF AuditComplete, Row
      <3>13. QED
        BY <3>10, <3>12
    <2>3. QED
      BY <2>1, <2>2
  <1>14. QED
    BY <1>9, <1>11, <1>12, <1>13 DEF CredInv, CredentialsSound

\* revoke: the lease loses its authority, and the audit says so.
LEMMA RevokeKeeps ==
  ASSUME CredInv, NEW x \in Nat, Revoke(x)
  PROVE  CredInv'
  <1>1. x \in DOMAIN leases /\ leases[x] \in LeaseRecords
    BY DEF CredInv, CredTypes, Revoke
  <1>2. leases[x].task \in Tasks
    BY <1>1 DEF LeaseRecords
  <1>3. Row("revoke", x, leases[x].task) \in AuditRows
    BY <1>2 DEF Row, AuditRows, Kinds
  <1>4. audit' = Append(audit, Row("revoke", x, leases[x].task))
    BY DEF Revoke
  <1>5. /\ audit' \in Seq(AuditRows) /\ Grows
        /\ Len(audit) + 1 \in DOMAIN audit'
        /\ audit'[Len(audit) + 1] = Row("revoke", x, leases[x].task)
        /\ \A k \in DOMAIN audit' :
             k \notin DOMAIN audit => audit'[k] = Row("revoke", x, leases[x].task)
    <2>1. Len(audit) \in Nat
      BY DEF CredInv, CredTypes
    <2>2. QED
      BY <1>3, <1>4, <2>1, AppendGrows
  <1>6. leases' = [leases EXCEPT ![x] = [leases[x] EXCEPT !.live = FALSE]]
    BY DEF Revoke
  <1>7. [leases[x] EXCEPT !.live = FALSE] \in LeaseRecords
    BY <1>1 DEF LeaseRecords
  <1>8. /\ leases' \in Seq(LeaseRecords) /\ DOMAIN leases' = DOMAIN leases
        /\ Len(leases') = Len(leases)
        /\ leases'[x] = [leases[x] EXCEPT !.live = FALSE]
        /\ \A l \in DOMAIN leases : l # x => leases'[l] = leases[l]
    BY <1>1, <1>6, <1>7 DEF CredInv, CredTypes
  <1>9. CredTypes' /\ handed' = handed /\ work' = work
    BY <1>5, <1>8 DEF CredInv, CredTypes, Revoke
  <1>10. /\ leases'[x].task = leases[x].task /\ leases'[x].gen = leases[x].gen
         /\ leases'[x].scopes = leases[x].scopes /\ leases'[x].expires = leases[x].expires
         /\ leases'[x].live = FALSE
    BY <1>1, <1>8 DEF LeaseRecords
  <1>11. Keeps /\ Advances
    <2>1. Advances
      BY <1>9 DEF CredInv, CredTypes, Advances
    <2>2. Len(leases) <= Len(leases')
      BY <1>8 DEF CredInv, CredTypes
    <2>3. ASSUME NEW l \in DOMAIN leases
          PROVE  /\ leases'[l].task = leases[l].task /\ leases'[l].gen = leases[l].gen
                 /\ leases'[l].scopes = leases[l].scopes
                 /\ leases'[l].expires = leases[l].expires
      <3>1. CASE l = x
        BY <1>10, <3>1
      <3>2. CASE l # x
        BY <1>8, <3>2
      <3>3. QED
        BY <3>1, <3>2
    <2>4. QED
      BY <2>1, <2>2, <2>3 DEF Keeps
  <1>12. LeasesIssued'
    BY <1>5, <1>8, <1>9, <1>11, IssuedKeep DEF LeasesIssued
  <1>13. HandedKnown' /\ RevocationIsFinal' /\ CurrentCallersOnly' /\ AuditComplete'
    <2>1. \A i \in DOMAIN audit' : i \notin DOMAIN audit => audit'[i].kind # "materialize"
      BY <1>5 DEF Row
    <2>2. QED
      BY <2>1, <1>5, <1>9, <1>11, QuietKeep
  <1>14. RevocationsNamed'
    <2>1. ASSUME NEW k \in DOMAIN audit', k \notin DOMAIN audit
          PROVE  audit'[k].lease \in DOMAIN leases' /\ audit'[k].task = leases'[audit'[k].lease].task
      <3>1. audit'[k].lease = x /\ audit'[k].task = leases[x].task
        BY <1>5, <2>1 DEF Row
      <3>2. QED
        BY <1>1, <1>8, <1>10, <3>1
    <2>2. QED
      BY <2>1, <1>5, <1>9, <1>11, NamedKeep
  <1>15. BlastRadius'
    <2>1. ASSUME NEW k \in DOMAIN audit
          PROVE  k \in DOMAIN audit' /\ audit'[k] = audit[k]
      BY <1>5 DEF CredInv, CredTypes, Grows
    <2>2. ASSUME NEW l \in DOMAIN leases, l # x
          PROVE  ~leases'[l].live <=>
                   \E k \in DOMAIN audit' : audit'[k] = Row("revoke", l, leases'[l].task)
      <3>1. leases'[l] = leases[l]
        BY <1>8, <2>2
      <3>2. ~leases[l].live <=>
              \E k \in DOMAIN audit : audit[k] = Row("revoke", l, leases[l].task)
        BY DEF CredInv, CredentialsSound, BlastRadius
      <3>3. ASSUME NEW k \in DOMAIN audit', audit'[k] = Row("revoke", l, leases[l].task)
            PROVE  k \in DOMAIN audit
        BY <1>5, <2>2, <3>3 DEF Row
      <3>4. QED
        BY <2>1, <3>1, <3>2, <3>3
    <2>3. /\ leases'[x].live = FALSE
          /\ audit'[Len(audit) + 1] = Row("revoke", x, leases'[x].task)
      BY <1>5, <1>10
    <2>4. QED
      BY <1>5, <1>8, <2>2, <2>3 DEF BlastRadius
  <1>16. QED
    BY <1>9, <1>12, <1>13, <1>14, <1>15 DEF CredInv, CredentialsSound

\* revoke_task: the leases of the task lose their authority, each with a row.
LEMMA RevokeTaskKeeps ==
  ASSUME CredInv, NEW t \in Tasks, RevokeTask(t)
  PROVE  CredInv'
  <1> DEFINE n == Cardinality(Mine(t))
  <1>1. PICK q \in Orders(t) : audit' = audit \o [i \in DOMAIN q |-> Row("revoke", q[i], t)]
    BY DEF RevokeTask
  <1> DEFINE rows == [i \in 1..n |-> Row("revoke", q[i], t)]
  <1>2. Mine(t) \subseteq 1..Len(leases) /\ Len(leases) \in Nat
    BY DEF Mine, CredInv, CredTypes
  <1>3. n \in Nat
    <2>1. IsFiniteSet(1..Len(leases))
      BY <1>2, FS_Interval
    <2>2. IsFiniteSet(Mine(t))
      BY <1>2, <2>1, FS_Subset
    <2>3. QED
      BY <2>2, FS_CardinalityType
  <1>4. /\ q \in [1..n -> Mine(t)]
        /\ \A l \in Mine(t) : \E i \in 1..n : q[i] = l
    BY DEF Orders
  <1>5. /\ rows \in Seq(AuditRows) /\ Len(rows) = n
        /\ \A i \in 1..n : rows[i] = Row("revoke", q[i], t)
    <2>1. \A i \in 1..n : Row("revoke", q[i], t) \in AuditRows
      BY <1>2, <1>4 DEF Row, AuditRows, Kinds
    <2>2. QED
      BY <1>3, <2>1
  <1>6. audit' = audit \o rows
    BY <1>1, <1>4
  <1>7. /\ audit' \in Seq(AuditRows) /\ Grows
        /\ \A i \in 1..n : /\ Len(audit) + i \in DOMAIN audit'
                           /\ audit'[Len(audit) + i] = Row("revoke", q[i], t)
        /\ \A k \in DOMAIN audit' : k \notin DOMAIN audit =>
             \E i \in 1..n : audit'[k] = Row("revoke", q[i], t)
    <2>1. audit \in Seq(AuditRows)
      BY DEF CredInv, CredTypes
    <2>2. /\ audit' \in Seq(AuditRows) /\ Len(audit') = Len(audit) + n
          /\ \A k \in 1..Len(audit) : audit'[k] = audit[k]
          /\ \A k \in 1..(Len(audit) + n) : k > Len(audit) => audit'[k] = rows[k - Len(audit)]
      BY <1>3, <1>5, <1>6, <2>1
    <2>3. Grows
      BY <1>3, <2>1, <2>2 DEF Grows
    <2>4. ASSUME NEW k \in DOMAIN audit', k \notin DOMAIN audit
          PROVE  k - Len(audit) \in 1..n /\ audit'[k] = Row("revoke", q[k - Len(audit)], t)
      <3>1. /\ DOMAIN audit = 1..Len(audit) /\ Len(audit) \in Nat
            /\ DOMAIN audit' = 1..(Len(audit) + n)
        BY <1>3, <2>1, <2>2
      <3>2. k \in 1..(Len(audit) + n) /\ k > Len(audit) /\ k - Len(audit) \in 1..n
        BY <1>3, <2>4, <3>1
      <3>3. audit'[k] = rows[k - Len(audit)]
        BY <2>2, <3>2
      <3>4. QED
        BY <1>5, <3>2, <3>3
    <2>5. ASSUME NEW i \in 1..n
          PROVE  /\ Len(audit) + i \in DOMAIN audit'
                 /\ audit'[Len(audit) + i] = Row("revoke", q[i], t)
      BY <1>3, <1>5, <2>1, <2>2
    <2>6. QED
      BY <2>2, <2>3, <2>4, <2>5
  <1>8. leases' = [l \in DOMAIN leases |->
                     IF l \in Mine(t) THEN [leases[l] EXCEPT !.live = FALSE] ELSE leases[l]]
    BY DEF RevokeTask
  <1>9. \A l \in DOMAIN leases : /\ leases[l] \in LeaseRecords
                                 /\ [leases[l] EXCEPT !.live = FALSE] \in LeaseRecords
    <2>1. \A l \in DOMAIN leases : leases[l] \in LeaseRecords
      BY DEF CredInv, CredTypes
    <2>2. QED
      BY <2>1 DEF LeaseRecords
  <1>10. /\ leases' \in Seq(LeaseRecords) /\ DOMAIN leases' = DOMAIN leases
         /\ Len(leases') = Len(leases)
    <2>1. DOMAIN leases = 1..Len(leases)
      BY DEF CredInv, CredTypes
    <2>2. QED
      BY <1>2, <1>8, <1>9, <2>1
  <1>11. CredTypes' /\ handed' = handed /\ work' = work
    BY <1>7, <1>10 DEF CredInv, CredTypes, RevokeTask
  <1>12. ASSUME NEW l \in DOMAIN leases
         PROVE  /\ leases'[l].task = leases[l].task /\ leases'[l].gen = leases[l].gen
                /\ leases'[l].scopes = leases[l].scopes /\ leases'[l].expires = leases[l].expires
                /\ l \in Mine(t) => leases'[l].live = FALSE
                /\ l \notin Mine(t) => leases'[l] = leases[l]
    BY <1>8, <1>9 DEF LeaseRecords
  <1>13. Keeps /\ Advances
    <2>1. Advances
      BY <1>11 DEF CredInv, CredTypes, Advances
    <2>2. Len(leases) <= Len(leases')
      BY <1>2, <1>10
    <2>3. QED
      BY <2>1, <2>2, <1>12 DEF Keeps
  <1>14. LeasesIssued'
    BY <1>7, <1>10, <1>11, <1>13, IssuedKeep DEF LeasesIssued
  <1>15. HandedKnown' /\ RevocationIsFinal' /\ CurrentCallersOnly' /\ AuditComplete'
    <2>1. \A i \in DOMAIN audit' : i \notin DOMAIN audit => audit'[i].kind # "materialize"
      BY <1>7 DEF Row
    <2>2. QED
      BY <2>1, <1>7, <1>11, <1>13, QuietKeep
  <1>16. RevocationsNamed'
    <2>1. ASSUME NEW k \in DOMAIN audit', k \notin DOMAIN audit
          PROVE  audit'[k].lease \in DOMAIN leases' /\ audit'[k].task = leases'[audit'[k].lease].task
      <3>1. PICK i \in 1..n : audit'[k] = Row("revoke", q[i], t)
        BY <1>7, <2>1
      <3>2. q[i] \in Mine(t)
        BY <1>4
      <3>3. audit'[k].lease = q[i] /\ audit'[k].task = t
        BY <3>1 DEF Row
      <3>4. q[i] \in DOMAIN leases /\ leases[q[i]].task = t
        BY <3>2 DEF Mine
      <3>5. leases'[q[i]].task = t
        BY <1>12, <3>4
      <3>6. QED
        BY <1>10, <3>3, <3>4, <3>5
    <2>2. QED
      BY <2>1, <1>7, <1>11, <1>13, NamedKeep
  <1>17. BlastRadius'
    <2>1. ASSUME NEW k \in DOMAIN audit
          PROVE  k \in DOMAIN audit' /\ audit'[k] = audit[k]
      BY <1>7 DEF CredInv, CredTypes, Grows
    <2>2. ASSUME NEW l \in DOMAIN leases, l \notin Mine(t)
          PROVE  ~leases'[l].live <=>
                   \E k \in DOMAIN audit' : audit'[k] = Row("revoke", l, leases'[l].task)
      <3>1. leases'[l] = leases[l]
        BY <1>12, <2>2
      <3>2. ~leases[l].live <=>
              \E k \in DOMAIN audit : audit[k] = Row("revoke", l, leases[l].task)
        BY DEF CredInv, CredentialsSound, BlastRadius
      <3>3. ASSUME NEW k \in DOMAIN audit', audit'[k] = Row("revoke", l, leases[l].task)
            PROVE  k \in DOMAIN audit
        <4>1. SUFFICES ASSUME k \notin DOMAIN audit PROVE FALSE
          OBVIOUS
        <4>2. PICK i \in 1..n : audit'[k] = Row("revoke", q[i], t)
          BY <1>7, <4>1
        <4>3. q[i] = l
          BY <3>3, <4>2 DEF Row
        <4>4. QED
          BY <1>4, <2>2, <4>3
      <3>4. QED
        BY <2>1, <3>1, <3>2, <3>3
    <2>3. ASSUME NEW l \in Mine(t)
          PROVE  /\ leases'[l].live = FALSE
                 /\ \E k \in DOMAIN audit' : audit'[k] = Row("revoke", l, leases'[l].task)
      <3>1. l \in DOMAIN leases /\ leases[l].task = t
        BY DEF Mine
      <3>2. PICK i \in 1..n : q[i] = l
        BY <1>4
      <3>3. leases'[l].live = FALSE /\ leases'[l].task = t
        BY <1>12, <3>1
      <3>4. Len(audit) + i \in DOMAIN audit' /\ audit'[Len(audit) + i] = Row("revoke", l, t)
        BY <1>7, <3>2
      <3>5. QED
        BY <3>3, <3>4
    <2>4. QED
      BY <1>10, <2>2, <2>3 DEF BlastRadius
  <1>18. QED
    BY <1>11, <1>14, <1>15, <1>16, <1>17 DEF CredInv, CredentialsSound

-----------------------------------------------------------------------------
\* Every step of the broker, of the clock and of the work keeps the invariant.
LEMMA CredStep ==
  ASSUME MaxTtl \in Nat, MaxWork \in Nat, MaxLeases \in Nat, CredInv, [Next]_credVars
  PROVE  CredInv'
  <1>1. CASE UNCHANGED credVars
    BY <1>1 DEF credVars, CredInv, CredTypes, LeasesIssued, RevocationsNamed, HandedKnown,
                CredentialsSound, RevocationIsFinal, CurrentCallersOnly, AuditComplete, BlastRadius
  <1>2. CASE Tick \/ \E r \in Refs : Register(r)
    BY <1>2, TickKeeps
  <1>3. ASSUME NEW r \in Refs, NEW t \in Tasks, NEW scopes \in SUBSET Scopes,
               NEW ttl \in 0..MaxTtl, IssueLease(r, t, scopes, ttl)
        PROVE  CredInv'
    BY <1>3, IssueKeeps
  <1>4. ASSUME NEW l \in 1..MaxLeases, NEW t \in Tasks, NEW gen \in 0..MaxWork,
               NEW scope \in Scopes, Materialize(l, t, gen, scope)
        PROVE  CredInv'
    BY <1>4, MaterializeKeeps
  <1>5. ASSUME NEW l \in 1..MaxLeases, Revoke(l)
        PROVE  CredInv'
    BY <1>5, RevokeKeeps
  <1>6. ASSUME NEW t \in Tasks, MaterializeUnknown(t) \/ RevokeTask(t) \/ Advance(t)
        PROVE  CredInv'
    BY <1>6, UnknownKeeps, RevokeTaskKeeps, TickKeeps
  <1>7. QED
    BY <1>1, <1>2, <1>3, <1>4, <1>5, <1>6 DEF Next

\* The credential broker: whatever the order of issues, presentations, revocations
\* and generation advances, a value leaves under a lease that stands, a current caller
\* gets nothing through a lease of an older generation, the audit has every value and
\* every revocation, and the emergency stop of a task reaches exactly its own leases.
THEOREM BrokerIsSound ==
  ASSUME MaxTtl \in Nat, MaxWork \in Nat, MaxLeases \in Nat
  PROVE  CredSpec => []CredentialsSound
  <1>1. CredInv /\ [Next]_credVars => CredInv'
    BY CredStep
  <1>2. CredInv => CredentialsSound
    BY DEF CredInv
  <1>3. QED
    BY CredInitial, <1>1, <1>2, PTL DEF CredSpec

-----------------------------------------------------------------------------
(* Who is in control: ControlLeases, beside the broker                     *)

CONSTANTS Areas, Sessions, Controllers, Nobody, Cooldown,
          MaxEpoch, MaxCommits, MaxActs, MaxInputs

VARIABLES active, fencing, given, commits, robbed, lease, stopped, acts, last,
          parked, until, clock, unsaid, said, crossed, resumed

Control == INSTANCE ControlLeases WITH Scopes <- Areas, now <- clock

Holders == [session : Sessions, epoch : Nat]
GivenLeases == [scope : Areas, session : Sessions, epoch : Nat, stands : BOOLEAN]

\* Nobody is not a holder, and the cooldown is a number of milliseconds.
ControlAssumptions == Nobody \notin Holders /\ Cooldown \in Nat

\* A lease validates only while its epoch is the scope's newest, so that what was
\* committed before under the scope is no newer than what it commits.
FencerInv ==
  /\ fencing \in [Areas -> Nat] /\ active \in [Areas -> Holders \cup {Nobody}]
  /\ given \subseteq GivenLeases /\ commits \in Seq(GivenLeases)
  /\ \A s \in Areas : active[s] # Nobody => active[s].epoch = fencing[s]
  /\ \A l \in given : l.epoch <= fencing[l.scope]
  /\ \A j \in DOMAIN commits : commits[j].epoch <= fencing[commits[j].scope]
  /\ Control!LeasesAreFenced /\ Control!CommitsInLeaseOrder

\* Nobody acts while there is no controller.
HandInv ==
  /\ acts \in Seq(Controllers) /\ stopped \in BOOLEAN
  /\ lease = Nobody => acts = <<>>
  /\ Control!OneHandUntilStop

\* As long as reports come in order, the cooldown counts from the newest input, and
\* automation that goes on was let on after it.
HumanTypes ==
  /\ clock \in Nat /\ until \in Nat /\ resumed \in Nat /\ resumed <= clock
  /\ said \subseteq Nat /\ unsaid \subseteq Nat

Newest(m) ==
  /\ \A t \in said : t <= m
  /\ until = m + Cooldown
  /\ parked \/ resumed >= until

HumanInv == HumanTypes /\ (~crossed /\ said # {} => \E m \in said : Newest(m))

\* Release moves the fence one epoch on.
LEMMA MaxOfTwins == ASSUME NEW n \in Nat PROVE Control!Max({n, n}) = n
  BY DEF Control!Max

LEMMA FencerInit == ASSUME ControlAssumptions, Control!Init PROVE FencerInv
  BY DEF ControlAssumptions, Control!Init, FencerInv, Control!LeasesAreFenced,
         Control!CommitsInLeaseOrder

\* A new lease has an epoch that no lease of the scope had.
LEMMA AcquireStep ==
  ASSUME ControlAssumptions, FencerInv, NEW s \in Areas, NEW x \in Sessions, Control!Acquire(s, x)
  PROVE  FencerInv'
<1> DEFINE n == fencing[s] + 1
           new == [scope |-> s, session |-> x, epoch |-> n, stands |-> TRUE]
<1>1. /\ n \in Nat /\ n > fencing[s] /\ active[s] = Nobody
      /\ fencing' = [fencing EXCEPT ![s] = n]
      /\ active' = [active EXCEPT ![s] = [session |-> x, epoch |-> n]]
      /\ given' = given \cup {new} /\ commits' = commits
  BY DEF Control!Acquire, Control!NextEpoch, FencerInv
<1>2. new \in GivenLeases /\ [session |-> x, epoch |-> n] \in Holders
  BY <1>1 DEF GivenLeases, Holders
<1>3. /\ fencing' \in [Areas -> Nat] /\ active' \in [Areas -> Holders \cup {Nobody}]
      /\ given' \subseteq GivenLeases /\ commits' \in Seq(GivenLeases)
  BY <1>1, <1>2 DEF FencerInv
<1>4. \A a \in Areas : fencing'[a] >= fencing[a]
  BY <1>1 DEF FencerInv
<1>5. \A a \in Areas : active'[a] # Nobody => active'[a].epoch = fencing'[a]
  BY <1>1 DEF FencerInv
<1>6. \A l \in given' : l.epoch <= fencing'[l.scope]
  <2> SUFFICES ASSUME NEW l \in given' PROVE l.epoch <= fencing'[l.scope]
    OBVIOUS
  <2>1. CASE l = new
    BY <2>1, <1>1 DEF FencerInv
  <2>2. CASE l \in given
    <3>1. l.scope \in Areas /\ l.epoch \in Nat /\ l.epoch <= fencing[l.scope]
      BY <2>2 DEF FencerInv, GivenLeases
    <3> QED
      BY <3>1, <1>3, <1>4 DEF FencerInv
  <2> QED
    BY <2>1, <2>2, <1>1
<1>7. \A j \in DOMAIN commits' : commits'[j].epoch <= fencing'[commits'[j].scope]
  <2> SUFFICES ASSUME NEW j \in DOMAIN commits
               PROVE  commits[j].epoch <= fencing'[commits[j].scope]
    BY <1>1
  <2>1. commits[j].scope \in Areas /\ commits[j].epoch \in Nat
    <3>1. commits[j] \in GivenLeases
      BY DEF FencerInv
    <3> QED
      BY <3>1 DEF GivenLeases
  <2>2. commits[j].epoch <= fencing[commits[j].scope]
    BY DEF FencerInv
  <2> QED
    BY <2>1, <2>2, <1>3, <1>4 DEF FencerInv
<1>8. Control!LeasesAreFenced'
  <2>1. \A l \in given : l.scope = s => ~l.stands /\ l.epoch < n
    <3> SUFFICES ASSUME NEW l \in given, l.scope = s PROVE ~l.stands /\ l.epoch < n
      OBVIOUS
    <3>1. ~Control!Validates(l)
      BY <1>1 DEF Control!Validates
    <3>2. l.epoch \in Nat /\ l.epoch <= fencing[s] /\ l.stands \in BOOLEAN
      BY DEF FencerInv, GivenLeases
    <3> QED
      BY <3>1, <3>2, <1>1 DEF FencerInv, Control!LeasesAreFenced
  <2>2. \A l \in given' : Control!Validates(l)' <=> l.stands
    <3> SUFFICES ASSUME NEW l \in given' PROVE Control!Validates(l)' <=> l.stands
      OBVIOUS
    <3>1. CASE l = new
      BY <3>1, <1>1, <1>2 DEF Control!Validates, ControlAssumptions, FencerInv
    <3>2. CASE l \in given /\ l.scope = s
      BY <3>2, <1>1, <2>1 DEF Control!Validates, FencerInv, GivenLeases
    <3>3. CASE l \in given /\ l.scope # s
      <4>1. l.scope \in Areas
        BY <3>3 DEF FencerInv, GivenLeases
      <4>2. active'[l.scope] = active[l.scope]
        BY <4>1, <3>3, <1>1 DEF FencerInv
      <4> QED
        BY <4>2, <3>3 DEF Control!Validates, FencerInv, Control!LeasesAreFenced
    <3> QED
      BY <3>1, <3>2, <3>3, <1>1
  <2>3. \A k, l \in given' :
          (k.scope = l.scope /\ (k.epoch = l.epoch \/ (k.stands /\ l.stands))) => k = l
    <3> SUFFICES ASSUME NEW k \in given', NEW l \in given', k.scope = l.scope,
                        k.epoch = l.epoch \/ (k.stands /\ l.stands)
                 PROVE  k = l
      OBVIOUS
    <3>1. CASE k \in given /\ l \in given
      BY <3>1 DEF FencerInv, Control!LeasesAreFenced
    <3>2. CASE k = new /\ l \in given
      BY <3>2, <2>1, <1>1 DEF FencerInv, GivenLeases
    <3>3. CASE k \in given /\ l = new
      BY <3>3, <2>1, <1>1 DEF FencerInv, GivenLeases
    <3> QED
      BY <3>1, <3>2, <3>3, <1>1
  <2> QED
    BY <2>2, <2>3 DEF Control!LeasesAreFenced
<1>9. Control!CommitsInLeaseOrder'
  BY <1>1 DEF FencerInv, Control!CommitsInLeaseOrder
<1> QED
  BY <1>3, <1>5, <1>6, <1>7, <1>8, <1>9 DEF FencerInv

\* A release takes back whatever lease of the scope stands, and moves the fence on.
LEMMA ReleaseStep ==
  ASSUME ControlAssumptions, FencerInv, NEW s \in Areas, NEW caller, Control!Release(s, caller)
  PROVE  FencerInv'
<1> DEFINE n == fencing[s] + 1
           Ended(l) == IF l.scope = s THEN [l EXCEPT !.stands = FALSE] ELSE l
<1>1. /\ n \in Nat /\ n > fencing[s] /\ active[s] # Nobody
      /\ active' = [active EXCEPT ![s] = Nobody]
      /\ given' = {Ended(l) : l \in given} /\ commits' = commits
  BY DEF Control!Release, FencerInv
<1>2. fencing' = [fencing EXCEPT ![s] = n]
  <2>1. active[s].epoch = fencing[s]
    BY <1>1 DEF FencerInv
  <2>2. Control!Max({n, n}) = n
    BY <1>1, MaxOfTwins
  <2> QED
    BY <2>1, <2>2 DEF Control!Release, Control!NextEpoch
<1>3. \A l \in given : /\ l \in GivenLeases /\ Ended(l) \in GivenLeases
                       /\ Ended(l).scope = l.scope /\ Ended(l).epoch = l.epoch
                       /\ Ended(l).session = l.session
                       /\ Ended(l).stands = (l.stands /\ l.scope # s)
  BY DEF FencerInv, GivenLeases
<1>4. /\ fencing' \in [Areas -> Nat] /\ active' \in [Areas -> Holders \cup {Nobody}]
      /\ given' \subseteq GivenLeases /\ commits' \in Seq(GivenLeases)
  BY <1>1, <1>2, <1>3 DEF FencerInv
<1>5. \A a \in Areas : fencing'[a] >= fencing[a]
  BY <1>1, <1>2 DEF FencerInv
<1>6. \A a \in Areas : active'[a] # Nobody => active'[a].epoch = fencing'[a]
  BY <1>1, <1>2 DEF FencerInv
<1>7. \A l \in given' : l.epoch <= fencing'[l.scope]
  <2> SUFFICES ASSUME NEW l \in given PROVE Ended(l).epoch <= fencing'[Ended(l).scope]
    BY <1>1
  <2>1. l.scope \in Areas /\ l.epoch \in Nat /\ l.epoch <= fencing[l.scope]
    BY DEF FencerInv, GivenLeases
  <2> QED
    BY <2>1, <1>3, <1>4, <1>5 DEF FencerInv
<1>8. \A j \in DOMAIN commits' : commits'[j].epoch <= fencing'[commits'[j].scope]
  <2> SUFFICES ASSUME NEW j \in DOMAIN commits
               PROVE  commits[j].epoch <= fencing'[commits[j].scope]
    BY <1>1
  <2>1. commits[j] \in GivenLeases
    BY DEF FencerInv
  <2>2. commits[j].scope \in Areas /\ commits[j].epoch \in Nat
    BY <2>1 DEF GivenLeases
  <2>3. commits[j].epoch <= fencing[commits[j].scope]
    BY DEF FencerInv
  <2> QED
    BY <2>2, <2>3, <1>4, <1>5 DEF FencerInv
<1>9. Control!LeasesAreFenced'
  <2>1. \A l \in given' : Control!Validates(l)' <=> l.stands
    <3> SUFFICES ASSUME NEW l \in given PROVE Control!Validates(Ended(l))' <=> Ended(l).stands
      BY <1>1
    <3>1. l.scope \in Areas
      BY DEF FencerInv, GivenLeases
    <3>2. CASE l.scope = s
      BY <3>1, <3>2, <1>1, <1>3 DEF Control!Validates, FencerInv
    <3>3. CASE l.scope # s
      <4>1. active'[l.scope] = active[l.scope] /\ Ended(l) = l
        BY <3>1, <3>3, <1>1 DEF FencerInv
      <4>2. Control!Validates(l)' <=> Control!Validates(l)
        BY <4>1 DEF Control!Validates
      <4>3. Control!Validates(l) <=> l.stands
        BY DEF FencerInv, Control!LeasesAreFenced
      <4> QED
        BY <4>1, <4>2, <4>3
    <3> QED
      BY <3>2, <3>3
  <2>2. \A k, l \in given' :
          (k.scope = l.scope /\ (k.epoch = l.epoch \/ (k.stands /\ l.stands))) => k = l
    <3> SUFFICES ASSUME NEW e \in given', NEW f \in given', e.scope = f.scope,
                        e.epoch = f.epoch \/ (e.stands /\ f.stands)
                 PROVE  e = f
      OBVIOUS
    <3>1. PICK k \in given : e = Ended(k)
      BY <1>1
    <3>2. PICK l \in given : f = Ended(l)
      BY <1>1
    <3>3. k.scope = l.scope /\ (k.epoch = l.epoch \/ (k.stands /\ l.stands))
      BY <3>1, <3>2, <1>3
    <3>4. k = l
      BY <3>3 DEF FencerInv, Control!LeasesAreFenced
    <3> QED
      BY <3>1, <3>2, <3>4
  <2> QED
    BY <2>1, <2>2 DEF Control!LeasesAreFenced
<1>10. Control!CommitsInLeaseOrder'
  BY <1>1 DEF FencerInv, Control!CommitsInLeaseOrder
<1> QED
  BY <1>4, <1>6, <1>7, <1>8, <1>9, <1>10 DEF FencerInv

\* A lease that validates is of the newest epoch of its scope.
LEMMA CommitStep ==
  ASSUME ControlAssumptions, FencerInv, NEW l \in given, Control!Commit(l)
  PROVE  FencerInv'
<1>1. /\ Control!Validates(l) /\ commits' = Append(commits, l)
      /\ active' = active /\ fencing' = fencing /\ given' = given
  BY DEF Control!Commit
<1>2. l \in GivenLeases /\ l.scope \in Areas /\ l.epoch \in Nat /\ commits \in Seq(GivenLeases)
  BY DEF FencerInv, GivenLeases
<1>3. l.epoch = fencing[l.scope]
  BY <1>1, <1>2 DEF FencerInv, Control!Validates
<1>4. /\ commits' \in Seq(GivenLeases) /\ Len(commits') = Len(commits) + 1
      /\ commits'[Len(commits) + 1] = l
      /\ \A j \in 1..Len(commits) : commits'[j] = commits[j] /\ commits[j] \in GivenLeases
      /\ DOMAIN commits = 1..Len(commits) /\ DOMAIN commits' = 1..(Len(commits) + 1)
      /\ Len(commits) \in Nat
  BY <1>1, <1>2
<1>5. \A j \in DOMAIN commits' : commits'[j].epoch <= fencing'[commits'[j].scope]
  <2> SUFFICES ASSUME NEW j \in 1..(Len(commits) + 1)
               PROVE  commits'[j].epoch <= fencing[commits'[j].scope]
    BY <1>1, <1>4
  <2>1. CASE j = Len(commits) + 1
    BY <2>1, <1>2, <1>3, <1>4
  <2>2. CASE j \in 1..Len(commits)
    BY <2>2, <1>4 DEF FencerInv
  <2> QED
    BY <2>1, <2>2, <1>4
<1>6. Control!CommitsInLeaseOrder'
  <2> SUFFICES ASSUME NEW j \in 1..(Len(commits) + 1), NEW k \in 1..(Len(commits) + 1),
                      j < k, commits'[j].scope = commits'[k].scope
               PROVE  commits'[j].epoch <= commits'[k].epoch
    BY <1>4 DEF Control!CommitsInLeaseOrder
  <2>1. j \in 1..Len(commits)
    BY <1>4
  <2>2. CASE k \in 1..Len(commits)
    BY <2>1, <2>2, <1>4 DEF FencerInv, Control!CommitsInLeaseOrder
  <2>3. CASE k = Len(commits) + 1
    BY <2>1, <2>3, <1>3, <1>4 DEF FencerInv
  <2> QED
    BY <2>2, <2>3, <1>4
<1>7. Control!LeasesAreFenced'
  BY <1>1 DEF FencerInv, Control!LeasesAreFenced, Control!Validates
<1> QED
  BY <1>1, <1>4, <1>5, <1>6, <1>7 DEF FencerInv

\* No other call touches the fencer.
LEMMA FencerStep ==
  ASSUME ControlAssumptions, FencerInv, [Control!Next]_Control!controlVars
  PROVE  FencerInv'
<1>1. CASE UNCHANGED Control!fencerVars
  BY <1>1 DEF FencerInv, Control!fencerVars, Control!LeasesAreFenced, Control!Validates,
              Control!CommitsInLeaseOrder
<1>2. CASE \E s \in Areas, x \in Sessions : Control!Acquire(s, x)
  BY <1>2, AcquireStep
<1>3. CASE \E s \in Areas, caller \in Sessions \cup {Nobody} : Control!Release(s, caller)
  BY <1>3, ReleaseStep
<1>4. CASE \E l \in given : Control!Commit(l)
  BY <1>4, CommitStep
<1> QED
  BY <1>1, <1>2, <1>3, <1>4 DEF Control!Next, Control!controlVars, Control!AcquireLease,
     Control!ExecuteAction, Control!EmergencyStop, Control!Tick, Control!Input,
     Control!TryReacquire, Control!HumanActivity

\* Only the controller acts, and the count at the stop stands from then on.
LEMMA HandStep == ASSUME HandInv, [Control!Next]_Control!controlVars PROVE HandInv'
<1>1. CASE UNCHANGED Control!sessionVars
  BY <1>1 DEF HandInv, Control!sessionVars, Control!OneHandUntilStop
<1>2. ASSUME NEW c \in Controllers, Control!AcquireLease(c) PROVE HandInv'
  BY <1>2 DEF HandInv, Control!AcquireLease, Control!OneHandUntilStop
<1>3. CASE Control!Halt /\ lease' = lease
  BY <1>3 DEF HandInv, Control!Halt, Control!OneHandUntilStop
<1>4. ASSUME NEW c \in Controllers, lease # Nobody, lease = c, ~stopped, acts' = Append(acts, c),
             lease' = lease, stopped' = stopped
      PROVE  HandInv'
  <2>1. acts' \in Seq(Controllers) /\ Len(acts') = Len(acts) + 1 /\ Len(acts) \in Nat
    BY <1>4 DEF HandInv
  <2>2. \A i \in DOMAIN acts' : acts'[i] = lease'
    BY <1>4, <2>1 DEF HandInv, Control!OneHandUntilStop
  <2> QED
    BY <1>4, <2>1, <2>2 DEF HandInv, Control!OneHandUntilStop
<1>5. ASSUME NEW c \in Controllers, NEW overlong \in BOOLEAN, Control!ExecuteAction(c, overlong)
      PROVE  HandInv'
  BY <1>3, <1>4, <1>5 DEF Control!ExecuteAction
<1>6. CASE Control!EmergencyStop
  BY <1>3, <1>6 DEF Control!EmergencyStop
<1> QED
  BY <1>1, <1>2, <1>5, <1>6 DEF Control!Next, Control!controlVars, Control!Acquire,
     Control!Release, Control!Commit, Control!Tick, Control!Input, Control!TryReacquire,
     Control!HumanActivity

\* In order, a report names an input newer than all reported so far; automation goes on
\* only once the clock has passed its cooldown, and the clock does not go back.
LEMMA HumanStep ==
  ASSUME ControlAssumptions, HumanInv, [Control!Next]_Control!controlVars
  PROVE  HumanInv'
<1>1. CASE UNCHANGED Control!humanVars
  BY <1>1 DEF HumanInv, HumanTypes, Newest, Control!humanVars
<1>2. CASE Control!Tick \/ Control!Input
  <2>1. UNCHANGED <<parked, until, said, crossed, resumed>>
    BY <1>2 DEF Control!Tick, Control!Input
  <2>2. clock' \in {clock, clock + 1} /\ unsaid' \subseteq unsaid \cup {clock}
    BY <1>2 DEF Control!Tick, Control!Input
  <2>3. HumanTypes'
    BY <2>1, <2>2 DEF HumanInv, HumanTypes
  <2> QED
    BY <2>1, <2>3 DEF HumanInv, Newest
<1>3. ASSUME NEW at \in unsaid, Control!HumanActivity(at) PROVE HumanInv'
  <2>1. /\ at \in Nat /\ said' = said \cup {at} /\ until' = at + Cooldown
        /\ unsaid' = unsaid \ {at} /\ clock' = clock /\ resumed' = resumed
    BY <1>3 DEF Control!HumanActivity, HumanInv, HumanTypes
  <2>2. HumanTypes'
    BY <2>1 DEF HumanInv, HumanTypes, ControlAssumptions
  <2>3. parked' /\ (~crossed' => \A t \in said : ~(t > at))
    BY <1>3, Zenon DEF Control!HumanActivity
  <2>4. ASSUME ~crossed' PROVE \A t \in said' : t <= at
    BY <2>1, <2>3, <2>4 DEF HumanInv, HumanTypes
  <2>5. ~crossed' => Newest(at)'
    BY <2>1, <2>3, <2>4 DEF Newest
  <2> QED
    BY <2>1, <2>2, <2>5 DEF HumanInv
<1>4. CASE Control!TryReacquire
  <2>1. /\ resumed' = clock /\ UNCHANGED <<until, clock, unsaid, said, crossed>>
        /\ ~(parked /\ clock < until)
    BY <1>4 DEF Control!TryReacquire
  <2>2. HumanTypes'
    BY <2>1 DEF HumanInv, HumanTypes
  <2>3. ASSUME NEW m \in said, Newest(m) PROVE Newest(m)'
    <3>1. parked \/ resumed >= until
      BY <2>3 DEF Newest
    <3>2. clock >= until
      BY <3>1, <2>1 DEF HumanInv, HumanTypes
    <3>3. resumed' >= until'
      BY <3>2, <2>1
    <3> QED
      BY <3>3, <2>1, <2>3 DEF Newest
  <2> QED
    BY <2>1, <2>2, <2>3 DEF HumanInv
<1> QED
  BY <1>1, <1>2, <1>3, <1>4 DEF Control!Next, Control!controlVars, Control!Acquire,
     Control!Release, Control!Commit, Control!AcquireLease, Control!ExecuteAction,
     Control!EmergencyStop

\* What HumanInv says of the newest input, it says of the largest.
LEMMA HumanInvCools == ASSUME ControlAssumptions, HumanInv PROVE Control!CooldownHonoured
<1> SUFFICES ASSUME ~crossed, ~parked, said # {} PROVE resumed >= Control!Max(said) + Cooldown
  BY DEF Control!CooldownHonoured
<1>1. PICK m \in said : Newest(m)
  BY DEF HumanInv
<1>2. /\ m \in Nat /\ said \subseteq Nat /\ \A t \in said : t <= m
      /\ resumed >= m + Cooldown
  BY <1>1 DEF HumanInv, HumanTypes, Newest
<1>3. \A x \in said : (\A y \in said : x >= y) <=> x = m
  BY <1>2
<1>4. Control!Max(said) = m
  BY <1>3 DEF Control!Max
<1> QED
  BY <1>2, <1>4

\* checkpoint/lease.rs, browser/lib.rs and computer_safety.rs: a session that lost its lease
\* commits no more and what reaches a scope is in the order of its leases; one controller
\* acts on a browser, and nobody after a stop; automation waits out the cooldown of the
\* newest input, if reports come in order.  For any scopes, sessions and bounds.
THEOREM ControlIsExclusive ==
  ASSUME ControlAssumptions PROVE Control!ControlSpec => []Control!ControlSound
<1>1. Control!Init => FencerInv /\ HandInv /\ HumanInv
  <2> SUFFICES ASSUME Control!Init PROVE HandInv /\ HumanInv
    BY FencerInit
  <2>1. acts = <<>> /\ stopped = FALSE
    BY DEF Control!Init
  <2>2. HandInv
    <3>1. acts \in Seq(Controllers) /\ DOMAIN acts = {}
      BY <2>1
    <3>2. stopped \in BOOLEAN /\ ~stopped
      BY <2>1
    <3> QED
      BY <2>1, <3>1, <3>2, Zenon DEF HandInv, Control!OneHandUntilStop
  <2>3. HumanInv
    BY DEF Control!Init, HumanInv, HumanTypes
  <2> QED
    BY <2>2, <2>3
<1>2. FencerInv /\ HandInv /\ HumanInv /\ [Control!Next]_Control!controlVars
        => FencerInv' /\ HandInv' /\ HumanInv'
  BY FencerStep, HandStep, HumanStep
<1>3. FencerInv /\ HandInv /\ HumanInv => Control!ControlSound
  BY HumanInvCools DEF FencerInv, HandInv, Control!ControlSound
<1> QED
  BY <1>1, <1>2, <1>3, PTL DEF Control!ControlSpec

-----------------------------------------------------------------------------
(* The fleet's nodes and their journal: AgentFleet                         *)

CONSTANTS Agents, Keys, MaxCursor, MaxLines, MaxFaults

VARIABLES nodes, keys, lines, core, born, ahead, ended, revived, faults

Fleet == INSTANCE AgentFleet

\* The words the model uses for what is no agent and no key are none.
FleetIds == "none" \notin Agents \cup Keys /\ "torn" \notin Agents /\ "garbled" \notin Agents

Nodes == [agent : Agents, parent : Agents \cup {"none"}, key : Keys \cup {"none"},
          capsule : {"expansion", "no_expansion"}, root : Agents,
          status : Fleet!Live \cup {"completed", "cancelled"}, cursor : Nat]
Identities == [agent : Agents, parent : Agents \cup {"none"}, root : Agents,
               key : Keys \cup {"none"}, capsule : {"expansion", "no_expansion"}]
Lines == Nodes \cup {Fleet!Torn, [agent |-> "garbled"]}

AllParse(file) == \A i \in DOMAIN file : Fleet!Parses(file[i])

FleetTypes ==
  /\ nodes \in [Agents -> Nodes \cup {Fleet!NoNode}]
  /\ keys \in [Keys -> Agents \cup {"none"}]
  /\ lines \in Seq(Lines)
  /\ born \in [Agents -> Identities \cup {Fleet!NoNode}]
  /\ ended \subseteq Agents

\* A parent was born before its child, of the same root.
FamiliesBorn ==
  \A a \in Agents : born[a] # Fleet!NoNode =>
    \/ born[a].parent = "none"
    \/ /\ born[born[a].parent] # Fleet!NoNode
       /\ born[born[a].parent].root = born[a].root

\* A line that parses has its agent's identity.
LinesKnown ==
  \A i \in DOMAIN lines : Fleet!Parses(lines[i]) =>
    Fleet!Identity(lines[i]) = born[lines[i].agent]

\* In a journal that a boot accepts every agent in memory has a line, and so has the
\* parent of every line.
ParentsWritten ==
  AllParse(lines) =>
    /\ \A i \in DOMAIN lines : lines[i].parent # "none" =>
         \E j \in DOMAIN lines : lines[j].agent = lines[i].parent
    /\ core # "dead" => \A a \in Agents : Fleet!Has(a) =>
         \E j \in DOMAIN lines : lines[j].agent = a

ParentsPresent ==
  core # "dead" => \A a \in Agents : (Fleet!Has(a) /\ nodes[a].parent # "none") =>
    Fleet!Has(nodes[a].parent)

\* NextBootAgrees, behind a panic too.
JournalAgrees ==
  (core # "dead" /\ AllParse(lines)) =>
    \A a \in Agents \ ahead : Fleet!Latest(lines, a) = nodes[a]

\* A key that a line or a node has is bound to that agent, and an agent that a key
\* names has a node, unless its spawn was reported as failed.
KeysBound ==
  /\ \A i \in DOMAIN lines : (Fleet!Parses(lines[i]) /\ lines[i].key # "none") =>
       keys[lines[i].key] = lines[i].agent
  /\ \A a \in Agents : (Fleet!Has(a) /\ nodes[a].key # "none") => keys[nodes[a].key] = a
  /\ core # "dead" => \A k \in Keys : (keys[k] # "none" /\ ~Fleet!Has(keys[k])) =>
       keys[k] \in ahead

\* CancelStands without its excuse: a failed write leaves the cancellation in memory, and
\* a boot that forgets it takes the agent out of `ended'.
CancelsKept ==
  \A a \in ended :
    /\ born[a] # Fleet!NoNode
    /\ (a \notin revived /\ Fleet!Has(a)) => nodes[a].status \notin Fleet!Live

FleetInv ==
  /\ FleetTypes /\ FamiliesBorn /\ LinesKnown /\ ParentsWritten /\ ParentsPresent
  /\ JournalAgrees /\ KeysBound /\ CancelsKept /\ Fleet!IdentityKept /\ Fleet!PanicsExplained

\* A non-empty set of numbers up to n has a largest, which is its Max.
LEMMA LargestNumber ==
  ASSUME NEW n \in Nat, NEW S, S \subseteq 1..n, S # {}
  PROVE  Fleet!Max(S) \in S /\ \A i \in S : i <= Fleet!Max(S)
<1> DEFINE R == OpToRel(<, Nat)
           T == {m \in Nat : \A i \in S : i <= m}
<1>1. IsWellFoundedOn(R, Nat)
  BY NatLessThanWellFounded, Zenon
<1>2. \A x, y \in Nat : x < y => <<x, y>> \in R
  BY DEF OpToRel
<1> HIDE DEF R
<1>3. T \subseteq Nat /\ n \in T
  OBVIOUS
<1>4. PICK m \in T : \A y \in T : ~(<<y, m>> \in R)
  BY <1>1, <1>3, WFMin
<1>5. m \in Nat /\ \A i \in S : i <= m
  BY <1>4
<1>6. m \in S
  <2> SUFFICES ASSUME m \notin S PROVE FALSE
    OBVIOUS
  <2>1. m # 0
    <3>1. PICK i \in S : i \in 1..n
      OBVIOUS
    <3> QED
      BY <3>1, <1>5
  <2>2. m - 1 \in Nat /\ m - 1 < m
    BY <1>5, <2>1
  <2>3. \A i \in S : i <= m - 1
    BY <1>5, <2>2
  <2>4. m - 1 \in T
    BY <2>2, <2>3
  <2> QED
    BY <2>2, <2>4, <1>2, <1>4, <1>5
<1>7. \A x \in S : (\A y \in S : x >= y) <=> x = m
  BY <1>5, <1>6
<1>8. Fleet!Max(S) = m
  BY <1>6, <1>7 DEF Fleet!Max
<1> QED
  BY <1>5, <1>6, <1>8

\* What parses is a node.
LEMMA LineKinds ==
  ASSUME FleetIds
  PROVE  /\ \A l \in Lines : Fleet!Parses(l) <=> l \in Nodes
         /\ \A l \in Nodes : l # Fleet!NoNode /\ l # Fleet!Torn /\ Fleet!Parses(l)
         /\ ~Fleet!Parses(Fleet!Torn) /\ ~Fleet!Parses([agent |-> "garbled"])
<1>1. ~Fleet!Parses(Fleet!Torn) /\ ~Fleet!Parses([agent |-> "garbled"])
  BY DEF Fleet!Parses, Fleet!Torn, FleetIds
<1>2. \A l \in Nodes : l.agent \in Agents
  BY DEF Nodes
<1>3. \A l \in Nodes : l # Fleet!NoNode /\ l # Fleet!Torn /\ Fleet!Parses(l)
  BY <1>1, <1>2 DEF Fleet!Parses, Fleet!NoNode, FleetIds
<1> QED
  BY <1>1, <1>3 DEF Lines

\* A line is added at the end, or spoils a torn one.
LEMMA WrittenShape ==
  ASSUME FleetIds, NEW file \in Seq(Lines), NEW line \in Lines
  PROVE  /\ Fleet!Written(file, line) \in Seq(Lines)
         /\ \/ Fleet!Written(file, line) = Append(file, line)
            \/ /\ ~AllParse(Fleet!Written(file, line))
               /\ \A i \in DOMAIN Fleet!Written(file, line) :
                    Fleet!Parses(Fleet!Written(file, line)[i]) =>
                      i \in DOMAIN file /\ Fleet!Written(file, line)[i] = file[i]
<1> DEFINE n == Len(file)
           bad == IF line = Fleet!Torn THEN Fleet!Torn ELSE [agent |-> "garbled"]
<1>1. CASE file # <<>> /\ file[n] = Fleet!Torn
  <2>1. Fleet!Written(file, line) = [file EXCEPT ![n] = bad]
    BY <1>1 DEF Fleet!Written
  <2>2. bad \in Lines /\ ~Fleet!Parses(bad)
    BY LineKinds DEF Lines
  <2> HIDE DEF bad
  <2>3. n \in DOMAIN file /\ n \in Nat /\ DOMAIN file = 1..n
    BY <1>1
  <2>4. /\ [file EXCEPT ![n] = bad] \in Seq(Lines)
        /\ DOMAIN [file EXCEPT ![n] = bad] = DOMAIN file
        /\ [file EXCEPT ![n] = bad][n] = bad
        /\ \A i \in DOMAIN file : i # n => [file EXCEPT ![n] = bad][i] = file[i]
    BY <2>2, <2>3
  <2> QED
    BY <2>1, <2>2, <2>3, <2>4 DEF AllParse
<1>2. CASE ~(file # <<>> /\ file[n] = Fleet!Torn)
  BY <1>2 DEF Fleet!Written
<1> QED
  BY <1>1, <1>2

\* What a boot finds of an agent is a line of it, the last one.
LEMMA LatestIsALine ==
  ASSUME NEW file \in Seq(Lines), NEW a
  PROVE  \/ /\ Fleet!Latest(file, a) = Fleet!NoNode
            /\ \A i \in DOMAIN file : file[i].agent # a
         \/ \E i \in DOMAIN file : file[i].agent = a /\ Fleet!Latest(file, a) = file[i]
<1> DEFINE mine == {i \in DOMAIN file : file[i].agent = a}
<1>1. CASE mine = {}
  BY <1>1 DEF Fleet!Latest
<1>2. CASE mine # {}
  <2>1. Len(file) \in Nat /\ mine \subseteq 1..Len(file)
    OBVIOUS
  <2>2. Fleet!Max(mine) \in mine
    BY <2>1, <1>2, LargestNumber
  <2>3. Fleet!Latest(file, a) = file[Fleet!Max(mine)]
    BY <1>2 DEF Fleet!Latest
  <2> QED
    BY <2>2, <2>3
<1> QED
  BY <1>1, <1>2

LEMMA LatestOfAppend ==
  ASSUME NEW file \in Seq(Lines), NEW line \in Lines, NEW a
  PROVE  Fleet!Latest(Append(file, line), a) =
           IF line.agent = a THEN line ELSE Fleet!Latest(file, a)
<1> DEFINE n == Len(file)
           longer == Append(file, line)
           mine == {i \in DOMAIN file : file[i].agent = a}
           all == {i \in DOMAIN longer : longer[i].agent = a}
<1>1. /\ n \in Nat /\ DOMAIN file = 1..n /\ DOMAIN longer = 1..(n + 1)
      /\ longer[n + 1] = line /\ \A i \in 1..n : longer[i] = file[i]
  OBVIOUS
<1> HIDE DEF longer
<1>2. CASE line.agent = a
  <2>1. n + 1 \in all /\ all \subseteq 1..(n + 1)
    BY <1>1, <1>2
  <2> HIDE DEF all
  <2>2. n + 1 \in Nat /\ all # {}
    BY <2>1, <1>1
  <2>3. Fleet!Max(all) \in all /\ \A i \in all : i <= Fleet!Max(all)
    BY <2>1, <2>2, LargestNumber
  <2>4. Fleet!Max(all) = n + 1
    <3>1. Fleet!Max(all) \in 1..(n + 1) /\ n + 1 <= Fleet!Max(all)
      BY <2>1, <2>3
    <3> HIDE DEF n
    <3> QED
      BY <3>1, <1>1
  <2> QED
    BY <2>2, <2>4, <1>1, <1>2 DEF Fleet!Latest, longer, all
<1>3. CASE line.agent # a
  <2>1. all = mine
    BY <1>1, <1>3
  <2>2. CASE mine = {}
    BY <2>1, <2>2, <1>3 DEF Fleet!Latest, longer
  <2>3. CASE mine # {}
    <3>1. mine \subseteq 1..n
      BY <1>1
    <3>2. Fleet!Max(mine) \in mine
      BY <3>1, <2>3, <1>1, LargestNumber
    <3>3. longer[Fleet!Max(mine)] = file[Fleet!Max(mine)]
      BY <3>1, <3>2, <1>1
    <3> QED
      BY <3>3, <2>1, <2>3, <1>3 DEF Fleet!Latest, longer
  <2> QED
    BY <2>2, <2>3
<1> QED
  BY <1>2, <1>3

\* A key that is loaded comes from a line, and no line with a key is missed.
LEMMA LoadedKeysAreLines ==
  ASSUME NEW file \in Seq(Lines), NEW k \in Keys
  PROVE  \/ /\ Fleet!LoadedKeys(file)[k] = "none"
            /\ \A i \in DOMAIN file : Fleet!Parses(file[i]) => file[i].key # k
         \/ \E i \in DOMAIN file : /\ Fleet!Parses(file[i]) /\ file[i].key = k
                                   /\ Fleet!LoadedKeys(file)[k] = file[i].agent
<1> DEFINE mine == {i \in DOMAIN file : Fleet!Parses(file[i]) /\ file[i].key = k}
<1>1. Fleet!LoadedKeys(file)[k] = IF mine = {} THEN "none" ELSE file[Fleet!Max(mine)].agent
  BY DEF Fleet!LoadedKeys
<1>2. CASE mine = {}
  BY <1>1, <1>2
<1>3. CASE mine # {}
  <2>1. Len(file) \in Nat /\ mine \subseteq 1..Len(file)
    OBVIOUS
  <2>2. Fleet!Max(mine) \in mine
    BY <2>1, <1>3, LargestNumber
  <2> QED
    BY <2>2, <1>1, <1>3
<1> QED
  BY <1>2, <1>3

\* A write adds the node's line at the end, or fails; whatever it leaves, a line that
\* parses is the node's or was there before.
LEMMA PersistShape ==
  ASSUME FleetIds, FleetTypes, NEW node \in Nodes, NEW works \in BOOLEAN,
         Fleet!Persist(node, works)
  PROVE  /\ core = "up" /\ core' = core /\ lines' \in Seq(Lines)
         /\ \A i \in DOMAIN lines' : Fleet!Parses(lines'[i]) =>
              lines'[i] = node \/ \E j \in DOMAIN lines : lines'[i] = lines[j]
         /\ AllParse(lines') => /\ AllParse(lines) /\ lines' \in {lines, Append(lines, node)}
                                /\ works => lines' = Append(lines, node)
         /\ ahead' = IF works THEN ahead \ {node.agent} ELSE ahead \cup {node.agent}
<1>1. /\ core = "up" /\ core' = core
      /\ ahead' = IF works THEN ahead \ {node.agent} ELSE ahead \cup {node.agent}
  BY DEF Fleet!Persist
<1>2. /\ works => lines' = Fleet!Written(lines, node)
      /\ ~works => lines' \in {lines, Fleet!Written(lines, node), Fleet!Written(lines, Fleet!Torn)}
  BY DEF Fleet!Persist
<1>3. node \in Lines /\ Fleet!Torn \in Lines /\ lines \in Seq(Lines)
  BY DEF Lines, FleetTypes
<1>4. ASSUME NEW line \in Lines, lines' = Append(lines, line)
      PROVE  /\ lines' \in Seq(Lines)
             /\ \A i \in DOMAIN lines' :
                  lines'[i] = line \/ \E j \in DOMAIN lines : lines'[i] = lines[j]
             /\ AllParse(lines') => AllParse(lines) /\ Fleet!Parses(line)
  <2>1. /\ Len(lines) \in Nat /\ DOMAIN lines = 1..Len(lines)
        /\ lines' \in Seq(Lines) /\ DOMAIN lines' = 1..(Len(lines) + 1)
        /\ lines'[Len(lines) + 1] = line
        /\ \A i \in 1..Len(lines) : lines'[i] = lines[i]
    BY <1>3, <1>4
  <2>2. \A i \in 1..(Len(lines) + 1) : i = Len(lines) + 1 \/ i \in 1..Len(lines)
    BY <2>1
  <2>3. \A i \in DOMAIN lines :  i \in DOMAIN lines'
    BY <2>1
  <2>4. Len(lines) + 1 \in DOMAIN lines'
    BY <2>1
  <2> QED
    BY <2>1, <2>2, <2>3, <2>4 DEF AllParse
<1>5. CASE lines' = lines
  BY <1>1, <1>2, <1>3, <1>4, <1>5, WrittenShape DEF AllParse
<1>6. CASE lines' = Append(lines, node)
  BY <1>1, <1>3, <1>4, <1>6
<1>7. CASE lines' = Append(lines, Fleet!Torn)
  <2>1. ~AllParse(lines')
    BY <1>3, <1>4, <1>7, LineKinds
  <2> QED
    BY <2>1, <1>1, <1>3, <1>4, <1>7, LineKinds
<1>8. CASE /\ ~AllParse(lines') /\ lines' \in Seq(Lines)
           /\ \A i \in DOMAIN lines' : Fleet!Parses(lines'[i]) =>
                i \in DOMAIN lines /\ lines'[i] = lines[i]
  BY <1>8, <1>1
<1> QED
  <2>1. CASE lines' = Fleet!Written(lines, node)
    BY <2>1, <1>3, <1>6, <1>8, WrittenShape
  <2>2. CASE lines' = Fleet!Written(lines, Fleet!Torn)
    BY <2>2, <1>3, <1>7, <1>8, WrittenShape
  <2> QED
    BY <2>1, <2>2, <1>2, <1>5

\* One write of a node, with what its operation does to the memory: a spawn binds a free
\* key and a new identity, and enters its node if the write works; any other operation
\* changes an agent's node and keeps who it is.
LEMMA WriteStep ==
  ASSUME FleetIds, FleetInv, NEW node \in Nodes, NEW works \in BOOLEAN,
         Fleet!Persist(node, works),
         \/ /\ works \/ Fleet!Has(node.agent)
            /\ nodes' = [nodes EXCEPT ![node.agent] = node]
         \/ ~works /\ ~Fleet!Has(node.agent) /\ nodes' = nodes,
         born' = [born EXCEPT ![node.agent] = Fleet!Identity(node)],
         born[node.agent] \in {Fleet!NoNode, Fleet!Identity(node)},
         keys' = IF node.key # "none" THEN [keys EXCEPT ![node.key] = node.agent] ELSE keys,
         node.key # "none" => keys[node.key] \in {"none", node.agent},
         node.parent # "none" => /\ Fleet!Has(node.parent)
                                 /\ node.root = nodes[node.parent].root,
         ended' \subseteq Agents
  PROVE  /\ FleetTypes' /\ FamiliesBorn' /\ LinesKnown' /\ ParentsWritten' /\ ParentsPresent'
         /\ JournalAgrees' /\ KeysBound' /\ Fleet!IdentityKept' /\ Fleet!PanicsExplained'
<1> DEFINE a == node.agent
           id == Fleet!Identity(node)
<1> USE DEF FleetInv
<1>1. /\ a \in Agents /\ node.parent \in Agents \cup {"none"} /\ node.key \in Keys \cup {"none"}
      /\ id \in Identities /\ id.agent = a /\ id.parent = node.parent /\ id.root = node.root
      /\ id.key = node.key
  BY DEF Nodes, Identities, Fleet!Identity
<1>2. /\ core = "up" /\ core' = core /\ lines' \in Seq(Lines)
      /\ \A i \in DOMAIN lines' : Fleet!Parses(lines'[i]) =>
           lines'[i] = node \/ \E j \in DOMAIN lines : lines'[i] = lines[j]
      /\ AllParse(lines') => /\ AllParse(lines) /\ lines' \in {lines, Append(lines, node)}
                             /\ works => lines' = Append(lines, node)
      /\ ahead' = IF works THEN ahead \ {a} ELSE ahead \cup {a}
  BY PersistShape
<1>3. /\ node # Fleet!NoNode /\ id # Fleet!NoNode
      /\ \A n \in Nodes : n # Fleet!NoNode /\ n.agent \in Agents
      /\ \A l \in Lines : Fleet!Parses(l) => l \in Nodes
  BY <1>1, LineKinds DEF Fleet!NoNode, FleetIds, Nodes
<1>4. /\ \A b \in Agents : born[b] # Fleet!NoNode => born'[b] = born[b]
      /\ born'[a] = id
      /\ \A b \in Agents : b # a => born'[b] = born[b]
  BY <1>1 DEF FleetTypes
<1>5. /\ \A b \in Agents : b # a => nodes'[b] = nodes[b]
      /\ \/ nodes'[a] = node /\ (works \/ nodes[a] # Fleet!NoNode)
         \/ ~works /\ nodes'[a] = nodes[a] /\ nodes[a] = Fleet!NoNode
  BY <1>1 DEF FleetTypes, Fleet!Has
<1>6. /\ \A b \in Agents : nodes[b] # Fleet!NoNode => nodes'[b] # Fleet!NoNode
      /\ works => nodes'[a] # Fleet!NoNode
  BY <1>3, <1>5
<1>7. /\ \A k \in Keys : keys[k] # "none" => keys'[k] = keys[k]
      /\ \A k \in Keys : keys'[k] = keys[k] \/ keys'[k] = a
      /\ node.key # "none" => keys'[node.key] = a
  BY <1>1 DEF FleetTypes
<1> HIDE DEF id
<1>8. \A b \in Agents : nodes[b] # Fleet!NoNode => nodes[b] \in Nodes /\ nodes[b].agent = b
                                                   /\ Fleet!Identity(nodes[b]) = born[b]
  BY DEF FleetTypes, Fleet!IdentityKept, Fleet!Has
<1>9. FleetTypes'
  <2>1. nodes' \in [Agents -> Nodes \cup {Fleet!NoNode}]
    BY <1>1 DEF FleetTypes
  <2>2. keys' \in [Keys -> Agents \cup {"none"}]
    BY <1>1 DEF FleetTypes
  <2>3. born' \in [Agents -> Identities \cup {Fleet!NoNode}]
    BY <1>1 DEF FleetTypes, id
  <2> QED
    BY <2>1, <2>2, <2>3, <1>2 DEF FleetTypes, Fleet!NoNode, Nodes, Identities, Lines, Fleet!Torn,
       Fleet!Live
<1>10. FamiliesBorn'
  <2> SUFFICES ASSUME NEW b \in Agents, born'[b] # Fleet!NoNode, born'[b].parent # "none"
               PROVE  /\ born'[born'[b].parent] # Fleet!NoNode
                      /\ born'[born'[b].parent].root = born'[b].root
    BY DEF FamiliesBorn, Fleet!NoNode
  <2>1. CASE b = a
    <3>1. node.parent # "none" /\ born'[b].parent = node.parent /\ born'[b].root = node.root
      BY <2>1, <1>1, <1>4
    <3>2. /\ node.parent \in Agents /\ nodes[node.parent] # Fleet!NoNode
          /\ node.root = nodes[node.parent].root
      BY <3>1, <1>1 DEF Fleet!Has
    <3>3. nodes[node.parent] \in Nodes /\ Fleet!Identity(nodes[node.parent]) = born[node.parent]
      BY <3>2, <1>8
    <3>4. born[node.parent].agent \in Agents /\ born[node.parent].root = node.root
      BY <3>2, <3>3 DEF Fleet!Identity, Nodes
    <3>5. born[node.parent] # Fleet!NoNode
      BY <3>4 DEF Fleet!NoNode, FleetIds
    <3> QED
      BY <3>1, <3>2, <3>4, <3>5, <1>4
  <2>2. CASE b # a
    <3>1. born'[b] = born[b]
      BY <2>2, <1>4
    <3>2. born[b] \in Identities
      BY <3>1 DEF FleetTypes
    <3>3. born[b].parent \in Agents
      BY <3>1, <3>2 DEF Identities
    <3>4. /\ born[born[b].parent] # Fleet!NoNode
          /\ born[born[b].parent].root = born[b].root
      BY <3>1 DEF FamiliesBorn
    <3> QED
      BY <3>1, <3>3, <3>4, <1>4
  <2> QED
    BY <2>1, <2>2

<1>11. LinesKnown'
  <2> SUFFICES ASSUME NEW i \in DOMAIN lines', Fleet!Parses(lines'[i])
               PROVE  Fleet!Identity(lines'[i]) = born'[lines'[i].agent]
    BY DEF LinesKnown, Fleet!Parses, Fleet!Identity
  <2>1. CASE lines'[i] = node
    BY <2>1, <1>4 DEF id
  <2>2. ASSUME NEW j \in DOMAIN lines, lines'[i] = lines[j]
        PROVE  Fleet!Identity(lines'[i]) = born'[lines'[i].agent]
    <3>1. lines[j].agent \in Agents /\ Fleet!Identity(lines[j]) = born[lines[j].agent]
      BY <2>2 DEF LinesKnown, Fleet!Parses
    <3>2. born[lines[j].agent].agent = lines[j].agent
      BY <3>1 DEF Fleet!Identity
    <3>3. born[lines[j].agent] # Fleet!NoNode
      BY <3>1, <3>2 DEF Fleet!NoNode, FleetIds
    <3> QED
      BY <2>2, <3>1, <3>3, <1>4
  <2> QED
    BY <2>1, <2>2, <1>2
<1>12. ParentsWritten'
  <2> SUFFICES ASSUME AllParse(lines)'
               PROVE  /\ \A i \in DOMAIN lines' : lines'[i].parent # "none" =>
                           \E j \in DOMAIN lines' : lines'[j].agent = lines'[i].parent
                      /\ \A b \in Agents : nodes'[b] # Fleet!NoNode =>
                           \E j \in DOMAIN lines' : lines'[j].agent = b
    BY DEF ParentsWritten, Fleet!Has
  <2>1. AllParse(lines')
    BY DEF AllParse
  <2>2. AllParse(lines) /\ lines' \in {lines, Append(lines, node)}
    BY <2>1, <1>2
  <2>3. \A j \in DOMAIN lines : j \in DOMAIN lines' /\ lines'[j] = lines[j]
    BY <2>2 DEF FleetTypes
  <2>4. \A b \in Agents : nodes[b] # Fleet!NoNode => \E j \in DOMAIN lines' : lines'[j].agent = b
    BY <2>2, <2>3, <1>2 DEF ParentsWritten, Fleet!Has
  <2>5. ASSUME NEW i \in DOMAIN lines', lines'[i].parent # "none"
        PROVE  \E j \in DOMAIN lines' : lines'[j].agent = lines'[i].parent
    <3>1. CASE lines'[i] = node
      BY <2>4, <2>5, <3>1, <1>1 DEF Fleet!Has
    <3>2. ASSUME NEW j \in DOMAIN lines, lines'[i] = lines[j]
          PROVE  \E k \in DOMAIN lines' : lines'[k].agent = lines'[i].parent
      <4>1. PICK k \in DOMAIN lines : lines[k].agent = lines[j].parent
        BY <2>2, <2>5, <3>2 DEF ParentsWritten
      <4> QED
        BY <4>1, <2>3, <3>2
    <3> QED
      BY <2>1, <3>1, <3>2, <1>2 DEF AllParse
  <2>6. ASSUME NEW b \in Agents, nodes'[b] # Fleet!NoNode
        PROVE  \E j \in DOMAIN lines' : lines'[j].agent = b
    <3>1. CASE nodes[b] # Fleet!NoNode
      BY <3>1, <2>4
    <3>2. CASE nodes[b] = Fleet!NoNode
      <4>1. b = a /\ nodes'[a] = node
        BY <2>6, <3>2, <1>5
      <4>2. works
        BY <4>1, <2>6, <3>2, <1>5
      <4> QED
        BY <4>1, <4>2, <2>1, <1>2 DEF FleetTypes
    <3> QED
      BY <3>1, <3>2
  <2> QED
    BY <2>5, <2>6
<1>13. ParentsPresent'
  <2> SUFFICES ASSUME NEW b \in Agents, nodes'[b] # Fleet!NoNode, nodes'[b].parent # "none"
               PROVE  nodes'[nodes'[b].parent] # Fleet!NoNode
    BY DEF ParentsPresent, Fleet!Has
  <2>1. CASE nodes'[b] = node
    BY <2>1, <1>1, <1>6 DEF Fleet!Has
  <2>2. CASE nodes'[b] = nodes[b]
    <3>1. nodes[b].parent \in Agents
      BY <2>2, <1>8 DEF Nodes
    <3> QED
      BY <2>2, <3>1, <1>2, <1>6 DEF ParentsPresent, Fleet!Has
  <2> QED
    BY <2>1, <2>2, <1>5
<1>14. JournalAgrees'
  <2> SUFFICES ASSUME AllParse(lines)', NEW b \in Agents, b \notin ahead'
               PROVE  Fleet!Latest(lines', b) = nodes'[b]
    BY DEF JournalAgrees, Fleet!Latest, Fleet!NoNode
  <2>1. AllParse(lines')
    BY DEF AllParse
  <2>2. /\ AllParse(lines) /\ lines' \in {lines, Append(lines, node)}
        /\ works => lines' = Append(lines, node)
    BY <2>1, <1>2
  <2>3. node \in Lines /\ lines \in Seq(Lines)
    BY DEF Lines, FleetTypes
  <2>4. Fleet!Latest(Append(lines, node), b) = IF a = b THEN node ELSE Fleet!Latest(lines, b)
    BY <2>3, LatestOfAppend
  <2>5. CASE b = a
    <3>1. works
      BY <2>5, <1>2
    <3>2. lines' = Append(lines, node) /\ nodes'[b] = node
      BY <3>1, <2>2, <2>5, <1>5
    <3> QED
      BY <3>2, <2>5, <2>4
  <2>6. CASE b # a
    <3>1. b \notin ahead
      BY <2>6, <1>2
    <3>2. Fleet!Latest(lines, b) = nodes[b]
      BY <3>1, <2>2, <1>2 DEF JournalAgrees
    <3>3. Fleet!Latest(lines', b) = Fleet!Latest(lines, b)
      BY <2>2, <2>6, <2>4
    <3> QED
      BY <3>2, <3>3, <2>6, <1>5
  <2> QED
    BY <2>5, <2>6
<1>15. KeysBound'
  <2>1. ASSUME NEW i \in DOMAIN lines', Fleet!Parses(lines'[i]), lines'[i].key # "none"
        PROVE  keys'[lines'[i].key] = lines'[i].agent
    <3>1. CASE lines'[i] = node
      BY <2>1, <3>1, <1>7
    <3>2. ASSUME NEW j \in DOMAIN lines, lines'[i] = lines[j]
          PROVE  keys'[lines'[i].key] = lines'[i].agent
      <4>1. lines[j] \in Nodes
        BY <2>1, <3>2, <1>3 DEF FleetTypes
      <4>2. lines[j].key \in Keys /\ lines[j].agent \in Agents
        BY <2>1, <3>2, <4>1 DEF Nodes
      <4>3. keys[lines[j].key] = lines[j].agent
        BY <2>1, <3>2 DEF KeysBound
      <4>4. keys[lines[j].key] # "none"
        BY <4>2, <4>3 DEF FleetIds
      <4> QED
        BY <3>2, <4>2, <4>3, <4>4, <1>7
    <3> QED
      BY <2>1, <3>1, <3>2, <1>2
  <2>2. ASSUME NEW b \in Agents, nodes'[b] # Fleet!NoNode, nodes'[b].key # "none"
        PROVE  keys'[nodes'[b].key] = b
    <3>1. CASE nodes'[b] = node
      <4>1. b = a
        BY <2>2, <3>1, <1>1, <1>5, <1>8
      <4> QED
        BY <2>2, <3>1, <4>1, <1>7
    <3>2. CASE nodes'[b] = nodes[b]
      <4>1. nodes[b].key \in Keys
        BY <2>2, <3>2, <1>8 DEF Nodes
      <4>2. keys[nodes[b].key] = b
        BY <2>2, <3>2 DEF KeysBound, Fleet!Has
      <4> QED
        BY <3>2, <4>1, <4>2, <1>7 DEF FleetIds
    <3> QED
      BY <3>1, <3>2, <1>5
  <2>3. ASSUME NEW k \in Keys, keys'[k] # "none", nodes'[keys'[k]] = Fleet!NoNode
        PROVE  keys'[k] \in ahead'
    <3>1. CASE keys'[k] = a
      BY <2>3, <3>1, <1>2, <1>6
    <3>2. CASE keys'[k] = keys[k] /\ keys[k] # a
      <4>1. keys[k] \in Agents
        BY <2>3, <3>2 DEF FleetTypes
      <4>2. nodes[keys[k]] = Fleet!NoNode
        BY <2>3, <3>2, <4>1, <1>6
      <4>3. keys[k] \in ahead
        BY <2>3, <3>2, <4>2, <1>2 DEF KeysBound, Fleet!Has
      <4> QED
        BY <3>2, <4>3, <1>2
    <3> QED
      BY <3>1, <3>2, <1>7
  <2>4. (core # "dead" => \A k \in Keys : (keys[k] # "none" /\ ~Fleet!Has(keys[k])) =>
           keys[k] \in ahead)'
    BY <2>3 DEF Fleet!Has, Fleet!NoNode
  <2>5. (\A b \in Agents : (Fleet!Has(b) /\ nodes[b].key # "none") => keys[nodes[b].key] = b)'
    BY <2>2 DEF Fleet!Has, Fleet!NoNode
  <2>6. (\A i \in DOMAIN lines : (Fleet!Parses(lines[i]) /\ lines[i].key # "none") =>
           keys[lines[i].key] = lines[i].agent)'
    BY <2>1 DEF Fleet!Parses
  <2> QED
    BY <2>4, <2>5, <2>6 DEF KeysBound
<1>16. Fleet!IdentityKept'
  <2> SUFFICES ASSUME NEW b \in Agents, nodes'[b] # Fleet!NoNode
               PROVE  nodes'[b].agent = b /\ Fleet!Identity(nodes'[b]) = born'[b]
    BY DEF Fleet!IdentityKept, Fleet!Has, Fleet!NoNode, Fleet!Identity
  <2>1. CASE nodes'[b] = node
    <3>1. b = a
      BY <2>1, <1>1, <1>5, <1>8
    <3> QED
      BY <2>1, <3>1, <1>4 DEF id
  <2>2. CASE nodes'[b] = nodes[b]
    <3>1. nodes[b].agent = b /\ Fleet!Identity(nodes[b]) = born[b]
      BY <2>2, <1>8
    <3>2. born[b].agent = b
      BY <3>1 DEF Fleet!Identity
    <3>3. born[b] # Fleet!NoNode
      BY <3>2 DEF Fleet!NoNode, FleetIds
    <3> QED
      BY <2>2, <3>1, <3>3, <1>4
  <2> QED
    BY <2>1, <2>2, <1>5
<1>17. Fleet!PanicsExplained'
  BY <1>2 DEF Fleet!PanicsExplained
<1> QED
  BY <1>9, <1>10, <1>11, <1>12, <1>13, <1>14, <1>15, <1>16, <1>17

LEMMA SpawnStep ==
  ASSUME FleetIds, FleetInv, NEW p \in Agents \cup {"none"}, NEW a \in Agents,
         NEW k \in Keys \cup {"none"}, NEW c \in {"expansion", "no_expansion"},
         NEW works \in BOOLEAN, Fleet!Spawn(p, a, k, c, works)
  PROVE  FleetInv'
<1> DEFINE root == IF p = "none" THEN a ELSE nodes[p].root
           node == [agent |-> a, parent |-> p, key |-> k, capsule |-> c, root |-> root,
                    status |-> "foreground", cursor |-> 0]
<1> USE DEF FleetInv
<1>1. /\ born[a] = Fleet!NoNode /\ (k # "none" => keys[k] = "none")
      /\ (p # "none" => Fleet!Has(p)) /\ Fleet!Persist(node, works)
      /\ keys' = IF k # "none" THEN [keys EXCEPT ![k] = a] ELSE keys
      /\ nodes' = IF works THEN [nodes EXCEPT ![a] = node] ELSE nodes
      /\ born' = [born EXCEPT ![a] = Fleet!Identity(node)]
      /\ ended' = ended /\ revived' = revived
  BY DEF Fleet!Spawn
<1>2. root \in Agents
  BY <1>1 DEF FleetTypes, Nodes, Fleet!Has
<1>3. /\ node \in Nodes /\ node.agent = a /\ node.parent = p /\ node.key = k /\ node.root = root
  BY <1>2 DEF Nodes, Fleet!Live
<1>4. ~Fleet!Has(a)
  <2> SUFFICES ASSUME Fleet!Has(a) PROVE FALSE
    OBVIOUS
  <2>1. nodes[a].agent = a /\ Fleet!Identity(nodes[a]) = born[a]
    BY DEF Fleet!IdentityKept
  <2>2. born[a].agent = a
    BY <2>1 DEF Fleet!Identity
  <2> QED
    BY <2>2, <1>1 DEF Fleet!NoNode, FleetIds
<1>5. p # "none" => node.root = nodes[p].root
  BY <1>3
<1>6. /\ \/ (works \/ Fleet!Has(a)) /\ nodes' = [nodes EXCEPT ![a] = node]
         \/ ~works /\ ~Fleet!Has(a) /\ nodes' = nodes
      /\ born[a] \in {Fleet!NoNode, Fleet!Identity(node)}
      /\ k # "none" => keys[k] \in {"none", a}
      /\ ended' \subseteq Agents
  BY <1>1, <1>4 DEF FleetTypes
<1> HIDE DEF node, root
<1>7. /\ FleetTypes' /\ FamiliesBorn' /\ LinesKnown' /\ ParentsWritten' /\ ParentsPresent'
      /\ JournalAgrees' /\ KeysBound' /\ Fleet!IdentityKept' /\ Fleet!PanicsExplained'
  BY <1>1, <1>3, <1>5, <1>6, WriteStep
<1>8. CancelsKept'
  <2> SUFFICES ASSUME NEW b \in ended
               PROVE  /\ born'[b] # Fleet!NoNode
                      /\ (b \notin revived /\ nodes'[b] # Fleet!NoNode) =>
                           nodes'[b].status \notin Fleet!Live
    BY <1>1 DEF CancelsKept, Fleet!Has, Fleet!NoNode, Fleet!Live
  <2>1. b \in Agents /\ born[b] # Fleet!NoNode
    BY DEF CancelsKept, FleetTypes
  <2>2. b # a
    BY <2>1, <1>1
  <2>3. born'[b] = born[b] /\ nodes'[b] = nodes[b]
    BY <2>1, <2>2, <1>1 DEF FleetTypes
  <2> QED
    BY <2>1, <2>3 DEF CancelsKept, Fleet!Has
<1> QED
  BY <1>7, <1>8

\* Every other operation writes a node of the same identity.
LEMMA UpdateStep ==
  ASSUME FleetIds, FleetInv, NEW a \in Agents, NEW node, NEW works \in BOOLEAN,
         Fleet!Has(a) => node \in Nodes /\ Fleet!Identity(node) = Fleet!Identity(nodes[a]),
         Fleet!Update(a, node, works),
         \/ ended' = ended
         \/ ended' = ended \cup {a} /\ node.status \notin Fleet!Live
  PROVE  FleetInv'
<1> USE DEF FleetInv
<1>1. /\ Fleet!Has(a) /\ Fleet!Persist(node, works) /\ nodes' = [nodes EXCEPT ![a] = node]
      /\ keys' = keys /\ born' = born
  BY DEF Fleet!Update
<1>2. /\ nodes[a] \in Nodes /\ nodes[a].agent = a /\ Fleet!Identity(nodes[a]) = born[a]
  BY <1>1 DEF FleetTypes, Fleet!IdentityKept, Fleet!Has
<1>3. /\ node \in Nodes /\ Fleet!Identity(node) = born[a]
      /\ node.agent = a /\ node.parent = nodes[a].parent /\ node.root = nodes[a].root
      /\ node.key = nodes[a].key
  BY <1>1, <1>2 DEF Fleet!Identity
<1>4. born' = [born EXCEPT ![a] = Fleet!Identity(node)]
  BY <1>1, <1>3 DEF FleetTypes
<1>5. node.key # "none" => node.key \in Keys /\ keys[node.key] = a
  BY <1>1, <1>2, <1>3 DEF KeysBound, Nodes
<1>6. keys' = IF node.key # "none" THEN [keys EXCEPT ![node.key] = a] ELSE keys
  BY <1>1, <1>5 DEF FleetTypes
<1>7. node.parent # "none" => Fleet!Has(node.parent) /\ node.root = nodes[node.parent].root
  <2> SUFFICES ASSUME node.parent # "none"
               PROVE  Fleet!Has(node.parent) /\ node.root = nodes[node.parent].root
    OBVIOUS
  <2>1. core = "up"
    BY <1>1 DEF Fleet!Persist
  <2>2. Fleet!Has(node.parent) /\ node.parent \in Agents
    BY <2>1, <1>1, <1>2, <1>3 DEF ParentsPresent, Nodes
  <2>3. Fleet!Identity(nodes[node.parent]) = born[node.parent]
    BY <2>2 DEF Fleet!IdentityKept
  <2>4. nodes[node.parent].root = born[node.parent].root
    BY <2>3 DEF Fleet!Identity
  <2>5. born[a].parent = node.parent /\ born[a].root = node.root /\ born[a].agent = a
    BY <1>3 DEF Fleet!Identity
  <2>6. born[a] # Fleet!NoNode
    BY <2>5 DEF Fleet!NoNode, FleetIds
  <2>7. born[node.parent].root = node.root
    BY <2>5, <2>6 DEF FamiliesBorn
  <2> QED
    BY <2>2, <2>4, <2>7
<1>8. ended' \subseteq Agents
  BY DEF FleetTypes
<1>9. /\ FleetTypes' /\ FamiliesBorn' /\ LinesKnown' /\ ParentsWritten' /\ ParentsPresent'
      /\ JournalAgrees' /\ KeysBound' /\ Fleet!IdentityKept' /\ Fleet!PanicsExplained'
  <2>1. /\ born[node.agent] \in {Fleet!NoNode, Fleet!Identity(node)}
        /\ node.key # "none" => keys[node.key] \in {"none", node.agent}
    BY <1>3, <1>5
  <2> QED
    BY <2>1, <1>1, <1>3, <1>4, <1>6, <1>7, <1>8, WriteStep
<1>10. CancelsKept'
  <2> SUFFICES ASSUME NEW b \in ended'
               PROVE  /\ born[b] # Fleet!NoNode
                      /\ (b \notin revived' /\ nodes'[b] # Fleet!NoNode) =>
                           nodes'[b].status \notin Fleet!Live
    BY <1>1 DEF CancelsKept, Fleet!Has, Fleet!NoNode, Fleet!Live
  <2>1. revived' = IF a \in ended /\ node.status \in Fleet!Live THEN revived \cup {a} ELSE revived
    BY DEF Fleet!Update
  <2>2. CASE b = a
    <3>1. born[a].agent = a
      BY <1>3 DEF Fleet!Identity
    <3>2. born[b] # Fleet!NoNode /\ nodes'[b] = node
      BY <2>2, <3>1, <1>1 DEF Fleet!NoNode, FleetIds, FleetTypes
    <3> QED
      BY <2>1, <2>2, <3>2
  <2>3. CASE b # a
    <3>1. b \in ended /\ b \in Agents
      BY <2>3 DEF FleetTypes
    <3>2. nodes'[b] = nodes[b]
      BY <2>3, <3>1, <1>1 DEF FleetTypes
    <3> QED
      BY <2>1, <2>3, <3>1, <3>2 DEF CancelsKept, Fleet!Has
  <2> QED
    BY <2>2, <2>3
<1> QED
  BY <1>9, <1>10

\* A boot that fails leaves the core dead, with one torn line more at most; one that
\* succeeds finds every agent by its last line, and its parent and key with it.
LEMMA RestartStep ==
  ASSUME FleetIds, FleetInv, NEW torn \in BOOLEAN, Fleet!Restart(torn)
  PROVE  FleetInv'
<1> USE DEF FleetInv
<1>1. /\ core # "dead" /\ ahead' = {} /\ ended' = ended \ ahead /\ born' = born
      /\ revived' = revived /\ lines' = IF torn THEN Fleet!Written(lines, Fleet!Torn) ELSE lines
      /\ IF AllParse(lines')
         THEN /\ core' = "up" /\ nodes' = [a \in Agents |-> Fleet!Latest(lines', a)]
              /\ keys' = Fleet!LoadedKeys(lines')
         ELSE core' = "dead" /\ nodes' = nodes /\ keys' = keys
  BY DEF Fleet!Restart, AllParse
<1>2. lines \in Seq(Lines) /\ Fleet!Torn \in Lines
  BY DEF FleetTypes, Lines
<1>3. /\ lines' \in Seq(Lines)
      /\ \A i \in DOMAIN lines' : Fleet!Parses(lines'[i]) =>
           i \in DOMAIN lines /\ lines'[i] = lines[i]
      /\ AllParse(lines') => lines' = lines
  <2>1. CASE ~torn
    BY <2>1, <1>1, <1>2
  <2>2. CASE lines' = Append(lines, Fleet!Torn)
    <3>1. /\ Len(lines) \in Nat /\ DOMAIN lines = 1..Len(lines)
          /\ lines' \in Seq(Lines) /\ DOMAIN lines' = 1..(Len(lines) + 1)
          /\ lines'[Len(lines) + 1] = Fleet!Torn
          /\ \A i \in 1..Len(lines) : lines'[i] = lines[i]
      BY <2>2, <1>2
    <3>2. ~Fleet!Parses(Fleet!Torn) /\ Len(lines) + 1 \in DOMAIN lines'
      BY <3>1, LineKinds
    <3>3. \A i \in DOMAIN lines' : i = Len(lines) + 1 \/ i \in DOMAIN lines
      BY <3>1
    <3> QED
      BY <3>1, <3>2, <3>3 DEF AllParse
  <2>3. CASE torn /\ lines' # Append(lines, Fleet!Torn)
    BY <2>3, <1>1, <1>2, WrittenShape
  <2> QED
    BY <2>1, <2>2, <2>3
<1>4. FamiliesBorn'
  BY <1>1 DEF FamiliesBorn, Fleet!NoNode
<1>5. LinesKnown'
  <2>1. \A i \in DOMAIN lines' : Fleet!Parses(lines'[i]) =>
          Fleet!Identity(lines'[i]) = born[lines'[i].agent]
    BY <1>3 DEF LinesKnown
  <2> QED
    BY <2>1, <1>1 DEF LinesKnown, Fleet!Parses, Fleet!Identity
<1>6. Fleet!PanicsExplained'
  BY <1>1 DEF Fleet!PanicsExplained
<1>7. CASE ~AllParse(lines')
  <2>1. core' = "dead" /\ nodes' = nodes /\ keys' = keys /\ ~AllParse(lines)'
    BY <1>1, <1>7 DEF AllParse
  <2>2. FleetTypes'
    BY <2>1, <1>1, <1>3 DEF FleetTypes, Fleet!NoNode, Nodes, Identities, Lines, Fleet!Torn,
       Fleet!Live
  <2>3. ParentsWritten' /\ ParentsPresent' /\ JournalAgrees'
    BY <2>1 DEF ParentsWritten, ParentsPresent, JournalAgrees
  <2>4. \A i \in DOMAIN lines' : (Fleet!Parses(lines'[i]) /\ lines'[i].key # "none") =>
          keys[lines'[i].key] = lines'[i].agent
    BY <1>3 DEF KeysBound
  <2>5. KeysBound'
    BY <2>1, <2>4 DEF KeysBound, Fleet!Parses, Fleet!Has, Fleet!NoNode
  <2>6. CancelsKept'
    BY <2>1, <1>1 DEF CancelsKept, Fleet!Has, Fleet!NoNode, Fleet!Live
  <2>7. Fleet!IdentityKept'
    BY <2>1, <1>1 DEF Fleet!IdentityKept, Fleet!Has, Fleet!NoNode, Fleet!Identity
  <2> QED
    BY <2>2, <2>3, <2>5, <2>6, <2>7, <1>4, <1>5, <1>6
<1>8. CASE AllParse(lines')
  <2>1. /\ lines' = lines /\ AllParse(lines) /\ core' = "up"
        /\ \A a \in Agents : nodes'[a] = Fleet!Latest(lines, a)
        /\ \A k \in Keys : keys'[k] = Fleet!LoadedKeys(lines)[k]
    BY <1>1, <1>3, <1>8
  <2>2. \A i \in DOMAIN lines : lines[i] \in Nodes /\ lines[i].agent \in Agents
    BY <2>1, <1>2, LineKinds DEF AllParse, Fleet!Parses
  <2>3. \A a \in Agents :
          \/ nodes'[a] = Fleet!NoNode /\ \A i \in DOMAIN lines : lines[i].agent # a
          \/ \E i \in DOMAIN lines : lines[i].agent = a /\ nodes'[a] = lines[i]
    BY <2>1, <1>2, LatestIsALine
  <2>4. \A n \in Nodes : n # Fleet!NoNode
    BY LineKinds
  <2>5. \A a \in Agents : nodes'[a] # Fleet!NoNode =>
          \E i \in DOMAIN lines : lines[i].agent = a /\ nodes'[a] = lines[i]
    BY <2>3
  <2>6. \A i \in DOMAIN lines : nodes'[lines[i].agent] # Fleet!NoNode
    BY <2>2, <2>3, <2>4
  <2>7. \A k \in Keys :
          \/ keys'[k] = "none" /\ \A i \in DOMAIN lines : lines[i].key # k
          \/ \E i \in DOMAIN lines : lines[i].key = k /\ keys'[k] = lines[i].agent
    BY <2>1, <1>2, LoadedKeysAreLines DEF AllParse
  <2>8. FleetTypes'
    <3>1. nodes' \in [Agents -> Nodes \cup {Fleet!NoNode}]
      BY <2>1, <2>2, <2>3, <1>1
    <3>2. keys' = [k \in Keys |-> Fleet!LoadedKeys(lines)[k]]
      BY <2>1, <1>1 DEF Fleet!LoadedKeys
    <3>3. keys' \in [Keys -> Agents \cup {"none"}]
      BY <2>2, <2>7, <3>2
    <3> QED
      BY <3>1, <3>3, <1>1, <1>3 DEF FleetTypes, Fleet!NoNode, Nodes, Identities, Lines,
         Fleet!Torn, Fleet!Live
  <2>9. ParentsWritten'
    <3>1. \A i \in DOMAIN lines : lines[i].parent # "none" =>
            \E j \in DOMAIN lines : lines[j].agent = lines[i].parent
      BY <2>1 DEF ParentsWritten
    <3>2. \A a \in Agents : nodes'[a] # Fleet!NoNode => \E j \in DOMAIN lines : lines[j].agent = a
      BY <2>5
    <3> QED
      BY <3>1, <3>2, <2>1 DEF ParentsWritten, Fleet!Has, Fleet!NoNode
  <2>10. ParentsPresent'
    <3> SUFFICES ASSUME NEW a \in Agents, nodes'[a] # Fleet!NoNode, nodes'[a].parent # "none"
                 PROVE  nodes'[nodes'[a].parent] # Fleet!NoNode
      BY DEF ParentsPresent, Fleet!Has, Fleet!NoNode
    <3>1. PICK i \in DOMAIN lines : nodes'[a] = lines[i]
      BY <2>5
    <3>2. PICK j \in DOMAIN lines : lines[j].agent = lines[i].parent
      BY <3>1, <2>1 DEF ParentsWritten
    <3> QED
      BY <3>1, <3>2, <2>6
  <2>11. JournalAgrees'
    BY <2>1 DEF JournalAgrees, Fleet!Latest, Fleet!NoNode
  <2>12. KeysBound'
    <3>1. ASSUME NEW i \in DOMAIN lines, lines[i].key # "none"
          PROVE  keys'[lines[i].key] = lines[i].agent
      <4>1. lines[i].key \in Keys
        BY <3>1, <2>2 DEF Nodes
      <4>2. PICK j \in DOMAIN lines :
              lines[j].key = lines[i].key /\ keys'[lines[i].key] = lines[j].agent
        BY <4>1, <2>7
      <4>3. keys[lines[i].key] = lines[i].agent /\ keys[lines[j].key] = lines[j].agent
        BY <3>1, <4>2, <2>1 DEF KeysBound, AllParse
      <4> QED
        BY <4>2, <4>3
    <3>2. ASSUME NEW a \in Agents, nodes'[a] # Fleet!NoNode, nodes'[a].key # "none"
          PROVE  keys'[nodes'[a].key] = a
      BY <2>5, <3>1, <3>2
    <3>3. ASSUME NEW k \in Keys, keys'[k] # "none" PROVE nodes'[keys'[k]] # Fleet!NoNode
      BY <2>6, <2>7, <3>3
    <3>4. (\A i \in DOMAIN lines : (Fleet!Parses(lines[i]) /\ lines[i].key # "none") =>
             keys[lines[i].key] = lines[i].agent)'
      BY <3>1, <2>1 DEF Fleet!Parses
    <3>5. (\A a \in Agents : (Fleet!Has(a) /\ nodes[a].key # "none") => keys[nodes[a].key] = a)'
      BY <3>2 DEF Fleet!Has, Fleet!NoNode
    <3>6. (core # "dead" => \A k \in Keys : (keys[k] # "none" /\ ~Fleet!Has(keys[k])) =>
             keys[k] \in ahead)'
      BY <3>3 DEF Fleet!Has, Fleet!NoNode
    <3> QED
      BY <3>4, <3>5, <3>6 DEF KeysBound
  <2>13. CancelsKept'
    <3> SUFFICES ASSUME NEW b \in ended, b \notin ahead
                 PROVE  /\ born[b] # Fleet!NoNode
                        /\ (b \notin revived /\ nodes'[b] # Fleet!NoNode) =>
                             nodes'[b].status \notin Fleet!Live
      BY <1>1 DEF CancelsKept, Fleet!Has, Fleet!NoNode, Fleet!Live
    <3>1. b \in Agents /\ Fleet!Latest(lines, b) = nodes[b]
      BY <2>1, <1>1 DEF JournalAgrees, FleetTypes
    <3>2. nodes'[b] = nodes[b]
      BY <3>1, <2>1
    <3> QED
      BY <3>2 DEF CancelsKept, Fleet!Has
  <2>14. Fleet!IdentityKept'
    <3> SUFFICES ASSUME NEW a \in Agents, nodes'[a] # Fleet!NoNode
                 PROVE  nodes'[a].agent = a /\ Fleet!Identity(nodes'[a]) = born[a]
      BY <1>1 DEF Fleet!IdentityKept, Fleet!Has, Fleet!NoNode, Fleet!Identity
    <3>1. PICK i \in DOMAIN lines : lines[i].agent = a /\ nodes'[a] = lines[i]
      BY <2>5
    <3> QED
      BY <3>1, <2>1 DEF LinesKnown, AllParse
  <2> QED
    BY <2>8, <2>9, <2>10, <2>11, <2>12, <2>13, <2>14, <1>4, <1>5, <1>6
<1> QED
  BY <1>7, <1>8

LEMMA FleetStep ==
  ASSUME FleetIds, FleetInv, [Fleet!Next]_Fleet!fleetVars
  PROVE  FleetInv'
<1>1. ASSUME NEW a \in Agents, Fleet!Has(a)
      PROVE  /\ nodes[a] \in Nodes
             /\ \A to \in Fleet!Live \cup {"cancelled"} :
                  LET n == [nodes[a] EXCEPT !.status = to]
                  IN  n \in Nodes /\ Fleet!Identity(n) = Fleet!Identity(nodes[a]) /\ n.status = to
             /\ LET n == [nodes[a] EXCEPT !.cursor = nodes[a].cursor + 1]
                IN  n \in Nodes /\ Fleet!Identity(n) = Fleet!Identity(nodes[a])
  <2>1. nodes[a] \in Nodes
    BY <1>1 DEF FleetInv, FleetTypes, Fleet!Has
  <2> QED
    BY <2>1 DEF Nodes, Fleet!Identity, Fleet!Live
<1>2. ASSUME NEW a \in Agents, NEW to \in Fleet!Live, NEW works \in BOOLEAN,
             Fleet!Transition(a, to, works)
      PROVE  FleetInv'
  <2>1. Fleet!Update(a, [nodes[a] EXCEPT !.status = to], works) /\ ended' = ended
    BY <1>2 DEF Fleet!Transition
  <2> QED
    BY <2>1, <1>1, UpdateStep
<1>3. ASSUME NEW a \in Agents, NEW works \in BOOLEAN, Fleet!AdvanceCursor(a, works)
      PROVE  FleetInv'
  <2>1. /\ Fleet!Update(a, [nodes[a] EXCEPT !.cursor = nodes[a].cursor + 1], works)
        /\ ended' = ended
    BY <1>3 DEF Fleet!AdvanceCursor
  <2> QED
    BY <2>1, <1>1, UpdateStep
<1>4. ASSUME NEW a \in Agents, NEW command \in {"steer", "cancel"}, NEW works \in BOOLEAN,
             Fleet!Steer(a, command, works)
      PROVE  FleetInv'
  <2>1. CASE command = "cancel"
    <3>1. /\ Fleet!Has(a) /\ Fleet!Update(a, [nodes[a] EXCEPT !.status = "cancelled"], works)
          /\ ended' = ended \cup {a}
      BY <1>4, <2>1 DEF Fleet!Steer
    <3>2. [nodes[a] EXCEPT !.status = "cancelled"].status \notin Fleet!Live
      BY <3>1, <1>1 DEF Fleet!Live
    <3> QED
      BY <3>1, <3>2, <1>1, UpdateStep
  <2>2. CASE command # "cancel"
    <3>1. Fleet!Update(a, nodes[a], works) /\ ended' = ended
      BY <1>4, <2>2 DEF Fleet!Steer
    <3> QED
      BY <3>1, <1>1, UpdateStep
  <2> QED
    BY <2>1, <2>2
<1>5. ASSUME NEW a \in Agents, NEW works \in BOOLEAN, Fleet!RequestEffect(a, works)
      PROVE  FleetInv'
  <2>1. /\ Fleet!Has(a) /\ nodes[a].parent # "none"
        /\ Fleet!Update(nodes[a].parent,
                        [nodes[nodes[a].parent] EXCEPT !.status = "background"], works)
        /\ ended' = ended
    BY <1>5 DEF Fleet!RequestEffect
  <2>2. nodes[a].parent \in Agents
    BY <2>1, <1>1 DEF Nodes
  <2> QED
    BY <2>1, <2>2, <1>1, UpdateStep DEF Fleet!Live
<1>6. ASSUME NEW k \in Keys, Fleet!Reattach(k) PROVE FleetInv'
  <2>1. /\ core = "up" /\ core' = "poisoned" /\ keys[k] # "none" /\ ~Fleet!Has(keys[k])
        /\ UNCHANGED <<nodes, keys, lines, born, ahead, ended, revived>>
    BY <1>6 DEF Fleet!Reattach
  <2>2. ahead # {}
    BY <2>1 DEF FleetInv, KeysBound
  <2>3. Fleet!PanicsExplained'
    BY <2>1, <2>2 DEF Fleet!PanicsExplained
  <2>4. FleetTypes' /\ FamiliesBorn' /\ LinesKnown' /\ CancelsKept' /\ Fleet!IdentityKept'
    BY <2>1 DEF FleetInv, FleetTypes, FamiliesBorn, LinesKnown, CancelsKept, Fleet!IdentityKept,
       Fleet!Has, Fleet!NoNode, Fleet!Identity, Fleet!Parses, Fleet!Live, Nodes, Identities,
       Lines, Fleet!Torn
  <2>5. ParentsWritten' /\ ParentsPresent' /\ JournalAgrees' /\ KeysBound'
    BY <2>1 DEF FleetInv, ParentsWritten, ParentsPresent, JournalAgrees, KeysBound, AllParse,
       Fleet!Parses, Fleet!Has, Fleet!NoNode, Fleet!Latest
  <2> QED
    BY <2>3, <2>4, <2>5 DEF FleetInv
<1>7. CASE UNCHANGED Fleet!fleetVars
  <2>1. UNCHANGED <<nodes, keys, lines, core, born, ahead, ended, revived>>
    BY <1>7 DEF Fleet!fleetVars
  <2>2. FleetTypes' /\ FamiliesBorn' /\ LinesKnown' /\ CancelsKept' /\ Fleet!IdentityKept'
        /\ Fleet!PanicsExplained'
    BY <2>1 DEF FleetInv, FleetTypes, FamiliesBorn, LinesKnown, CancelsKept, Fleet!IdentityKept,
       Fleet!Has, Fleet!NoNode, Fleet!Identity, Fleet!Parses, Fleet!Live, Nodes, Identities,
       Lines, Fleet!Torn, Fleet!PanicsExplained
  <2>3. ParentsWritten' /\ ParentsPresent' /\ JournalAgrees' /\ KeysBound'
    BY <2>1 DEF FleetInv, ParentsWritten, ParentsPresent, JournalAgrees, KeysBound, AllParse,
       Fleet!Parses, Fleet!Has, Fleet!NoNode, Fleet!Latest
  <2> QED
    BY <2>2, <2>3 DEF FleetInv
<1> QED
  BY <1>2, <1>3, <1>4, <1>5, <1>6, <1>7, SpawnStep, RestartStep DEF Fleet!Next

\* The properties of the fleet follow from the invariant: of an edge both ends have the
\* identity they were born with, and two agents of one key would both be bound to it.
LEMMA FleetInvSound == ASSUME FleetIds, FleetInv PROVE Fleet!FleetSound
<1> USE DEF FleetInv
<1>1. \A a \in Agents : Fleet!Has(a) => nodes[a] \in Nodes /\ Fleet!Identity(nodes[a]) = born[a]
                                        /\ nodes[a].agent = a
  BY DEF FleetTypes, Fleet!Has, Fleet!IdentityKept
<1>2. Fleet!LineageKept
  <2> SUFFICES ASSUME core = "up", NEW a \in Agents, Fleet!Has(a), nodes[a].parent # "none"
               PROVE  /\ Fleet!Has(nodes[a].parent)
                      /\ nodes[nodes[a].parent].root = nodes[a].root
    BY DEF Fleet!LineageKept, Fleet!AgentGraph
  <2>1. nodes[a].parent \in Agents /\ Fleet!Has(nodes[a].parent)
    BY <1>1 DEF ParentsPresent, Nodes
  <2>2. /\ born[a].parent = nodes[a].parent /\ born[a].root = nodes[a].root /\ born[a].agent = a
        /\ born[nodes[a].parent].root = nodes[nodes[a].parent].root
    <3>1. /\ born[a] = Fleet!Identity(nodes[a]) /\ nodes[a].agent = a
          /\ born[nodes[a].parent] = Fleet!Identity(nodes[nodes[a].parent])
      BY <2>1, <1>1
    <3> QED
      BY <3>1 DEF Fleet!Identity
  <2>3. born[a] # Fleet!NoNode
    BY <2>2 DEF Fleet!NoNode, FleetIds
  <2> QED
    BY <2>1, <2>2, <2>3 DEF FamiliesBorn
<1>3. Fleet!NextBootAgrees
  BY DEF Fleet!NextBootAgrees, JournalAgrees, AllParse
<1>4. Fleet!OneAgentPerKey
  BY DEF Fleet!OneAgentPerKey, KeysBound
<1>5. Fleet!CancelStands
  BY DEF Fleet!CancelStands, CancelsKept
<1> QED
  BY <1>2, <1>3, <1>4, <1>5 DEF Fleet!FleetSound

\* agent_fleet.rs: through failed and torn writes of the journal, panics and boots the
\* lineage, the identity and the key of every agent are kept, the next boot finds what
\* was reported as written, and a cancelled agent stays so unless it is given another
\* status.  For any agents and keys, and any number of lines and faults.
THEOREM FleetIsSound == ASSUME FleetIds PROVE Fleet!FleetSpec => []Fleet!FleetSound
<1>1. Fleet!Init => FleetInv
  <2> SUFFICES ASSUME Fleet!Init PROVE FleetInv
    OBVIOUS
  <2>1. /\ nodes = [a \in Agents |-> Fleet!NoNode] /\ keys = [k \in Keys |-> "none"]
        /\ lines = <<>> /\ core = "up" /\ born = [a \in Agents |-> Fleet!NoNode]
        /\ ended = {}
    BY DEF Fleet!Init
  <2>2. FleetTypes /\ DOMAIN lines = {}
    BY <2>1 DEF FleetTypes
  <2>3. FamiliesBorn /\ CancelsKept /\ Fleet!IdentityKept /\ Fleet!PanicsExplained
    BY <2>1 DEF FamiliesBorn, CancelsKept, Fleet!IdentityKept, Fleet!PanicsExplained, Fleet!Has
  <2>4. LinesKnown /\ ParentsWritten /\ ParentsPresent /\ KeysBound
    BY <2>1, <2>2 DEF LinesKnown, ParentsWritten, ParentsPresent, KeysBound, Fleet!Has
  <2>5. JournalAgrees
    BY <2>1, <2>2 DEF JournalAgrees, Fleet!Latest
  <2> QED
    BY <2>2, <2>3, <2>4, <2>5 DEF FleetInv
<1>2. FleetInv /\ [Fleet!Next]_Fleet!fleetVars => FleetInv'
  BY FleetStep
<1>3. FleetInv => Fleet!FleetSound
  BY FleetInvSound
<1> QED
  BY <1>1, <1>2, <1>3, PTL DEF Fleet!FleetSpec

-----------------------------------------------------------------------------
(***************************************************************************)
(* The coordination library of the fleet (FleetTickets).                   *)
(***************************************************************************)
CONSTANTS Tenants, Children, Paths, WriteScope, Events,
          MaxCapacity, MaxTickets, MaxWrites, MaxItems

VARIABLES capacity, pools, counter, admitted, dead, widest, held, writes, admissions,
          items, open

Desk == INSTANCE FleetTickets WITH active <- pools

\* No ticket twice in a sequence of tickets.
Distinct(q) == \A i, j \in DOMAIN q : q[i] = q[j] => i = j
ValuesOf(q) == {q[i] : i \in DOMAIN q}

LEMMA RemovedAt ==
  ASSUME NEW q \in Seq(Nat), NEW p \in 1..Len(q)
  PROVE  /\ Desk!RemoveAt(q, p) \in Seq(Nat)
         /\ Len(Desk!RemoveAt(q, p)) = Len(q) - 1
         /\ \A j \in 1..(Len(q) - 1) :
              Desk!RemoveAt(q, p)[j] = IF j < p THEN q[j] ELSE q[j + 1]
<1> DEFINE front == SubSeq(q, 1, p - 1)
           back == SubSeq(q, p + 1, Len(q))
<1>1. /\ front \in Seq(Nat) /\ Len(front) = p - 1
      /\ \A j \in 1..(p - 1) : front[j] = q[j]
  OBVIOUS
<1>2. /\ back \in Seq(Nat) /\ Len(back) = Len(q) - p
      /\ \A j \in 1..(Len(q) - p) : back[j] = q[p + j]
  OBVIOUS
<1> HIDE DEF front, back
<1>3. /\ front \o back \in Seq(Nat) /\ Len(front \o back) = Len(front) + Len(back)
      /\ \A j \in 1..(Len(front) + Len(back)) :
           (front \o back)[j] = IF j <= Len(front) THEN front[j] ELSE back[j - Len(front)]
  <2>1. front \in Seq(Nat) /\ back \in Seq(Nat)
    BY <1>1, <1>2
  <2> QED
    BY <2>1, ConcatProperties, Zenon
<1>4. Len(front \o back) = Len(q) - 1
  BY <1>1, <1>2, <1>3
<1>5. ASSUME NEW j \in 1..(Len(q) - 1)
      PROVE  (front \o back)[j] = IF j < p THEN q[j] ELSE q[j + 1]
  <2>1. (front \o back)[j] = IF j <= p - 1 THEN front[j] ELSE back[j - (p - 1)]
    <3>1. Len(front) = p - 1 /\ Len(front) + Len(back) = Len(q) - 1
      BY <1>1, <1>2
    <3>2. (front \o back)[j] = IF j <= Len(front) THEN front[j] ELSE back[j - Len(front)]
      BY <1>3, <3>1
    <3> QED
      BY <3>1, <3>2
  <2>2. CASE j < p
    BY <2>1, <2>2, <1>1
  <2>3. CASE ~(j < p)
    <3>1. j - (p - 1) \in 1..(Len(q) - p) /\ p + (j - (p - 1)) = j + 1 /\ ~(j <= p - 1)
      BY <2>3
    <3>2. back[j - (p - 1)] = q[p + (j - (p - 1))]
      BY <3>1, <1>2
    <3> QED
      BY <2>1, <2>3, <3>1, <3>2
  <2> QED
    BY <2>2, <2>3
<1> QED
  BY <1>3, <1>4, <1>5 DEF Desk!RemoveAt, front, back

WithoutTicket(q, n) ==
  LET at == {i \in DOMAIN q : q[i] = n}
  IN  IF at = {} THEN q ELSE Desk!RemoveAt(q, Desk!Min(at))

\* A released ticket is gone, and nothing else is.
LEMMA ReleasedOne ==
  ASSUME NEW q \in Seq(Nat), Distinct(q), NEW n
  PROVE  /\ WithoutTicket(q, n) \in Seq(Nat) /\ Distinct(WithoutTicket(q, n))
         /\ ValuesOf(WithoutTicket(q, n)) = ValuesOf(q) \ {n}
         /\ Len(WithoutTicket(q, n)) = IF n \in ValuesOf(q) THEN Len(q) - 1 ELSE Len(q)
<1> DEFINE at == {i \in DOMAIN q : q[i] = n}
<1>0. Len(q) \in Nat /\ DOMAIN q = 1..Len(q)
  OBVIOUS
<1>1. CASE at = {}
  <2>1. n \notin ValuesOf(q)
    BY <1>1 DEF ValuesOf
  <2> QED
    BY <1>1, <2>1 DEF WithoutTicket
<1>2. CASE at # {}
  <2>1. PICK p \in DOMAIN q : q[p] = n
    BY <1>2
  <2>2. at = {p}
    BY <2>1 DEF Distinct
  <2>3. Desk!Min({p}) = p
    <3>1. p \in Nat
      BY <1>0
    <3> QED
      BY <3>1 DEF Desk!Min
  <2> DEFINE r == Desk!RemoveAt(q, p)
  <2>4. /\ r \in Seq(Nat) /\ Len(r) = Len(q) - 1
        /\ \A j \in 1..(Len(q) - 1) : r[j] = IF j < p THEN q[j] ELSE q[j + 1]
    BY <1>0, <2>1, RemovedAt
  <2> HIDE DEF r
  <2>5. DOMAIN r = 1..(Len(q) - 1) /\ Len(q) \in Nat /\ p \in 1..Len(q)
    BY <2>1, <2>4, <1>0
  <2>6. \A i, j \in 1..Len(q) : q[i] = q[j] => i = j
    BY <1>0 DEF Distinct
  <2>7. Distinct(r)
    <3> SUFFICES ASSUME NEW i \in 1..(Len(q) - 1), NEW j \in 1..(Len(q) - 1), r[i] = r[j]
                 PROVE  i = j
      BY <2>5 DEF Distinct
    <3>0. /\ i \in 1..Len(q) /\ i + 1 \in 1..Len(q)
          /\ j \in 1..Len(q) /\ j + 1 \in 1..Len(q)
      BY <2>5
    <3>5. r[i] = IF i < p THEN q[i] ELSE q[i + 1]
      BY <2>4
    <3>6. r[j] = IF j < p THEN q[j] ELSE q[j + 1]
      BY <2>4
    <3>1. CASE i < p /\ j < p
      BY <3>0, <3>1, <3>5, <3>6, <2>6
    <3>2. CASE i < p /\ ~(j < p)
      <4>1. i = j + 1
        BY <3>0, <3>2, <3>5, <3>6, <2>6
      <4> QED
        BY <4>1, <3>2, <2>5
    <3>3. CASE ~(i < p) /\ j < p
      <4>1. i + 1 = j
        BY <3>0, <3>3, <3>5, <3>6, <2>6
      <4> QED
        BY <4>1, <3>3, <2>5
    <3>4. CASE ~(i < p) /\ ~(j < p)
      <4>1. i + 1 = j + 1
        BY <3>0, <3>4, <3>5, <3>6, <2>6
      <4> QED
        BY <4>1
    <3> QED
      BY <3>1, <3>2, <3>3, <3>4
  <2>8. ASSUME NEW x \in ValuesOf(r) PROVE x \in ValuesOf(q) /\ x # n
    <3>1. PICK j \in 1..(Len(q) - 1) : x = r[j]
      BY <2>5 DEF ValuesOf
    <3>2. CASE j < p
      <4>1. x = q[j]
        BY <3>1, <3>2, <2>4
      <4>2. j \in 1..Len(q) /\ j # p
        BY <3>2, <2>5
      <4> QED
        BY <4>1, <4>2, <2>1, <2>6, <1>0 DEF ValuesOf
    <3>3. CASE ~(j < p)
      <4>1. x = q[j + 1]
        BY <3>1, <3>3, <2>4
      <4>2. j + 1 \in 1..Len(q) /\ j + 1 # p
        BY <3>3, <2>5
      <4> QED
        BY <4>1, <4>2, <2>1, <2>6, <1>0 DEF ValuesOf
    <3> QED
      BY <3>2, <3>3
  <2>9. ASSUME NEW x \in ValuesOf(q), x # n PROVE x \in ValuesOf(r)
    <3>1. PICK j \in 1..Len(q) : x = q[j]
      BY <1>0 DEF ValuesOf
    <3>2. CASE j < p
      <4>1. r[j] = x /\ j \in 1..(Len(q) - 1)
        BY <3>1, <3>2, <2>4, <2>5
      <4> QED
        BY <4>1, <2>5 DEF ValuesOf
    <3>3. CASE ~(j < p)
      <4>1. j # p
        BY <3>1, <2>1, <2>9
      <4>2. j - 1 \in 1..(Len(q) - 1) /\ ~(j - 1 < p) /\ (j - 1) + 1 = j
        BY <4>1, <3>3, <2>5
      <4>3. r[j - 1] = x
        BY <4>2, <3>1, <2>4
      <4> QED
        BY <4>2, <4>3, <2>5 DEF ValuesOf
    <3> QED
      BY <3>2, <3>3
  <2>10. ValuesOf(r) = ValuesOf(q) \ {n}
    BY <2>8, <2>9
  <2>11. n \in ValuesOf(q)
    BY <2>1 DEF ValuesOf
  <2>12. WithoutTicket(q, n) = r
    BY <1>2, <2>2, <2>3 DEF r, WithoutTicket
  <2> QED
    BY <2>4, <2>7, <2>10, <2>11, <2>12
<1> QED
  BY <1>1, <1>2

\* A sequence without duplicates is as long as it has values.
LEMMA DistinctCounts ==
  ASSUME NEW q \in Seq(Nat), Distinct(q)
  PROVE  Len(q) = Cardinality(ValuesOf(q))
<1>1. Len(q) \in Nat /\ DOMAIN q = 1..Len(q)
  OBVIOUS
<1> DEFINE f == [i \in 1..Len(q) |-> q[i]]
<1>2. f \in Bijection(1..Len(q), ValuesOf(q))
  BY <1>1 DEF Bijection, Injection, Surjection, IsInjective, Distinct, ValuesOf
<1>3. ExistsBijection(1..Len(q), ValuesOf(q))
  BY <1>2 DEF ExistsBijection
<1> QED
  BY <1>1, <1>3, FS_CountingElements

Tickets == [child : Children, tenant : Tenants, ticket : Nat]
TicketsOf(t) == {a.ticket : a \in {b \in admitted : b.tenant = t}}

GovernorTypes ==
  /\ capacity \in [Tenants -> Nat] /\ widest \in [Tenants -> Nat]
  /\ pools \in [Tenants -> Seq(Nat)] /\ counter \in Nat
  /\ admitted \subseteq Tickets /\ dead \subseteq 1..counter

\* The pools have each ticket once, of those that were issued; what they have and no
\* dead holder left is what the admissions name, and no two admissions name one ticket.
PoolOf(t) ==
  /\ Distinct(pools[t]) /\ ValuesOf(pools[t]) \subseteq 1..counter
  /\ Len(pools[t]) <= widest[t] /\ capacity[t] <= widest[t]
  /\ ValuesOf(pools[t]) \ dead = TicketsOf(t)

GovernorInv ==
  /\ GovernorTypes
  /\ \A t \in Tenants : PoolOf(t)
  /\ \A t, u \in Tenants : t # u => ValuesOf(pools[t]) \cap ValuesOf(pools[u]) = {}
  /\ \A a, b \in admitted : a.ticket = b.ticket => a = b

Answers == {[is |-> "approved"]} \cup [is : {"denied"}, holders : Seq(Children)]

Earlier(ws, i) == \E j \in 1..(i - 1) : ws[j].path = ws[i].path

\* The claim of a path is that of the first write that named it.
ClaimsInv ==
  /\ held \in [Paths -> Seq(Children)]
  /\ writes \in Seq([task : Children, path : Paths])
  /\ admissions \in Seq(Answers) /\ Len(admissions) = Len(writes)
  /\ \A i \in 1..Len(writes) :
       /\ held[writes[i].path] # <<>>
       /\ ~Earlier(writes, i) => admissions[i] = [is |-> "approved"]
                         /\ held[writes[i].path] = <<writes[i].task>>
       /\ Earlier(writes, i) => admissions[i] = [is |-> "denied", holders |-> held[writes[i].path]]
  /\ \A p \in Paths : held[p] # <<>> => \E i \in 1..Len(writes) : writes[i].path = p

AttentionInv == items \in [Events -> Nat] /\ open \subseteq Events /\ Desk!AttentionCurrent

DeskAssumptions == MaxCapacity \in Nat /\ MaxTickets \in Nat

LEMMA DeskInit == Desk!Init => GovernorInv /\ ClaimsInv /\ AttentionInv
<1> SUFFICES ASSUME Desk!Init PROVE GovernorInv /\ ClaimsInv /\ AttentionInv
  OBVIOUS
<1> USE DEF Desk!Init
<1>0. DOMAIN <<>> = {} /\ \A S : <<>> \in Seq(S)
  OBVIOUS
<1>1. GovernorTypes
  BY DEF GovernorTypes
<1>2. ASSUME NEW t \in Tenants PROVE PoolOf(t) /\ ValuesOf(pools[t]) = {}
  <2>1. pools[t] = <<>> /\ Len(pools[t]) = 0 /\ widest[t] = 0 /\ capacity[t] = 0
    OBVIOUS
  <2>2. ValuesOf(pools[t]) = {} /\ Distinct(pools[t])
    BY <2>1, <1>0 DEF ValuesOf, Distinct
  <2>3. TicketsOf(t) = {}
    BY DEF TicketsOf
  <2> QED
    BY <2>1, <2>2, <2>3 DEF PoolOf
<1>3. GovernorInv
  BY <1>1, <1>2 DEF GovernorInv
<1>4. ClaimsInv
  BY DEF ClaimsInv
<1>5. AttentionInv
  BY DEF AttentionInv, Desk!AttentionCurrent
<1> QED
  BY <1>3, <1>4, <1>5

LEMMA CapacitySet ==
  ASSUME GovernorInv, NEW t \in Tenants, NEW n \in Nat, Desk!SetCapacity(t, n)
  PROVE  GovernorInv'
<1> USE DEF Desk!SetCapacity, GovernorInv
<1>1. /\ capacity' = [capacity EXCEPT ![t] = n]
      /\ widest' = [widest EXCEPT ![t] = IF n > widest[t] THEN n ELSE widest[t]]
      /\ UNCHANGED <<pools, counter, admitted, dead>>
  OBVIOUS
<1>2. GovernorTypes'
  BY <1>1 DEF GovernorTypes
<1>3. ASSUME NEW u \in Tenants
      PROVE  Len(pools[u]) <= widest'[u] /\ capacity'[u] <= widest'[u]
  <2>1. /\ Len(pools[u]) \in Nat /\ widest[u] \in Nat /\ capacity[u] \in Nat
        /\ Len(pools[u]) <= widest[u] /\ capacity[u] <= widest[u]
    BY DEF GovernorTypes, PoolOf
  <2>2. CASE u = t
    <3>1. capacity'[u] = n /\ widest'[u] = IF n > widest[u] THEN n ELSE widest[u]
      BY <1>1, <2>2 DEF GovernorTypes
    <3> QED
      BY <2>1, <3>1
  <2>3. CASE u # t
    <3>1. capacity'[u] = capacity[u] /\ widest'[u] = widest[u]
      BY <1>1, <2>3 DEF GovernorTypes
    <3> QED
      BY <2>1, <3>1
  <2> QED
    BY <2>2, <2>3
<1>4. ASSUME NEW u \in Tenants PROVE PoolOf(u)'
  <2>1. PoolOf(u)
    OBVIOUS
  <2> QED
    BY <1>1, <1>3, <2>1 DEF PoolOf, TicketsOf
<1> QED
  BY <1>1, <1>2, <1>4

\* What a release does to the pools.
LEMMA ReleasedAll ==
  ASSUME NEW P \in [Tenants -> Seq(Nat)], \A t \in Tenants : Distinct(P[t]), NEW n,
         NEW t \in Tenants
  PROVE  /\ Desk!Released(P, n)[t] \in Seq(Nat) /\ Distinct(Desk!Released(P, n)[t])
         /\ ValuesOf(Desk!Released(P, n)[t]) = ValuesOf(P[t]) \ {n}
         /\ Len(Desk!Released(P, n)[t]) =
              IF n \in ValuesOf(P[t]) THEN Len(P[t]) - 1 ELSE Len(P[t])
<1>1. Desk!Released(P, n)[t] = WithoutTicket(P[t], n)
  BY DEF Desk!Released, WithoutTicket
<1>2. P[t] \in Seq(Nat) /\ Distinct(P[t])
  OBVIOUS
<1> QED
  BY <1>1, <1>2, ReleasedOne

\* What a consume does to the pools.
LEMMA ConsumedAll ==
  ASSUME GovernorInv, NEW t \in Tenants
  PROVE  LET P == Desk!Consumed(t)
         IN  /\ P \in [Tenants -> Seq(Nat)]
             /\ \A u \in Tenants : Distinct(P[u])
             /\ \A u \in Tenants : u # t => P[u] = pools[u]
             /\ ValuesOf(P[t]) = ValuesOf(pools[t]) \cup {counter + 1}
             /\ Len(P[t]) = Len(pools[t]) + 1
<1> DEFINE q == pools[t]
           n == counter + 1
           l == Append(q, n)
           P == Desk!Consumed(t)
<1>1. /\ q \in Seq(Nat) /\ Distinct(q) /\ n \in Nat /\ Len(q) \in Nat
      /\ pools \in [Tenants -> Seq(Nat)]
  BY DEF GovernorInv, GovernorTypes, PoolOf
<1>2. n \notin ValuesOf(q)
  <2>1. ValuesOf(q) \subseteq 1..counter /\ counter \in Nat
    BY DEF GovernorInv, GovernorTypes, PoolOf
  <2>2. n \notin 1..counter
    BY <2>1
  <2> QED
    BY <2>1, <2>2
<1>3. P = [pools EXCEPT ![t] = l]
  BY DEF Desk!Consumed
<1> HIDE DEF n, q, P
<1>4. /\ l \in Seq(Nat) /\ Len(l) = Len(q) + 1 /\ DOMAIN l = 1..(Len(q) + 1)
      /\ DOMAIN q = 1..Len(q) /\ l[Len(q) + 1] = n /\ \A i \in 1..Len(q) : l[i] = q[i]
  BY <1>1
<1> HIDE DEF l
<1>5. ValuesOf(l) = ValuesOf(q) \cup {n}
  <2>1. ASSUME NEW x \in ValuesOf(l) PROVE x \in ValuesOf(q) \cup {n}
    <3>1. PICK i \in 1..(Len(q) + 1) : x = l[i]
      BY <1>4 DEF ValuesOf
    <3>2. i \in 1..Len(q) \/ i = Len(q) + 1
      BY <1>1
    <3> QED
      BY <3>1, <3>2, <1>4 DEF ValuesOf
  <2>2. ASSUME NEW x \in ValuesOf(q) PROVE x \in ValuesOf(l)
    <3>1. PICK i \in 1..Len(q) : x = q[i]
      BY <1>4 DEF ValuesOf
    <3>2. i \in 1..(Len(q) + 1) /\ l[i] = x
      BY <3>1, <1>1, <1>4
    <3> QED
      BY <3>2, <1>4 DEF ValuesOf
  <2>3. n \in ValuesOf(l)
    <3>1. Len(q) + 1 \in DOMAIN l
      BY <1>1, <1>4
    <3> QED
      BY <3>1, <1>4 DEF ValuesOf
  <2> QED
    BY <2>1, <2>2, <2>3
<1>6. Distinct(l)
  <2> SUFFICES ASSUME NEW i \in 1..(Len(q) + 1), NEW j \in 1..(Len(q) + 1), l[i] = l[j]
               PROVE  i = j
    BY <1>4 DEF Distinct
  <2>1. \A k \in 1..Len(q) : q[k] # n
    BY <1>2, <1>4 DEF ValuesOf
  <2>2. \A h, k \in 1..Len(q) : q[h] = q[k] => h = k
    BY <1>1, <1>4 DEF Distinct
  <2>3. /\ i \in 1..Len(q) \/ i = Len(q) + 1
        /\ j \in 1..Len(q) \/ j = Len(q) + 1
    BY <1>1
  <2> QED
    BY <2>1, <2>2, <2>3, <1>4
<1>7. /\ P \in [Tenants -> Seq(Nat)] /\ P[t] = l
      /\ \A u \in Tenants : u # t => P[u] = pools[u]
  BY <1>1, <1>3, <1>4
<1>8. \A u \in Tenants : Distinct(P[u])
  BY <1>6, <1>7 DEF GovernorInv, PoolOf
<1> QED
  BY <1>4, <1>5, <1>7, <1>8 DEF P, q, n

\* The tickets that a step does not touch.
LEMMA ReleaseKeeps ==
  ASSUME GovernorInv, NEW n, Desk!Release(n)
  PROVE  GovernorInv'
<1> USE DEF GovernorInv
<1>1. /\ pools' = Desk!Released(pools, n)
      /\ admitted' = {a \in admitted : a.ticket # n} /\ dead' = dead \ {n}
      /\ UNCHANGED <<capacity, counter, widest>>
  BY DEF Desk!Release
<1>2. pools \in [Tenants -> Seq(Nat)] /\ \A t \in Tenants : Distinct(pools[t])
  BY DEF GovernorTypes, PoolOf
<1>3. \A t \in Tenants :
        /\ pools'[t] \in Seq(Nat) /\ Distinct(pools'[t])
        /\ ValuesOf(pools'[t]) = ValuesOf(pools[t]) \ {n}
        /\ Len(pools'[t]) = IF n \in ValuesOf(pools[t]) THEN Len(pools[t]) - 1
                            ELSE Len(pools[t])
  BY <1>1, <1>2, ReleasedAll
<1>4. pools' \in [Tenants -> Seq(Nat)]
  <2>1. pools' = [t \in Tenants |-> pools'[t]]
    BY <1>1 DEF Desk!Released
  <2> QED
    BY <2>1, <1>3
<1>5. GovernorTypes'
  BY <1>1, <1>4 DEF GovernorTypes
<1>6. ASSUME NEW t \in Tenants PROVE PoolOf(t)'
  <2>1. PoolOf(t)
    OBVIOUS
  <2>2. Len(pools'[t]) <= widest[t]
    <3>1. Len(pools[t]) \in Nat /\ widest[t] \in Nat /\ Len(pools[t]) <= widest[t]
      BY <2>1, <1>2 DEF PoolOf, GovernorTypes
    <3>2. Len(pools'[t]) = Len(pools[t]) - 1 \/ Len(pools'[t]) = Len(pools[t])
      BY <1>3
    <3> QED
      BY <3>1, <3>2
  <2>3. TicketsOf(t)' = TicketsOf(t) \ {n}
    BY <1>1 DEF TicketsOf
  <2>4. ValuesOf(pools'[t]) \ dead' = TicketsOf(t)'
    BY <2>1, <2>3, <1>1, <1>3 DEF PoolOf
  <2>5. ValuesOf(pools'[t]) \subseteq 1..counter
    BY <2>1, <1>3 DEF PoolOf
  <2> QED
    BY <2>1, <2>2, <2>4, <2>5, <1>1, <1>3 DEF PoolOf
<1>7. \A t, u \in Tenants : t # u => ValuesOf(pools'[t]) \cap ValuesOf(pools'[u]) = {}
  BY <1>3
<1>8. \A a, b \in admitted' : a.ticket = b.ticket => a = b
  BY <1>1
<1> QED
  BY <1>5, <1>6, <1>7, <1>8

LEMMA DeathKeeps ==
  ASSUME GovernorInv, NEW a \in admitted, Desk!HolderDies(a)
  PROVE  GovernorInv'
<1> USE DEF GovernorInv
<1>1. /\ admitted' = admitted \ {a} /\ dead' = dead \cup {a.ticket}
      /\ UNCHANGED <<capacity, pools, counter, widest>>
  BY DEF Desk!HolderDies
<1>2. a \in Tickets /\ a.tenant \in Tenants
  BY DEF GovernorTypes, Tickets
<1>3. a.ticket \in TicketsOf(a.tenant)
  BY DEF TicketsOf
<1>4. a.ticket \in 1..counter
  BY <1>2, <1>3 DEF PoolOf
<1>5. GovernorTypes'
  BY <1>1, <1>4 DEF GovernorTypes
<1>6. ASSUME NEW t \in Tenants PROVE PoolOf(t)'
  <2>1. PoolOf(t)
    OBVIOUS
  <2>2. TicketsOf(t)' = TicketsOf(t) \ {a.ticket}
    BY <1>1 DEF TicketsOf
  <2>3. ValuesOf(pools[t]) \ dead' = TicketsOf(t)'
    BY <2>1, <2>2, <1>1 DEF PoolOf
  <2> QED
    BY <2>1, <2>3, <1>1 DEF PoolOf
<1> QED
  BY <1>1, <1>5, <1>6

LEMMA AdmissionKeeps ==
  ASSUME GovernorInv, NEW t \in Tenants, NEW c \in Children, NEW step,
         Desk!AdmitSubagent(t, c, step)
  PROVE  GovernorInv'
<1> USE DEF GovernorInv
<1> DEFINE n == counter + 1
           P == Desk!Consumed(t)
           new == [child |-> c, tenant |-> t, ticket |-> n]
<1>0. counter \in Nat /\ n \in Nat /\ n \notin 1..counter /\ 1..counter \subseteq 1..n
      /\ n \in 1..n
  BY DEF GovernorTypes
<1>1. /\ counter' = n /\ UNCHANGED <<capacity, dead, widest>>
      /\ \/ pools' = P /\ admitted' = admitted \cup {new}
         \/ pools' = Desk!Released(P, n) /\ admitted' = admitted
  BY DEF Desk!AdmitSubagent, Desk!Undone
<1>2. Len(pools[t]) < capacity[t]
  <2>1. ~(Len(pools[t]) >= capacity[t])
    BY DEF Desk!AdmitSubagent, Desk!Ticket
  <2>2. Len(pools[t]) \in Nat /\ capacity[t] \in Nat
    BY DEF GovernorTypes
  <2> QED
    BY <2>1, <2>2
<1>3. /\ P \in [Tenants -> Seq(Nat)]
      /\ \A u \in Tenants : Distinct(P[u])
      /\ \A u \in Tenants : u # t => P[u] = pools[u]
      /\ ValuesOf(P[t]) = ValuesOf(pools[t]) \cup {n}
      /\ Len(P[t]) = Len(pools[t]) + 1
  BY ConsumedAll
<1>4. \A u \in Tenants : n \notin ValuesOf(pools[u]) /\ n \notin TicketsOf(u)
  BY <1>0 DEF PoolOf
<1>5. n \notin dead /\ dead \subseteq 1..n
  BY <1>0 DEF GovernorTypes
<1>6. \A b \in admitted : b.ticket # n
  <2> SUFFICES ASSUME NEW b \in admitted, b.ticket = n PROVE FALSE
    OBVIOUS
  <2>1. b.tenant \in Tenants /\ n \in TicketsOf(b.tenant)
    BY DEF TicketsOf, GovernorTypes, Tickets
  <2> QED
    BY <2>1, <1>4
<1> HIDE DEF P, n
<1>7. CASE pools' = P /\ admitted' = admitted \cup {new}
  <2>1. new \in Tickets
    BY <1>0 DEF Tickets
  <2>2. GovernorTypes'
    BY <2>1, <1>0, <1>1, <1>3, <1>5, <1>7 DEF GovernorTypes
  <2>3. ASSUME NEW u \in Tenants PROVE PoolOf(u)'
    <3>1. PoolOf(u)
      OBVIOUS
    <3>2. CASE u = t
      <4>1. TicketsOf(u)' = TicketsOf(u) \cup {n}
        <5>1. new.ticket = n /\ new.tenant = t
          OBVIOUS
        <5> HIDE DEF new
        <5>2. {b \in admitted' : b.tenant = u} = {b \in admitted : b.tenant = u} \cup {new}
          BY <3>2, <5>1, <1>7
        <5> QED
          BY <5>1, <5>2 DEF TicketsOf
      <4>2. ValuesOf(pools'[u]) \ dead = TicketsOf(u)'
        BY <4>1, <3>1, <3>2, <1>3, <1>5, <1>7 DEF PoolOf
      <4>3. Len(pools'[u]) <= widest[u]
        <5>1. /\ Len(pools[t]) \in Nat /\ capacity[t] \in Nat /\ widest[t] \in Nat
              /\ capacity[t] <= widest[t]
          BY DEF GovernorTypes, PoolOf
        <5> QED
          BY <5>1, <1>2, <1>3, <1>7, <3>2
      <4>4. ValuesOf(pools'[u]) \subseteq 1..n
        BY <3>1, <3>2, <1>0, <1>3, <1>7 DEF PoolOf
      <4> QED
        BY <4>2, <4>3, <4>4, <3>1, <1>1, <1>3, <1>7 DEF PoolOf
    <3>3. CASE u # t
      <4>1. TicketsOf(u)' = TicketsOf(u)
        BY <3>3, <1>7 DEF TicketsOf
      <4>2. pools'[u] = pools[u]
        BY <3>3, <1>3, <1>7
      <4> QED
        BY <4>1, <4>2, <3>1, <1>0, <1>1 DEF PoolOf
    <3> QED
      BY <3>2, <3>3
  <2>4. \A u, w \in Tenants : u # w => ValuesOf(pools'[u]) \cap ValuesOf(pools'[w]) = {}
    <3>1. \A u \in Tenants : ValuesOf(pools'[u]) =
            IF u = t THEN ValuesOf(pools[u]) \cup {n} ELSE ValuesOf(pools[u])
      <4> SUFFICES ASSUME NEW u \in Tenants
                   PROVE  ValuesOf(pools'[u]) = IF u = t THEN ValuesOf(pools[u]) \cup {n}
                                                ELSE ValuesOf(pools[u])
        OBVIOUS
      <4>1. CASE u = t
        BY <4>1, <1>3, <1>7
      <4>2. CASE u # t
        BY <4>2, <1>3, <1>7
      <4> QED
        BY <4>1, <4>2
    <3>2. \A u, w \in Tenants : u # w => ValuesOf(pools[u]) \cap ValuesOf(pools[w]) = {}
      OBVIOUS
    <3> SUFFICES ASSUME NEW u \in Tenants, NEW w \in Tenants, u # w, NEW x,
                        x \in ValuesOf(pools'[u]), x \in ValuesOf(pools'[w])
                 PROVE  FALSE
      OBVIOUS
    <3>3. x \in ValuesOf(pools[u]) \/ (x = n /\ u = t)
      BY <3>1
    <3>4. x \in ValuesOf(pools[w]) \/ (x = n /\ w = t)
      BY <3>1
    <3> QED
      BY <3>2, <3>3, <3>4, <1>4
  <2>5. \A a, b \in admitted' : a.ticket = b.ticket => a = b
    BY <1>6, <1>7
  <2> QED
    BY <2>2, <2>3, <2>4, <2>5
<1>8. CASE pools' = Desk!Released(P, n) /\ admitted' = admitted
  <2>1. \A u \in Tenants :
          /\ pools'[u] \in Seq(Nat) /\ Distinct(pools'[u])
          /\ ValuesOf(pools'[u]) = ValuesOf(P[u]) \ {n}
          /\ Len(pools'[u]) = IF n \in ValuesOf(P[u]) THEN Len(P[u]) - 1 ELSE Len(P[u])
    BY <1>3, <1>8, ReleasedAll
  <2>2. pools' \in [Tenants -> Seq(Nat)]
    <3>1. pools' = [u \in Tenants |-> pools'[u]]
      BY <1>8 DEF Desk!Released
    <3> QED
      BY <3>1, <2>1
  <2>3. GovernorTypes'
    BY <2>2, <1>0, <1>1, <1>5, <1>8 DEF GovernorTypes
  <2>4. \A u \in Tenants : ValuesOf(pools'[u]) = ValuesOf(pools[u])
    <3> SUFFICES ASSUME NEW u \in Tenants PROVE ValuesOf(pools'[u]) = ValuesOf(pools[u])
      OBVIOUS
    <3>1. ValuesOf(pools'[u]) = ValuesOf(P[u]) \ {n}
      BY <2>1
    <3>2. CASE u = t
      <4>1. ValuesOf(P[u]) = ValuesOf(pools[u]) \cup {n} /\ n \notin ValuesOf(pools[u])
        BY <3>2, <1>3, <1>4
      <4> QED
        BY <3>1, <4>1
    <3>3. CASE u # t
      <4>1. P[u] = pools[u] /\ n \notin ValuesOf(pools[u])
        BY <3>3, <1>3, <1>4
      <4> QED
        BY <3>1, <4>1
    <3> QED
      BY <3>2, <3>3
  <2>5. \A u \in Tenants : Len(pools'[u]) = Len(pools[u])
    <3> SUFFICES ASSUME NEW u \in Tenants PROVE Len(pools'[u]) = Len(pools[u])
      OBVIOUS
    <3>1. Len(pools[u]) \in Nat
      BY DEF GovernorTypes
    <3>2. CASE u = t
      <4>1. n \in ValuesOf(P[u])
        BY <3>2, <1>3
      <4> QED
        BY <4>1, <3>1, <3>2, <2>1, <1>3
    <3>3. CASE u # t
      <4>1. n \notin ValuesOf(P[u]) /\ P[u] = pools[u]
        BY <3>3, <1>3, <1>4
      <4> QED
        BY <4>1, <2>1
    <3> QED
      BY <3>2, <3>3
  <2>6. ASSUME NEW u \in Tenants PROVE PoolOf(u)'
    <3>1. PoolOf(u)
      OBVIOUS
    <3>2. TicketsOf(u)' = TicketsOf(u)
      BY <1>8 DEF TicketsOf
    <3> QED
      BY <3>1, <3>2, <2>1, <2>4, <2>5, <1>0, <1>1 DEF PoolOf
  <2> QED
    BY <2>3, <2>4, <2>6, <1>8
<1> QED
  BY <1>1, <1>7, <1>8

\* A non-empty set of numbers has a least one.
LEMMA SmallestNumber ==
  ASSUME NEW T, T \subseteq Nat, T # {}
  PROVE  \E n \in T : \A m \in T : n <= m
<1> DEFINE R == OpToRel(<, Nat)
<1>1. IsWellFoundedOn(R, Nat)
  BY NatLessThanWellFounded, Zenon
<1>2. \A x, y \in Nat : x < y => <<x, y>> \in R
  BY DEF OpToRel
<1> HIDE DEF R
<1>3. PICK n \in T : \A y \in T : ~(<<y, n>> \in R)
  BY <1>1, WFMin
<1>4. ASSUME NEW m \in T PROVE n <= m
  <2>1. m \in Nat /\ n \in Nat
    OBVIOUS
  <2>2. ~(m < n)
    BY <1>2, <1>3, <2>1, Zenon
  <2> QED
    BY <2>1, <2>2
<1> QED
  BY <1>4

\* A write that is proposed is approved just when it is the first of its path.
LEMMA ProposalKeeps ==
  ASSUME ClaimsInv, NEW c \in Children, NEW p \in Paths, Desk!Propose(c, p)
  PROVE  ClaimsInv'
<1> DEFINE w == [task |-> c, path |-> p]
           ans == IF held[p] = <<>> THEN [is |-> "approved"]
                  ELSE [is |-> "denied", holders |-> held[p]]
           l == Len(writes)
<1>1. /\ writes' = Append(writes, w) /\ admissions' = Append(admissions, ans)
      /\ held' = IF held[p] = <<>> THEN [held EXCEPT ![p] = <<c>>] ELSE held
  BY DEF Desk!Propose
<1>2. /\ writes \in Seq([task : Children, path : Paths]) /\ admissions \in Seq(Answers)
      /\ Len(admissions) = l /\ l \in Nat /\ held \in [Paths -> Seq(Children)]
  BY DEF ClaimsInv
<1>3. w \in [task : Children, path : Paths] /\ w.task = c /\ w.path = p /\ ans \in Answers
  BY <1>2 DEF Answers
<1> HIDE DEF w, ans, l
<1>4. /\ writes' \in Seq([task : Children, path : Paths]) /\ Len(writes') = l + 1
      /\ writes'[l + 1] = w /\ \A i \in 1..l : writes'[i] = writes[i]
  BY <1>1, <1>2, <1>3 DEF l
<1>5. /\ admissions' \in Seq(Answers) /\ Len(admissions') = l + 1
      /\ admissions'[l + 1] = ans /\ \A i \in 1..l : admissions'[i] = admissions[i]
  BY <1>1, <1>2, <1>3
<1>6. held' \in [Paths -> Seq(Children)]
  <2>1. <<c>> \in Seq(Children)
    OBVIOUS
  <2> QED
    BY <1>1, <1>2, <2>1
<1>7. /\ held[p] = <<>> => held'[p] = <<c>>
      /\ held[p] # <<>> => held'[p] = held[p]
      /\ \A q \in Paths : q # p => held'[q] = held[q]
      /\ held'[p] # <<>>
  <2>1. <<c>> # <<>>
    OBVIOUS
  <2> QED
    BY <1>1, <1>2, <2>1
<1>8. ASSUME NEW i \in 1..l PROVE Earlier(writes', i) <=> Earlier(writes, i)
  <2>1. \A j \in 1..(i - 1) : j \in 1..l
    BY <1>2
  <2> QED
    BY <2>1, <1>4 DEF Earlier
<1>9. Earlier(writes', l + 1) <=> \E j \in 1..l : writes[j].path = p
  <2>1. (l + 1) - 1 = l
    BY <1>2
  <2>2. Earlier(writes', l + 1) <=> \E j \in 1..l : writes'[j].path = writes'[l + 1].path
    BY <2>1 DEF Earlier
  <2> QED
    BY <2>2, <1>3, <1>4
<1>10. /\ held[p] # <<>> <=> \E j \in 1..l : writes[j].path = p
  BY DEF ClaimsInv, l
<1>11. ASSUME NEW i \in 1..l
       PROVE  writes[i].path \in Paths /\ held[writes[i].path] # <<>>
              /\ held'[writes[i].path] = held[writes[i].path]
  <2>1. writes[i].path \in Paths /\ held[writes[i].path] # <<>>
    <3>1. writes[i] \in [task : Children, path : Paths]
      <4>1. writes \in Seq([task : Children, path : Paths]) /\ i \in 1..Len(writes)
        BY <1>2 DEF l
      <4> QED
        BY ONLY <4>1, ElementOfSeq
    <3>2. held[writes[i].path] # <<>>
      BY DEF ClaimsInv, l
    <3> QED
      BY <3>1, <3>2
  <2> QED
    BY <2>1, <1>7
<1>12. ASSUME NEW i \in 1..(l + 1)
       PROVE  /\ held'[writes'[i].path] # <<>>
              /\ ~Earlier(writes', i) => admissions'[i] = [is |-> "approved"]
                                 /\ held'[writes'[i].path] = <<writes'[i].task>>
              /\ Earlier(writes', i) =>
                   admissions'[i] = [is |-> "denied", holders |-> held'[writes'[i].path]]
  <2>1. CASE i \in 1..l
    <3>1. /\ held[writes[i].path] # <<>>
          /\ ~Earlier(writes, i) => admissions[i] = [is |-> "approved"]
                            /\ held[writes[i].path] = <<writes[i].task>>
          /\ Earlier(writes, i) => admissions[i] = [is |-> "denied", holders |-> held[writes[i].path]]
      BY <2>1 DEF ClaimsInv, l
    <3> QED
      BY <2>1, <3>1, <1>4, <1>5, <1>8, <1>11
  <2>2. CASE i = l + 1
    <3>1. writes'[i] = w /\ admissions'[i] = ans
      BY <2>2, <1>4, <1>5
    <3>2. CASE held[p] = <<>>
      <4>1. ~Earlier(writes', i) /\ ans = [is |-> "approved"]
        BY <2>2, <3>2, <1>9, <1>10 DEF ans
      <4> QED
        BY <3>1, <3>2, <4>1, <1>3, <1>7
    <3>3. CASE held[p] # <<>>
      <4>1. Earlier(writes', i) /\ ans = [is |-> "denied", holders |-> held[p]]
        BY <2>2, <3>3, <1>9, <1>10 DEF ans
      <4> QED
        BY <3>1, <3>3, <4>1, <1>3, <1>7
    <3> QED
      BY <3>2, <3>3
  <2> QED
    BY <2>1, <2>2, <1>2
<1>13. ASSUME NEW q \in Paths, held'[q] # <<>> PROVE \E i \in 1..(l + 1) : writes'[i].path = q
  <2>1. CASE q = p
    <3>1. l + 1 \in 1..(l + 1) /\ writes'[l + 1].path = p
      BY <1>2, <1>3, <1>4
    <3> QED
      BY <2>1, <3>1
  <2>2. CASE q # p
    <3>1. PICK i \in 1..l : writes[i].path = q
      BY <2>2, <1>7, <1>13 DEF ClaimsInv, l
    <3>2. i \in 1..(l + 1) /\ writes'[i].path = q
      BY <3>1, <1>2, <1>4
    <3> QED
      BY <3>2
  <2> QED
    BY <2>1, <2>2
<1> QED
  BY <1>4, <1>5, <1>6, <1>12, <1>13 DEF ClaimsInv

LEMMA AttentionKeeps ==
  ASSUME AttentionInv, NEW e \in Events, Desk!Raise(e) \/ Desk!Clear(e)
  PROVE  AttentionInv'
<1>1. /\ items \in [Events -> Nat] /\ open \subseteq Events
      /\ \A x : x \in open <=> x \in Events /\ items[x] > 0
  BY DEF AttentionInv, Desk!AttentionCurrent
<1>2. ASSUME NEW k \in Nat, items' = [items EXCEPT ![e] = k],
             open' = IF k > 0 THEN open \cup {e} ELSE open \ {e}
      PROVE  AttentionInv'
  <2>1. items' \in [Events -> Nat] /\ open' \subseteq Events
    BY <1>1, <1>2
  <2>2. ASSUME NEW x \in Events PROVE x \in open' <=> items'[x] > 0
    <3>1. CASE x = e
      <4>1. items'[x] = k
        BY <3>1, <1>1, <1>2
      <4> QED
        BY <3>1, <4>1, <1>2
    <3>2. CASE x # e
      <4>1. items'[x] = items[x]
        BY <3>2, <1>1, <1>2
      <4>2. x \in open' <=> x \in open
        BY <3>2, <1>2
      <4> QED
        BY <4>1, <4>2, <1>1
    <3> QED
      BY <3>1, <3>2
  <2> QED
    BY <2>1, <2>2 DEF AttentionInv, Desk!AttentionCurrent
<1>3. CASE Desk!Raise(e)
  <2>1. items[e] \in Nat /\ items[e] + 1 \in Nat /\ items[e] + 1 > 0
    BY <1>1
  <2>2. items' = [items EXCEPT ![e] = items[e] + 1] /\ open' = open \cup {e}
    BY <1>3 DEF Desk!Raise
  <2> QED
    BY <2>1, <2>2, <1>2
<1>4. CASE Desk!Clear(e)
  <2>1. items' = [items EXCEPT ![e] = 0] /\ open' = open \ {e}
    BY <1>4 DEF Desk!Clear
  <2>2. 0 \in Nat /\ open' = IF 0 > 0 THEN open \cup {e} ELSE open \ {e}
    BY <2>1
  <2> QED
    BY <2>1, <2>2, <1>2
<1> QED
  BY <1>3, <1>4

LEMMA DeskStep ==
  ASSUME DeskAssumptions, GovernorInv, ClaimsInv, AttentionInv,
         [Desk!Next]_Desk!ticketVars
  PROVE  GovernorInv' /\ ClaimsInv' /\ AttentionInv'
<1>1. ASSUME UNCHANGED Desk!governorVars PROVE GovernorInv'
  BY <1>1 DEF Desk!governorVars, GovernorInv, GovernorTypes, PoolOf, TicketsOf
<1>2. ASSUME UNCHANGED <<held, writes, admissions>> PROVE ClaimsInv'
  BY <1>2 DEF ClaimsInv, Earlier
<1>3. ASSUME UNCHANGED <<items, open>> PROVE AttentionInv'
  BY <1>3 DEF AttentionInv, Desk!AttentionCurrent
<1>4. ASSUME NEW t \in Tenants, NEW n \in 0..MaxCapacity, Desk!SetCapacity(t, n)
      PROVE  GovernorInv' /\ ClaimsInv' /\ AttentionInv'
  <2>1. n \in Nat
    BY DEF DeskAssumptions
  <2>2. UNCHANGED Desk!deskVars
    BY <1>4 DEF Desk!SetCapacity
  <2> QED
    BY <1>2, <1>3, <1>4, <2>1, <2>2, CapacitySet DEF Desk!deskVars
<1>5. ASSUME NEW t \in Tenants, NEW c \in Children, NEW step, Desk!AdmitSubagent(t, c, step)
      PROVE  GovernorInv' /\ ClaimsInv' /\ AttentionInv'
  <2>1. UNCHANGED Desk!deskVars
    BY <1>5 DEF Desk!AdmitSubagent
  <2> QED
    BY <1>2, <1>3, <1>5, <2>1, AdmissionKeeps DEF Desk!deskVars
<1>6. ASSUME NEW n, Desk!Release(n) PROVE GovernorInv' /\ ClaimsInv' /\ AttentionInv'
  <2>1. UNCHANGED Desk!deskVars
    BY <1>6 DEF Desk!Release
  <2> QED
    BY <1>2, <1>3, <1>6, <2>1, ReleaseKeeps DEF Desk!deskVars
<1>7. ASSUME NEW a \in admitted, Desk!HolderDies(a)
      PROVE  GovernorInv' /\ ClaimsInv' /\ AttentionInv'
  <2>1. UNCHANGED Desk!deskVars
    BY <1>7 DEF Desk!HolderDies
  <2> QED
    BY <1>2, <1>3, <1>7, <2>1, DeathKeeps DEF Desk!deskVars
<1>8. ASSUME NEW c \in Children, NEW p \in Paths, Desk!Propose(c, p)
      PROVE  GovernorInv' /\ ClaimsInv' /\ AttentionInv'
  <2>1. UNCHANGED <<items, open, Desk!governorVars>>
    BY <1>8 DEF Desk!Propose
  <2> QED
    BY <1>1, <1>3, <1>8, <2>1, ProposalKeeps
<1>9. ASSUME NEW e \in Events, Desk!Raise(e) \/ Desk!Clear(e)
      PROVE  GovernorInv' /\ ClaimsInv' /\ AttentionInv'
  <2>1. UNCHANGED <<held, writes, admissions, Desk!governorVars>>
    BY <1>9 DEF Desk!Raise, Desk!Clear
  <2> QED
    BY <1>1, <1>2, <1>9, <2>1, AttentionKeeps
<1>10. CASE UNCHANGED Desk!ticketVars
  BY <1>1, <1>2, <1>3, <1>10 DEF Desk!ticketVars, Desk!governorVars
<1> QED
  BY <1>4, <1>5, <1>6, <1>7, <1>8, <1>9, <1>10 DEF Desk!Next

LEMMA SameCount == \A S : Desk!Cardinality(S) = Cardinality(S)
BY DEF Desk!Cardinality, Cardinality

\* The invariants say what the library promises.
LEMMA DeskPromises ==
  ASSUME GovernorInv, ClaimsInv, AttentionInv
  PROVE  Desk!TicketsSound
<1>1. Desk!NoCapacityLeak
  <2> SUFFICES ASSUME NEW t \in Tenants
               PROVE  /\ ValuesOf(pools[t]) \ dead = TicketsOf(t)
                      /\ Len(pools[t]) = Cardinality(ValuesOf(pools[t]))
    BY SameCount DEF Desk!NoCapacityLeak, Desk!Pooled, ValuesOf, TicketsOf
  <2>1. PoolOf(t) /\ pools[t] \in Seq(Nat)
    BY DEF GovernorInv, GovernorTypes
  <2> QED
    BY <2>1, DistinctCounts DEF PoolOf
<1>2. Desk!CapacityHeld
  BY DEF Desk!CapacityHeld, Desk!Pooled, ValuesOf, GovernorInv, PoolOf
<1>3. Desk!FirstClaimWins
  <2> SUFFICES ASSUME NEW i \in DOMAIN writes
               PROVE  LET same == {j \in DOMAIN writes : writes[j].path = writes[i].path}
                          first == CHOOSE j \in same : \A k \in same : j <= k
                      IN  admissions[i] = IF i = first THEN [is |-> "approved"]
                                          ELSE [is |-> "denied", holders |-> <<writes[first].task>>]
    BY DEF Desk!FirstClaimWins
  <2> DEFINE same == {j \in DOMAIN writes : writes[j].path = writes[i].path}
             first == CHOOSE j \in same : \A k \in same : j <= k
  <2>1. DOMAIN writes = 1..Len(writes) /\ Len(writes) \in Nat /\ i \in 1..Len(writes)
    BY DEF ClaimsInv
  <2>2. same \subseteq Nat /\ i \in same
    BY <2>1
  <2>3. \E j \in same : \A k \in same : j <= k
    BY <2>2, SmallestNumber
  <2>4. first \in same /\ \A k \in same : first <= k
    BY <2>3
  <2> HIDE DEF first
  <2>5. first \in 1..Len(writes) /\ writes[first].path = writes[i].path /\ first <= i
    BY <2>1, <2>2, <2>4
  <2> HIDE DEF same
  <2>6. ~Earlier(writes, first)
    <3> SUFFICES ASSUME NEW j \in 1..(first - 1), writes[j].path = writes[first].path
                 PROVE  FALSE
      BY DEF Earlier
    <3>1. j \in 1..Len(writes) /\ ~(first <= j)
      BY <2>1, <2>5
    <3>2. j \in same
      BY <3>1, <2>1, <2>5 DEF same
    <3> QED
      BY <3>1, <3>2, <2>4
  <2>7. held[writes[i].path] = <<writes[first].task>>
    BY <2>5, <2>6 DEF ClaimsInv
  <2>8. CASE i = first
    <3>1. admissions[i] = [is |-> "approved"]
      BY <2>1, <2>6, <2>8 DEF ClaimsInv
    <3> QED
      BY <2>8, <3>1 DEF first, same
  <2>9. CASE i # first
    <3>1. first \in 1..(i - 1)
      BY <2>1, <2>5, <2>9
    <3>2. Earlier(writes, i)
      BY <3>1, <2>5 DEF Earlier
    <3>3. admissions[i] = [is |-> "denied", holders |-> <<writes[first].task>>]
      BY <2>1, <2>7, <3>2 DEF ClaimsInv
    <3> QED
      BY <2>9, <3>3 DEF first, same
  <2> QED
    BY <2>8, <2>9
<1>4. Desk!AttentionCurrent
  BY DEF AttentionInv
<1> QED
  BY <1>1, <1>2, <1>3, <1>4 DEF Desk!TicketsSound

\* The coordination library of the fleet: no ticket leaks, whichever step of an
\* admission fails, whoever releases what and however often, and whoever dies; a tenant
\* never has more tickets than it was allowed; of the writes of a path the first wins;
\* and the attention list has the events that are not resolved.
THEOREM TicketsAreSound ==
  ASSUME DeskAssumptions PROVE Desk!TicketSpec => []Desk!TicketsSound
<1>1. Desk!Init => GovernorInv /\ ClaimsInv /\ AttentionInv
  BY DeskInit
<1>2. /\ GovernorInv /\ ClaimsInv /\ AttentionInv /\ [Desk!Next]_Desk!ticketVars
      => (GovernorInv /\ ClaimsInv /\ AttentionInv)'
  BY DeskStep
<1>3. GovernorInv /\ ClaimsInv /\ AttentionInv => Desk!TicketsSound
  BY DeskPromises
<1> QED
  BY <1>1, <1>2, <1>3, PTL DEF Desk!TicketSpec

-----------------------------------------------------------------------------
(***************************************************************************)
(* The approvals of the policy crate (ApprovalCourt).                      *)
(***************************************************************************)
CONSTANTS Ids, Intents, Clients, Policies, Never, MaxRecords, MaxTime, MaxVotes

VARIABLES approvals, time, rulings, answer, policy, enrolled, votes, resolved, minutes

Court == INSTANCE ApprovalCourt WITH MaxNow <- MaxTime, now <- time, audit <- minutes

\* The designated client and the consensus minimum of a policy; Never is no outcome.
CourtAssumptions ==
  /\ Never \notin {"approved", "denied"} /\ MaxTime \in Nat
  /\ \A p \in Policies : p.mode # "designated" => p.min \in Nat

Verdicts == {"approved", "denied", "superseded"}
Records == [id : Ids, intent : Intents, state : Verdicts \cup {"pending", "expired"},
            expires : Nat \cup {Never}]
Decisions == [record : Nat, state : Verdicts]

\* The last word on a record.
Last(i) == rulings[Court!Max(Court!RulingsOn(i, Len(rulings)))].state
Decided(i) == Court!RulingsOn(i, Len(rulings)) # {}

\* A record's state is the last word on it, but that a stale approval may be expired.
RecordExplained(i) ==
  /\ approvals[i].state = "pending" => ~Decided(i)
  /\ approvals[i].state \in Verdicts => Decided(i) /\ Last(i) = approvals[i].state
  /\ approvals[i].state = "expired" => Decided(i) /\ Last(i) = "approved" /\ ~Court!Fresh(i, time)

StoreInv ==
  /\ approvals \in Seq(Records) /\ rulings \in Seq(Decisions) /\ time \in Nat
  /\ \A k \in 1..Len(rulings) : rulings[k].record \in 1..Len(approvals)
  /\ \A i \in 1..Len(approvals) : RecordExplained(i)
  /\ Court!DecidedOnce
  /\ answer # Never => /\ answer.records \in 0..Len(approvals)
                       /\ answer.rulings \in 0..Len(rulings)
  /\ Court!LiveMeansApproved

LEMMA CourtMax ==
  ASSUME NEW n \in Nat, NEW S, S \subseteq 1..n, S # {}
  PROVE  Court!Max(S) \in S /\ \A i \in S : i <= Court!Max(S)
<1>1. Court!Max(S) = Fleet!Max(S)
  BY DEF Court!Max, Fleet!Max
<1> QED
  BY <1>1, LargestNumber

LEMMA CourtMaxIs ==
  ASSUME NEW n \in Nat, NEW S, S \subseteq 1..n, NEW m \in S, \A i \in S : i <= m
  PROVE  Court!Max(S) = m
<1>1. Court!Max(S) \in S /\ \A i \in S : i <= Court!Max(S)
  BY CourtMax
<1>0. \A i \in S : i \in Nat
  OBVIOUS
<1>2. Court!Max(S) \in Nat /\ m \in Nat
  BY <1>0, <1>1
<1>3. Court!Max(S) <= m /\ m <= Court!Max(S)
  BY <1>1
<1> QED
  BY <1>2, <1>3

LEMMA CourtMin ==
  ASSUME NEW S, S \subseteq Nat, S # {}
  PROVE  Court!Min(S) \in S /\ \A i \in S : Court!Min(S) <= i
<1>1. \E n \in S : \A m \in S : n <= m
  BY SmallestNumber
<1> QED
  BY <1>1 DEF Court!Min

LEMMA CourtMinIs ==
  ASSUME NEW S, S \subseteq Nat, NEW m \in S, \A i \in S : m <= i
  PROVE  Court!Min(S) = m
<1>1. Court!Min(S) \in S /\ \A i \in S : Court!Min(S) <= i
  BY CourtMin
<1>2. Court!Min(S) \in Nat /\ m \in Nat
  BY <1>1
<1>3. Court!Min(S) <= m /\ m <= Court!Min(S)
  BY <1>1
<1> QED
  BY <1>2, <1>3

\* Rulings of the past do not change, so neither do answers given by them.
LEMMA AnswersStand ==
  ASSUME StoreInv, UNCHANGED answer,
         Len(approvals') \in Nat, Len(approvals) <= Len(approvals'),
         \A i \in 1..Len(approvals) : /\ approvals'[i].intent = approvals[i].intent
                                      /\ approvals'[i].expires = approvals[i].expires,
         Len(rulings') \in Nat, Len(rulings) <= Len(rulings'),
         \A k \in 1..Len(rulings) : rulings'[k] = rulings[k]
  PROVE  /\ answer # Never => /\ answer'.records \in 0..Len(approvals')
                              /\ answer'.rulings \in 0..Len(rulings')
         /\ Court!LiveMeansApproved'
<1>0. Len(approvals) \in Nat /\ Len(rulings) \in Nat
  BY DEF StoreInv
<1>1. CASE answer = Never
  BY <1>1 DEF Court!LiveMeansApproved
<1>2. CASE answer # Never
  <2>1. answer.records \in 0..Len(approvals) /\ answer.rulings \in 0..Len(rulings)
    BY <1>2 DEF StoreInv
  <2>2. answer'.records \in 0..Len(approvals') /\ answer'.rulings \in 0..Len(rulings')
    BY <2>1, <1>0
  <2> DEFINE n == answer.rulings
             On(i) == {k \in 1..n : rulings[k].record = i}
  <2>3. \A k \in 1..n : rulings'[k] = rulings[k]
    BY <2>1, <1>0
  <2>4. ASSUME NEW i \in 1..answer.records
        PROVE  /\ Court!RulingsOn(i, answer.rulings)' = Court!RulingsOn(i, n)
               /\ approvals'[i].intent = approvals[i].intent
               /\ Court!Fresh(i, answer.at)' <=> Court!Fresh(i, answer.at)
               /\ Court!RulingsOn(i, n) # {} =>
                    rulings'[Court!Max(Court!RulingsOn(i, n))] =
                      rulings[Court!Max(Court!RulingsOn(i, n))]
    <3>1. i \in 1..Len(approvals)
      BY <2>1, <1>0
    <3>2. Court!RulingsOn(i, answer.rulings)' = Court!RulingsOn(i, n)
      BY <2>3 DEF Court!RulingsOn
    <3>3. Court!RulingsOn(i, n) # {} => Court!Max(Court!RulingsOn(i, n)) \in 1..n
      <4>1. Court!RulingsOn(i, n) \subseteq 1..n /\ n \in Nat
        BY <2>1 DEF Court!RulingsOn
      <4> HIDE DEF n
      <4> QED
        BY <4>1, CourtMax
    <3> QED
      BY <3>1, <3>2, <3>3, <2>3 DEF Court!Fresh
  <2>5. answer.yes <=> \E i \in 1..answer.records :
                         /\ approvals[i].intent = answer.intent /\ Court!Fresh(i, answer.at)
                         /\ Court!RulingsOn(i, answer.rulings) # {}
                         /\ rulings[Court!Max(Court!RulingsOn(i, answer.rulings))].state = "approved"
    BY <1>2 DEF StoreInv, Court!LiveMeansApproved
  <2>6. ASSUME NEW i \in 1..answer.records
        PROVE  (/\ approvals[i].intent = answer.intent /\ Court!Fresh(i, answer.at)
                /\ Court!RulingsOn(i, answer.rulings) # {}
                /\ rulings[Court!Max(Court!RulingsOn(i, answer.rulings))].state = "approved")
               <=>
               (/\ approvals'[i].intent = answer.intent /\ Court!Fresh(i, answer.at)'
                /\ Court!RulingsOn(i, answer.rulings)' # {}
                /\ rulings'[Court!Max(Court!RulingsOn(i, answer.rulings)')].state = "approved")
    BY <2>4
  <2>7. answer.yes <=> \E i \in 1..answer.records :
                         /\ approvals'[i].intent = answer.intent /\ Court!Fresh(i, answer.at)'
                         /\ Court!RulingsOn(i, answer.rulings)' # {}
                         /\ rulings'[Court!Max(Court!RulingsOn(i, answer.rulings)')].state = "approved"
    BY <2>5, <2>6
  <2>8. Court!LiveMeansApproved'
    BY <2>7 DEF Court!LiveMeansApproved, Court!Fresh, Court!RulingsOn, Court!Max
  <2> QED
    BY <2>2, <2>8
<1> QED
  BY <1>1, <1>2

LEMMA CourtInit == Court!Init /\ CourtAssumptions => StoreInv
<1> SUFFICES ASSUME Court!Init, CourtAssumptions PROVE StoreInv
  OBVIOUS
<1>0. approvals = <<>> /\ time = 0 /\ rulings = <<>> /\ answer = Never
  BY DEF Court!Init
<1>1. DOMAIN <<>> = {} /\ Len(<<>>) = 0 /\ \A S : <<>> \in Seq(S)
  OBVIOUS
<1> QED
  BY <1>0, <1>1 DEF StoreInv, Court!DecidedOnce, Court!LiveMeansApproved

LEMMA RequestKeeps ==
  ASSUME StoreInv, NEW id \in Ids, NEW h \in Intents, NEW x \in Nat \cup {Never},
         Court!Request(id, h, x)
  PROVE  StoreInv'
<1> DEFINE l == Len(approvals)
           new == [id |-> id, intent |-> h, state |-> "pending", expires |-> x]
<1>1. approvals' = Append(approvals, new) /\ UNCHANGED <<time, rulings, answer>>
  BY DEF Court!Request
<1>2. new \in Records /\ new.state = "pending" /\ l \in Nat /\ Len(rulings) \in Nat
      /\ approvals \in Seq(Records)
  BY DEF Records, StoreInv
<1> HIDE DEF new
<1>3. /\ approvals' \in Seq(Records) /\ Len(approvals') = l + 1 /\ approvals'[l + 1] = new
      /\ \A i \in 1..l : approvals'[i] = approvals[i]
  BY <1>1, <1>2
<1> HIDE DEF l
<1>4. ASSUME NEW k \in 1..Len(rulings) PROVE rulings[k].record \in 1..l /\ rulings[k].record \in 1..(l + 1)
  BY <1>2 DEF StoreInv, l
<1>5. ASSUME NEW i \in 1..(l + 1) PROVE RecordExplained(i)'
  <2>1. CASE i \in 1..l
    <3>1. RecordExplained(i) /\ approvals'[i] = approvals[i]
      BY <2>1, <1>3 DEF StoreInv, l
    <3> QED
      BY <3>1, <1>1 DEF RecordExplained, Decided, Last, Court!Fresh, Court!RulingsOn, Court!Max
  <2>2. CASE i = l + 1
    <3>1. Court!RulingsOn(i, Len(rulings)) = {}
      <4>1. ASSUME NEW k \in 1..Len(rulings) PROVE rulings[k].record # i
        BY <1>2, <1>4, <2>2
      <4> QED
        BY <4>1 DEF Court!RulingsOn
    <3>2. approvals'[i].state = "pending"
      BY <2>2, <1>2, <1>3
    <3>3. Decided(i)' <=> Decided(i)
      BY <1>1 DEF Decided, Court!RulingsOn
    <3> QED
      BY <3>1, <3>2, <3>3 DEF RecordExplained, Decided, Verdicts
  <2> QED
    BY <2>1, <2>2, <1>2
<1>6. /\ answer # Never => /\ answer'.records \in 0..Len(approvals')
                           /\ answer'.rulings \in 0..Len(rulings')
      /\ Court!LiveMeansApproved'
  <2>1. Len(approvals') \in Nat /\ Len(approvals) <= Len(approvals')
    BY <1>2, <1>3 DEF l
  <2>2. \A i \in 1..Len(approvals) : /\ approvals'[i].intent = approvals[i].intent
                                     /\ approvals'[i].expires = approvals[i].expires
    BY <1>3 DEF l
  <2>3. Len(rulings') \in Nat /\ Len(rulings) <= Len(rulings')
        /\ \A k \in 1..Len(rulings) : rulings'[k] = rulings[k]
    BY <1>1, <1>2
  <2> QED
    BY <2>1, <2>2, <2>3, <1>1, AnswersStand
<1>7. Court!DecidedOnce'
  BY <1>1 DEF StoreInv, Court!DecidedOnce
<1> QED
  BY <1>1, <1>3, <1>4, <1>5, <1>6, <1>7 DEF StoreInv

\* A record that two rulings are on was approved and then superseded.
LEMMA ResolveKeeps ==
  ASSUME StoreInv, NEW id \in Ids, NEW state \in Verdicts, Court!Resolve(id, state)
  PROVE  StoreInv'
<1> DEFINE i0 == Court!Min(Court!Named(id))
           l == Len(approvals)
           m == Len(rulings)
           new == [record |-> i0, state |-> state]
<1>0. /\ approvals \in Seq(Records) /\ rulings \in Seq(Decisions) /\ l \in Nat /\ m \in Nat
      /\ DOMAIN approvals = 1..l /\ DOMAIN rulings = 1..m
  BY DEF StoreInv
<1>1. i0 \in 1..l
  <2>1. Court!Named(id) \subseteq Nat /\ Court!Named(id) # {} /\ Court!Named(id) \subseteq 1..l
    BY <1>0 DEF Court!Resolve, Court!Named
  <2> QED
    BY <2>1, CourtMin
<1>2. /\ \/ approvals[i0].state = "pending"
         \/ approvals[i0].state = "approved" /\ state = "superseded"
      /\ approvals' = [approvals EXCEPT ![i0].state = state]
      /\ rulings' = Append(rulings, new)
      /\ UNCHANGED <<time, answer>>
  BY DEF Court!Resolve
<1>3. new \in Decisions /\ new.record = i0 /\ new.state = state
  BY <1>0, <1>1 DEF Decisions
<1> HIDE DEF i0, l, m, new
<1>4. /\ approvals' \in Seq(Records) /\ Len(approvals') = l
      /\ approvals'[i0] = [approvals[i0] EXCEPT !.state = state]
      /\ \A i \in 1..l : i # i0 => approvals'[i] = approvals[i]
      /\ \A i \in 1..l : /\ approvals'[i].intent = approvals[i].intent
                         /\ approvals'[i].expires = approvals[i].expires
  <2>0. approvals[i0] \in Records
    BY <1>0, <1>1, ElementOfSeq DEF l
  <2>1. [approvals[i0] EXCEPT !.state = state] \in Records
    BY <2>0 DEF Records
  <2>2. approvals' = [approvals EXCEPT ![i0] = [approvals[i0] EXCEPT !.state = state]]
    BY <1>2
  <2>3. approvals' \in Seq(Records) /\ Len(approvals') = l
    BY <2>1, <2>2, <1>0, <1>1 DEF l
  <2>4. /\ approvals'[i0] = [approvals[i0] EXCEPT !.state = state]
        /\ \A i \in 1..l : i # i0 => approvals'[i] = approvals[i]
    BY <2>2, <1>0, <1>1
  <2>5. /\ [approvals[i0] EXCEPT !.state = state].intent = approvals[i0].intent
        /\ [approvals[i0] EXCEPT !.state = state].expires = approvals[i0].expires
    BY <2>0 DEF Records
  <2> QED
    BY <2>3, <2>4, <2>5
<1>5. /\ rulings' \in Seq(Decisions) /\ Len(rulings') = m + 1 /\ rulings'[m + 1] = new
      /\ \A k \in 1..m : rulings'[k] = rulings[k]
  BY <1>0, <1>2, <1>3 DEF m
<1>6. approvals'[i0].state = state
  <2>0. approvals[i0] \in Records
    BY <1>0, <1>1, ElementOfSeq DEF l
  <2> QED
    BY <2>0, <1>4 DEF Records
<1>7. ASSUME NEW i
      PROVE  Court!RulingsOn(i, Len(rulings))' =
               Court!RulingsOn(i, m) \cup (IF i = i0 THEN {m + 1} ELSE {})
  <2>1. Court!RulingsOn(i, Len(rulings))' = {k \in 1..(m + 1) : rulings'[k].record = i}
    BY <1>5 DEF Court!RulingsOn
  <2>2. ASSUME NEW k \in 1..(m + 1)
        PROVE  rulings'[k].record = i <=>
                 (k \in 1..m /\ rulings[k].record = i) \/ (k = m + 1 /\ i = i0)
    <3>1. CASE k = m + 1
      BY <3>1, <1>0, <1>3, <1>5
    <3>2. CASE k # m + 1
      <4>1. k \in 1..m
        BY <3>2, <1>0
      <4> QED
        BY <4>1, <3>2, <1>5
    <3> QED
      BY <3>1, <3>2
  <2>3. m + 1 \in 1..(m + 1) /\ 1..m \subseteq 1..(m + 1)
    BY <1>0
  <2> QED
    BY <2>1, <2>2, <2>3 DEF Court!RulingsOn
<1>8. ASSUME NEW i \in 1..l PROVE RecordExplained(i)'
  <2>1. CASE i = i0
    <3> DEFINE S == Court!RulingsOn(i, Len(rulings))'
    <3>1. S \subseteq 1..(m + 1) /\ m + 1 \in S /\ \A k \in S : k <= m + 1
      <4>1. S = Court!RulingsOn(i, m) \cup {m + 1}
        BY <2>1, <1>7
      <4>2. Court!RulingsOn(i, m) \subseteq 1..m
        BY DEF Court!RulingsOn
      <4> HIDE DEF S
      <4>3. ASSUME NEW k \in S PROVE k \in 1..(m + 1) /\ k <= m + 1
        <5>1. k \in 1..m \/ k = m + 1
          BY <4>1, <4>2
        <5> QED
          BY <5>1, <1>0
      <4> QED
        BY <4>1, <4>3
    <3> HIDE DEF S
    <3>2. Court!Max(S) = m + 1
      <4> DEFINE e == m + 1
      <4>1. e \in Nat /\ S \subseteq 1..e /\ e \in S /\ \A k \in S : k <= e
        BY <3>1, <1>0
      <4> HIDE DEF e
      <4>2. Court!Max(S) = e
        BY <4>1, CourtMaxIs
      <4> QED
        BY <4>2 DEF e
    <3>3. Last(i)' = state /\ Decided(i)'
      <4>1. Last(i)' = rulings'[Court!Max(S)].state
        BY DEF Last, S, Court!Max
      <4>2. Decided(i)'
        BY <3>1 DEF Decided, S
      <4> QED
        BY <4>1, <4>2, <3>2, <1>3, <1>5
    <3> QED
      BY <3>3, <2>1, <1>6 DEF RecordExplained, Verdicts
  <2>2. CASE i # i0
    <3>1. RecordExplained(i) /\ approvals'[i] = approvals[i]
      BY <2>2, <1>4 DEF StoreInv, l
    <3>2. Court!RulingsOn(i, Len(rulings))' = Court!RulingsOn(i, m)
      BY <2>2, <1>7
    <3>3. Decided(i)' <=> Decided(i)
      BY <3>2 DEF Decided, m
    <3>4. Decided(i) => Last(i)' = Last(i)
      <4> SUFFICES ASSUME Decided(i) PROVE Last(i)' = Last(i)
        OBVIOUS
      <4>1. Court!RulingsOn(i, m) \subseteq 1..m /\ Court!RulingsOn(i, m) # {}
        BY DEF Court!RulingsOn, Decided, m
      <4>2. Court!Max(Court!RulingsOn(i, m)) \in 1..m
        BY <4>1, <1>0, CourtMax
      <4>3. Last(i)' = rulings'[Court!Max(Court!RulingsOn(i, m))].state
        BY <3>2 DEF Last, Court!Max
      <4> QED
        BY <4>2, <4>3, <1>5 DEF Last, m
    <3>5. Court!Fresh(i, time)' <=> Court!Fresh(i, time)
      BY <3>1, <1>2 DEF Court!Fresh
    <3> QED
      BY <3>1, <3>3, <3>4, <3>5 DEF RecordExplained
  <2> QED
    BY <2>1, <2>2
<1>9. ASSUME NEW k \in 1..(m + 1) PROVE rulings'[k].record \in 1..l
  <2>1. CASE k = m + 1
    BY <2>1, <1>1, <1>3, <1>5
  <2>2. CASE k # m + 1
    <3>1. k \in 1..m
      BY <2>2, <1>0
    <3> QED
      BY <3>1, <1>5 DEF StoreInv, l, m
  <2> QED
    BY <2>1, <2>2
<1>10. ASSUME NEW j \in 1..m, rulings[j].record = i0
       PROVE  rulings[j].state = "approved" /\ state = "superseded"
  <2>1. RecordExplained(i0)
    BY <1>1 DEF StoreInv, l
  <2>2. j \in Court!RulingsOn(i0, m) /\ Court!RulingsOn(i0, m) \subseteq 1..m
    BY <1>10 DEF Court!RulingsOn
  <2>3. approvals[i0].state = "approved" /\ state = "superseded"
    BY <2>1, <2>2, <1>2 DEF RecordExplained, Decided, m
  <2> DEFINE e == Court!Max(Court!RulingsOn(i0, m))
  <2>4. e \in Court!RulingsOn(i0, m) /\ \A k \in Court!RulingsOn(i0, m) : k <= e
    BY <2>2, <1>0, CourtMax
  <2>5. rulings[e].state = "approved"
    BY <2>1, <2>3 DEF RecordExplained, Last, Verdicts, m
  <2> HIDE DEF e
  <2>6. e \in 1..m /\ rulings[e].record = i0 /\ j <= e
    BY <2>2, <2>4 DEF Court!RulingsOn
  <2>7. CASE j = e
    BY <2>3, <2>5, <2>7
  <2>8. CASE j # e
    <3>1. j < e
      BY <2>6, <2>8
    <3> QED
      BY <3>1, <2>6, <2>5, <1>0, <1>10 DEF StoreInv, Court!DecidedOnce
  <2> QED
    BY <2>7, <2>8
<1>11. Court!DecidedOnce'
  <2>1. DOMAIN rulings' = 1..(m + 1)
    BY <1>5
  <2> SUFFICES ASSUME NEW j \in 1..(m + 1), NEW k \in 1..(m + 1), j < k,
                      rulings'[j].record = rulings'[k].record
               PROVE  rulings'[j].state = "approved" /\ rulings'[k].state = "superseded"
    BY <2>1 DEF Court!DecidedOnce
  <2>2. j \in 1..m
    BY <1>0
  <2>3. CASE k = m + 1
    <3>1. rulings[j].record = i0 /\ rulings'[k].state = state
      BY <2>2, <2>3, <1>3, <1>5
    <3> QED
      BY <3>1, <2>2, <1>5, <1>10
  <2>4. CASE k # m + 1
    <3>1. k \in 1..m
      BY <2>4, <1>0
    <3> QED
      BY <3>1, <2>2, <1>0, <1>5 DEF StoreInv, Court!DecidedOnce
  <2> QED
    BY <2>3, <2>4
<1>12. /\ answer # Never => /\ answer'.records \in 0..Len(approvals')
                            /\ answer'.rulings \in 0..Len(rulings')
       /\ Court!LiveMeansApproved'
  <2>1. Len(approvals') \in Nat /\ Len(approvals) <= Len(approvals')
    BY <1>0, <1>4 DEF l
  <2>2. \A i \in 1..Len(approvals) : /\ approvals'[i].intent = approvals[i].intent
                                     /\ approvals'[i].expires = approvals[i].expires
    BY <1>4 DEF l
  <2>3. Len(rulings') \in Nat /\ Len(rulings) <= Len(rulings')
        /\ \A k \in 1..Len(rulings) : rulings'[k] = rulings[k]
    BY <1>0, <1>5 DEF m
  <2> QED
    BY <2>1, <2>2, <2>3, <1>2, AnswersStand
<1> QED
  BY <1>2, <1>4, <1>5, <1>8, <1>9, <1>11, <1>12 DEF StoreInv

\* A lookup expires only what is stale, and answers by what is not.
LEMMA LookupKeeps ==
  ASSUME StoreInv, NEW h \in Intents, Court!HasLiveApproval(h)
  PROVE  StoreInv'
<1> DEFINE l == Len(approvals)
           live == {i \in Court!Granted(h) : Court!Fresh(i, time)}
           passed(i) == i \in Court!Granted(h) /\ \A k \in live : i < k
<1>0. /\ approvals \in Seq(Records) /\ rulings \in Seq(Decisions) /\ l \in Nat
      /\ DOMAIN approvals = 1..l /\ Len(rulings) \in Nat
  BY DEF StoreInv
<1>1. /\ approvals' = [i \in 1..l |-> IF passed(i) THEN [approvals[i] EXCEPT !.state = "expired"]
                                      ELSE approvals[i]]
      /\ answer' = [intent |-> h, at |-> time, yes |-> live # {},
                    records |-> l, rulings |-> Len(rulings)]
      /\ UNCHANGED <<time, rulings>>
  BY <1>0 DEF Court!HasLiveApproval
<1>2. ASSUME NEW i \in 1..l
      PROVE  /\ approvals[i] \in Records /\ approvals'[i] \in Records
             /\ approvals'[i].intent = approvals[i].intent
             /\ approvals'[i].expires = approvals[i].expires
             /\ approvals'[i].state = IF passed(i) THEN "expired" ELSE approvals[i].state
  <2>1. approvals[i] \in Records
    BY <1>0, ElementOfSeq
  <2>2. approvals'[i] = IF passed(i) THEN [approvals[i] EXCEPT !.state = "expired"]
                        ELSE approvals[i]
    BY <1>1
  <2>3. CASE passed(i)
    <3>1. approvals'[i] = [approvals[i] EXCEPT !.state = "expired"]
      BY <2>2, <2>3
    <3> QED
      BY <2>1, <2>3, <3>1 DEF Records
  <2>4. CASE ~passed(i)
    BY <2>1, <2>2, <2>4
  <2> QED
    BY <2>3, <2>4
<1>3. approvals' \in Seq(Records) /\ Len(approvals') = l
  <2>1. approvals' \in [1..l -> Records]
    BY <1>1, <1>2
  <2>2. approvals' \in Seq(Records)
    BY <2>1, <1>0, IsASeq
  <2>3. DOMAIN approvals' = 1..l
    BY <1>1
  <2> QED
    BY <2>2, <2>3, <1>0, LenProperties
<1>4. ASSUME NEW i \in 1..l, passed(i)
      PROVE  approvals[i].state = "approved" /\ ~Court!Fresh(i, time)
  <2>1. i \in Court!Granted(h) /\ \A k \in live : i < k
    BY <1>4
  <2>2. i \notin live
    BY <2>1
  <2> QED
    BY <2>1, <2>2 DEF Court!Granted
<1>5. ASSUME NEW i \in 1..l
      PROVE  /\ Decided(i)' <=> Decided(i)
             /\ Last(i)' = Last(i)
             /\ Court!Fresh(i, time)' <=> Court!Fresh(i, time)
  BY <1>1, <1>2 DEF Decided, Last, Court!Fresh, Court!RulingsOn, Court!Max
<1>6. ASSUME NEW i \in 1..l PROVE RecordExplained(i)'
  <2>1. RecordExplained(i)
    BY DEF StoreInv
  <2>2. CASE passed(i)
    <3>1. approvals'[i].state = "expired" /\ approvals[i].state = "approved" /\ ~Court!Fresh(i, time)
      BY <2>2, <1>2, <1>4
    <3> QED
      BY <3>1, <2>1, <1>5 DEF RecordExplained, Verdicts
  <2>3. CASE ~passed(i)
    <3>1. approvals'[i].state = approvals[i].state
      BY <2>3, <1>2
    <3> QED
      BY <3>1, <2>1, <1>5 DEF RecordExplained
  <2> QED
    BY <2>2, <2>3
<1>7. Court!LiveMeansApproved'
  <2> DEFINE words(i) == /\ approvals[i].intent = h /\ Court!Fresh(i, time)
                         /\ Decided(i) /\ Last(i) = "approved"
  <2>1. ASSUME NEW i \in 1..l PROVE i \in live <=> words(i)
    <3>1. RecordExplained(i) /\ approvals[i] \in Records
      BY <1>2 DEF StoreInv
    <3>2. approvals[i].state \in Verdicts \cup {"pending", "expired"}
      BY <3>1 DEF Records
    <3>3. i \in live <=> /\ approvals[i].intent = h /\ approvals[i].state = "approved"
                         /\ Court!Fresh(i, time)
      BY <1>0 DEF Court!Granted
    <3> QED
      BY <3>1, <3>2, <3>3 DEF RecordExplained, Verdicts
  <2>2. live \subseteq 1..l
    BY <1>0 DEF Court!Granted
  <2>3. live # {} <=> \E i \in 1..l : words(i)
    BY <2>1, <2>2
  <2>4. ASSUME NEW i \in 1..l
        PROVE  words(i) <=> /\ approvals'[i].intent = h /\ Court!Fresh(i, time)'
                            /\ Decided(i)' /\ Last(i)' = "approved"
    BY <1>2, <1>5
  <2> HIDE DEF words, live
  <2>5. live # {} <=> \E i \in 1..l : /\ approvals'[i].intent = h /\ Court!Fresh(i, time)'
                                      /\ Decided(i)' /\ Last(i)' = "approved"
    BY <2>3, <2>4
  <2>6. /\ answer'.intent = h /\ answer'.at = time /\ answer'.yes = (live # {})
        /\ answer'.records = l /\ answer'.rulings = Len(rulings)
    BY <1>1
  <2>7. /\ answer'.at = time' /\ answer'.rulings = Len(rulings')
    BY <2>6, <1>1
  <2>8. ASSUME NEW i \in 1..l
        PROVE  /\ Court!Fresh(i, answer.at)' <=> Court!Fresh(i, time)'
               /\ Decided(i)' <=> Court!RulingsOn(i, answer.rulings)' # {}
               /\ Last(i)' = rulings'[Court!Max(Court!RulingsOn(i, answer.rulings)')].state
    <3>1. Court!Fresh(i, answer.at)' <=> Court!Fresh(i, time)'
      BY <2>7 DEF Court!Fresh
    <3>2. Court!RulingsOn(i, answer.rulings)' = Court!RulingsOn(i, Len(rulings))'
      BY <2>7 DEF Court!RulingsOn
    <3>3. Last(i)' = rulings'[Court!Max(Court!RulingsOn(i, Len(rulings))')].state
      BY DEF Last, Court!Max
    <3> QED
      BY <3>1, <3>2, <3>3 DEF Decided
  <2>9. answer'.yes <=> \E i \in 1..answer'.records :
                          /\ approvals'[i].intent = answer'.intent /\ Court!Fresh(i, answer.at)'
                          /\ Court!RulingsOn(i, answer.rulings)' # {}
                          /\ rulings'[Court!Max(Court!RulingsOn(i, answer.rulings)')].state = "approved"
    <3>1. answer'.records = l /\ answer'.intent = h /\ answer'.yes = (live # {})
      BY <2>6
    <3>2. ASSUME NEW i \in 1..l
          PROVE  (/\ approvals'[i].intent = h /\ Court!Fresh(i, time)'
                  /\ Decided(i)' /\ Last(i)' = "approved")
                 <=>
                 (/\ approvals'[i].intent = answer'.intent /\ Court!Fresh(i, answer.at)'
                  /\ Court!RulingsOn(i, answer.rulings)' # {}
                  /\ rulings'[Court!Max(Court!RulingsOn(i, answer.rulings)')].state = "approved")
      BY <2>8, <3>1
    <3> HIDE DEF l
    <3> QED
      BY <2>5, <3>1, <3>2
  <2> QED
    BY <2>9 DEF Court!LiveMeansApproved, Court!Fresh, Court!RulingsOn, Court!Max
<1>8. /\ answer'.records \in 0..Len(approvals') /\ answer'.rulings \in 0..Len(rulings')
  BY <1>0, <1>1, <1>3
<1>9. Court!DecidedOnce'
  BY <1>1 DEF StoreInv, Court!DecidedOnce
<1>10. \A k \in 1..Len(rulings') : rulings'[k].record \in 1..Len(approvals')
  BY <1>1, <1>3 DEF StoreInv
<1>11. \A i \in 1..Len(approvals') : RecordExplained(i)'
  BY <1>3, <1>6
<1> HIDE DEF l
<1> QED
  BY <1>0, <1>1, <1>3, <1>7, <1>8, <1>9, <1>10, <1>11 DEF StoreInv

LEMMA CourtTickKeeps ==
  ASSUME StoreInv, Court!Tick
  PROVE  StoreInv'
<1>1. time' = time + 1 /\ UNCHANGED <<approvals, rulings, answer>> /\ time \in Nat
  BY DEF Court!Tick, StoreInv
<1>2. ASSUME NEW i \in 1..Len(approvals), Court!Fresh(i, time)' PROVE Court!Fresh(i, time)
  <2>1. approvals[i] \in Records
    BY ElementOfSeq DEF StoreInv
  <2>2. approvals[i].expires \in Nat \cup {Never}
    BY <2>1 DEF Records
  <2>3. approvals[i].expires = Never \/ time + 1 <= approvals[i].expires
    BY <1>1, <1>2 DEF Court!Fresh
  <2>4. approvals[i].expires # Never => time <= approvals[i].expires
    BY <2>2, <2>3, <1>1
  <2> QED
    BY <2>4 DEF Court!Fresh
<1>3. ASSUME NEW i \in 1..Len(approvals) PROVE RecordExplained(i)'
  <2>1. RecordExplained(i)
    BY DEF StoreInv
  <2>2. (Decided(i)' <=> Decided(i)) /\ Last(i)' = Last(i)
    BY <1>1 DEF Decided, Last, Court!RulingsOn, Court!Max
  <2> QED
    BY <2>1, <2>2, <1>1, <1>2 DEF RecordExplained
<1>4. Court!LiveMeansApproved'
  <2>1. Len(approvals) \in Nat /\ Len(rulings) \in Nat
    BY DEF StoreInv
  <2>2. Len(approvals') \in Nat /\ Len(approvals) <= Len(approvals')
        /\ Len(rulings') \in Nat /\ Len(rulings) <= Len(rulings')
    BY <2>1, <1>1
  <2>3. /\ \A i \in 1..Len(approvals) : /\ approvals'[i].intent = approvals[i].intent
                                        /\ approvals'[i].expires = approvals[i].expires
        /\ \A k \in 1..Len(rulings) : rulings'[k] = rulings[k]
    BY <1>1
  <2> QED
    BY <2>2, <2>3, <1>1, AnswersStand
<1>5. Court!DecidedOnce'
  BY <1>1 DEF StoreInv, Court!DecidedOnce
<1> QED
  BY <1>1, <1>3, <1>4, <1>5 DEF StoreInv

(* The mediation of one approval.                                          *)

Cast == [client : Clients, approve : BOOLEAN]
Rows == [kind : {"vote"}, client : Clients, approve : BOOLEAN, model : BOOLEAN]
        \cup [kind : {"resolved"}, outcome : {"approved", "denied"}]

\* Stances and resolutions of an audit, as functions of it.
Own(c, row) == row.kind = "vote" /\ row.client = c /\ ~row.model
Heard(c, rows) == {i \in DOMAIN rows : Own(c, rows[i])}
FirstWord(c, rows) == rows[Court!Min(Heard(c, rows))].approve
Resolutions(rows) == {i \in DOMAIN rows : rows[i].kind = "resolved"}
LastResolution(rows) == rows[Court!Max(Resolutions(rows))].outcome

Voted(c) == \E i \in 1..Len(votes) : votes[i].client = c

\* The votes are the first stances of the enrolled clients that took one, and the
\* outcome follows from them.
MediationInv ==
  /\ votes \in Seq(Cast) /\ minutes \in Seq(Rows)
  /\ policy \in Policies /\ enrolled \subseteq Clients
  /\ \A i \in 1..Len(votes) : votes[i].client \in enrolled
  /\ \A i, j \in 1..Len(votes) : votes[i].client = votes[j].client => i = j
  /\ \A i \in 1..Len(votes) : Heard(votes[i].client, minutes) # {}
  /\ \A i \in 1..Len(votes) : FirstWord(votes[i].client, minutes) = votes[i].approve
  /\ \A c \in enrolled : Heard(c, minutes) # {} => Voted(c)
  /\ Len(votes) = 0 => resolved = Never
  /\ Len(votes) # 0 => resolved = Court!Outcome(votes)
  /\ Court!DenialIsFinal

\* Another row is the first word of a client only when it is the client's own and the
\* client had said nothing before.
LEMMA FirstWordStands ==
  ASSUME NEW rows \in Seq(Rows), NEW row \in Rows, NEW c
  PROVE  LET longer == Append(rows, row)
         IN  /\ Heard(c, rows) # {} => /\ Heard(c, longer) # {}
                                       /\ FirstWord(c, longer) = FirstWord(c, rows)
             /\ Heard(c, rows) = {} /\ Own(c, row) => /\ Heard(c, longer) # {}
                                                      /\ FirstWord(c, longer) = row.approve
             /\ Heard(c, rows) = {} /\ ~Own(c, row) => Heard(c, longer) = {}
<1> DEFINE longer == Append(rows, row)
           m == Len(rows)
           H == Heard(c, rows)
           G == Heard(c, longer)
<1>0. /\ m \in Nat /\ DOMAIN rows = 1..m /\ DOMAIN longer = 1..(m + 1)
      /\ longer[m + 1] = row /\ \A i \in 1..m : longer[i] = rows[i]
  OBVIOUS
<1> HIDE DEF m, longer
<1>1. ASSUME NEW i PROVE i \in G <=> i \in H \/ (i = m + 1 /\ Own(c, row))
  <2>1. i \in 1..(m + 1) <=> i \in 1..m \/ i = m + 1
    BY <1>0
  <2>2. m + 1 \notin 1..m
    BY <1>0
  <2> QED
    BY <2>1, <2>2, <1>0 DEF Heard
<1>2. H \subseteq 1..m /\ G \subseteq Nat /\ H \subseteq Nat
  BY <1>0 DEF Heard
<1> HIDE DEF H, G
<1>3. ASSUME H # {}
      PROVE  G # {} /\ FirstWord(c, longer) = FirstWord(c, rows)
  <2> DEFINE f == Court!Min(H)
  <2>1. f \in H /\ \A i \in H : f <= i
    BY <1>2, <1>3, CourtMin
  <2> HIDE DEF f
  <2>2. f \in 1..m /\ f \in G
    BY <2>1, <1>1, <1>2
  <2>3. ASSUME NEW i \in G PROVE f <= i
    <3>1. i \in H \/ i = m + 1
      BY <1>1
    <3> QED
      BY <3>1, <2>1, <2>2, <1>0
  <2>4. Court!Min(G) = f
    BY <2>2, <2>3, <1>2, CourtMinIs
  <2>5. longer[f] = rows[f]
    BY <2>2, <1>0
  <2> QED
    BY <2>2, <2>4, <2>5 DEF FirstWord, f, G, H
<1>4. ASSUME H = {}, Own(c, row)
      PROVE  G # {} /\ FirstWord(c, longer) = row.approve
  <2> DEFINE e == m + 1
  <2>1. e \in G /\ e \in Nat /\ \A i \in G : e <= i
    BY <1>0, <1>1, <1>4
  <2> HIDE DEF e
  <2>2. Court!Min(G) = e
    BY <2>1, <1>2, CourtMinIs
  <2> QED
    BY <2>1, <2>2, <1>0 DEF FirstWord, e, G
<1>5. ASSUME H = {}, ~Own(c, row) PROVE G = {}
  BY <1>1, <1>5
<1> QED
  BY <1>3, <1>4, <1>5 DEF H, G, longer

\* One more vote, of a client that had none.
Adds(v) == v \in Cast /\ \A i \in 1..Len(votes) : votes[i].client # v.client

LEMMA SameCourtCount == \A S : Court!Cardinality(S) = Cardinality(S)
BY DEF Court!Cardinality, Cardinality

LEMMA OutcomeHolds ==
  ASSUME CourtAssumptions, MediationInv, NEW v, Adds(v)
  PROVE  LET cast == Append(votes, v)
         IN  /\ Court!Outcome(votes) # Never => Court!Outcome(cast) # Never
             /\ Court!Outcome(votes) = "denied" => Court!Outcome(cast) = "denied"
             /\ Court!Outcome(cast) \in {"approved", "denied", Never}
<1> DEFINE cast == Append(votes, v)
           n == Len(votes)
<1>0. /\ n \in Nat /\ DOMAIN votes = 1..n /\ DOMAIN cast = 1..(n + 1)
      /\ cast[n + 1] = v /\ \A i \in 1..n : cast[i] = votes[i]
  BY DEF MediationInv, Adds
<1>1. "approved" # Never /\ "denied" # Never /\ (policy.mode # "designated" => policy.min \in Nat)
  BY DEF CourtAssumptions, MediationInv
<1> HIDE DEF n, cast
<1>2. 1..n \subseteq 1..(n + 1)
  BY <1>0
<1>3. CASE policy.mode = "designated"
  <2> DEFINE o == {i \in DOMAIN votes : votes[i].client = policy.client}
             p == {i \in DOMAIN cast : cast[i].client = policy.client}
  <2>1. o # {} => p = o
    <3> SUFFICES ASSUME o # {} PROVE p = o
      OBVIOUS
    <3>1. v.client # policy.client
      BY <1>0 DEF Adds, n
    <3>2. ASSUME NEW i PROVE i \in p <=> i \in o
      <4>1. i \in 1..(n + 1) <=> i \in 1..n \/ i = n + 1
        BY <1>0
      <4> QED
        BY <4>1, <3>1, <1>0
    <3> HIDE DEF o, p
    <3> QED
      BY <3>2
  <2>2. o # {} => Court!Min(o) \in 1..n
    <3>1. o \subseteq Nat /\ o \subseteq 1..n
      BY <1>0
    <3> HIDE DEF o
    <3> QED
      BY <3>1, CourtMin
  <2>3. Court!Outcome(votes) = IF o = {} THEN Never ELSE IF votes[Court!Min(o)].approve THEN "approved" ELSE "denied"
    BY <1>3 DEF Court!Outcome
  <2>4. Court!Outcome(cast) = IF p = {} THEN Never ELSE IF cast[Court!Min(p)].approve THEN "approved" ELSE "denied"
    BY <1>3 DEF Court!Outcome
  <2> HIDE DEF o, p
  <2>5. o # {} => Court!Outcome(cast) = Court!Outcome(votes)
    BY <2>1, <2>2, <2>3, <2>4, <1>0
  <2> QED
    BY <2>3, <2>4, <2>5, <1>1 DEF cast
<1>4. CASE policy.mode # "designated"
  <2> DEFINE T(c) == Court!Votes(c, TRUE)
             F(c) == Court!Votes(c, FALSE)
  <2>1. T(votes) \subseteq T(cast) /\ F(votes) \subseteq F(cast) /\ T(cast) \subseteq 1..(n + 1)
    BY <1>0, <1>2 DEF Court!Votes
  <2>2. IsFiniteSet(1..(n + 1))
    BY <1>0, FS_Interval
  <2>3. /\ IsFiniteSet(T(cast)) /\ IsFiniteSet(T(votes))
        /\ Cardinality(T(votes)) <= Cardinality(T(cast))
    BY <2>1, <2>2, FS_Subset
  <2>4. Cardinality(T(votes)) \in Nat /\ Cardinality(T(cast)) \in Nat
    BY <2>3, FS_CardinalityType
  <2>5. \A c : Court!Outcome(c) = IF F(c) # {} THEN "denied"
                                  ELSE IF Cardinality(T(c)) >= policy.min THEN "approved" ELSE Never
    BY <1>4, SameCourtCount DEF Court!Outcome
  <2> HIDE DEF T, F
  <2>6. Cardinality(T(votes)) >= policy.min => Cardinality(T(cast)) >= policy.min
    BY <2>3, <2>4, <1>1, <1>4
  <2> QED
    BY <2>1, <2>5, <2>6, <1>1 DEF cast
<1> QED
  BY <1>3, <1>4

\* A row that resolves nothing leaves the resolutions; one that resolves is the last.
LEMMA ResolutionsOf ==
  ASSUME NEW rows \in Seq(Rows), NEW row \in Rows
  PROVE  LET longer == Append(rows, row)
         IN  /\ row.kind # "resolved" => Resolutions(longer) = Resolutions(rows)
             /\ row.kind = "resolved" => \A i : i \in Resolutions(longer) <=>
                                                  i \in Resolutions(rows) \/ i = Len(rows) + 1
             /\ Resolutions(rows) \subseteq 1..Len(rows) /\ Len(longer) = Len(rows) + 1
             /\ longer \in Seq(Rows) /\ longer[Len(rows) + 1] = row
             /\ \A i \in 1..Len(rows) : longer[i] = rows[i]
<1> DEFINE longer == Append(rows, row)
           m == Len(rows)
<1>0. /\ m \in Nat /\ DOMAIN rows = 1..m /\ DOMAIN longer = 1..(m + 1) /\ longer \in Seq(Rows)
      /\ longer[m + 1] = row /\ (\A i \in 1..m : longer[i] = rows[i]) /\ Len(longer) = m + 1
  OBVIOUS
<1> HIDE DEF m, longer
<1>1. ASSUME NEW i
      PROVE  i \in Resolutions(longer) <=>
               i \in Resolutions(rows) \/ (i = m + 1 /\ row.kind = "resolved")
  <2>1. (i \in 1..(m + 1) <=> i \in 1..m \/ i = m + 1) /\ m + 1 \notin 1..m
    BY <1>0
  <2> QED
    BY <2>1, <1>0 DEF Resolutions
<1>2. Resolutions(rows) \subseteq 1..m
  BY <1>0 DEF Resolutions
<1> QED
  BY <1>0, <1>1, <1>2 DEF m, longer

\* DenialIsFinal of an audit and an outcome.
Final(rows, outcome) ==
  /\ outcome # Never <=> Resolutions(rows) # {}
  /\ Resolutions(rows) # {} => LastResolution(rows) = outcome
  /\ \A i, j \in Resolutions(rows) :
       (i < j /\ rows[i].outcome = "denied") => rows[j].outcome = "denied"

LEMMA FinalSame ==
  ASSUME NEW rows \in Seq(Rows), NEW row \in Rows, NEW outcome,
         row.kind # "resolved", Final(rows, outcome)
  PROVE  Final(Append(rows, row), outcome)
<1> DEFINE longer == Append(rows, row)
           R == Resolutions(rows)
<1>1. /\ Resolutions(longer) = R /\ R \subseteq 1..Len(rows) /\ Len(rows) \in Nat
      /\ \A i \in 1..Len(rows) : longer[i] = rows[i]
  BY ResolutionsOf
<1> HIDE DEF longer, R
<1>2. \A i \in R : longer[i] = rows[i]
  BY <1>1
<1>3. R # {} => Court!Max(R) \in R
  BY <1>1, CourtMax
<1>4. R # {} => LastResolution(longer) = LastResolution(rows)
  BY <1>1, <1>2, <1>3 DEF LastResolution, R
<1>5. Final(longer, outcome)
  BY <1>1, <1>2, <1>4 DEF Final, R
<1> QED
  BY <1>5 DEF longer

LEMMA FinalNext ==
  ASSUME CourtAssumptions, NEW rows \in Seq(Rows), NEW before, Final(rows, before),
         NEW outcome \in {"approved", "denied"}, before = "denied" => outcome = "denied"
  PROVE  Final(Append(rows, Court!Resolved(outcome)), outcome)
<1> DEFINE row == Court!Resolved(outcome)
           longer == Append(rows, row)
           R == Resolutions(rows)
           m == Len(rows)
<1>0. row \in Rows /\ row.kind = "resolved" /\ row.outcome = outcome /\ m \in Nat
  BY DEF Rows, Court!Resolved
<1> HIDE DEF row
<1>1. /\ \A i : i \in Resolutions(longer) <=> i \in R \/ i = m + 1
      /\ R \subseteq 1..m /\ longer[m + 1] = row
      /\ \A i \in 1..m : longer[i] = rows[i]
  BY <1>0, ResolutionsOf
<1> HIDE DEF longer, R, m
<1> DEFINE e == m + 1
           Q == Resolutions(longer)
<1>2. e \in Nat /\ Q \subseteq 1..e /\ e \in Q /\ \A i \in Q : i <= e
  <2>1. ASSUME NEW i \in Q PROVE i \in 1..(m + 1)
    <3>1. i \in 1..m \/ i = m + 1
      BY <1>1
    <3> QED
      BY <3>1, <1>0
  <2> QED
    BY <2>1, <1>0, <1>1
<1> HIDE DEF Q
<1>3. Court!Max(Q) = e
  <2> HIDE DEF e
  <2> QED
    BY <1>2, CourtMaxIs
<1>4. LastResolution(longer) = outcome
  BY <1>0, <1>1, <1>3 DEF LastResolution, Q
<1>5. ASSUME NEW i \in R, rows[i].outcome = "denied" PROVE outcome = "denied"
  <2> DEFINE k == Court!Max(R)
  <2>0. k \in R /\ i <= k
    <3>1. R \subseteq 1..m /\ R # {}
      BY <1>1
    <3>2. Court!Max(R) \in R /\ \A j \in R : j <= Court!Max(R)
      BY <3>1, <1>0, CourtMax
    <3> QED
      BY <3>2
  <2>1. k \in R /\ i <= k /\ k \in Nat /\ i \in Nat
    <3> HIDE DEF k
    <3>1. \A j \in R : j \in 1..m
      BY <1>1
    <3> QED
      BY <2>0, <3>1
  <2>2. rows[k].outcome = before
    BY <2>1 DEF Final, LastResolution, R
  <2> HIDE DEF k
  <2>3. i = k \/ i < k
    BY <2>1
  <2>4. rows[k].outcome = "denied"
    BY <2>1, <2>3, <1>5 DEF Final, R
  <2> QED
    BY <2>2, <2>4
<1>6. ASSUME NEW i \in Q, NEW j \in Q, i < j, longer[i].outcome = "denied"
      PROVE  longer[j].outcome = "denied"
  <2>1. i \in R /\ i \in 1..m
    <3>1. i # m + 1
      BY <1>2, <1>6
    <3> QED
      BY <3>1, <1>1 DEF Q
  <2>2. rows[i].outcome = "denied"
    BY <2>1, <1>1, <1>6
  <2>3. CASE j = m + 1
    BY <2>1, <2>2, <2>3, <1>0, <1>1, <1>5
  <2>4. CASE j \in R
    <3>1. longer[j] = rows[j]
      BY <2>4, <1>1
    <3> QED
      BY <3>1, <2>1, <2>2, <2>4, <1>6 DEF Final, R
  <2> QED
    BY <2>3, <2>4, <1>1 DEF Q
<1>7. Final(longer, outcome)
  <2>1. outcome # Never /\ Q # {}
    BY <1>2 DEF CourtAssumptions
  <2> QED
    BY <2>1, <1>4, <1>6 DEF Final, Q
<1> QED
  BY <1>7 DEF longer, row

LEMMA SubmitKeeps ==
  ASSUME CourtAssumptions, MediationInv, NEW c \in Clients, NEW approve \in BOOLEAN,
         NEW model \in BOOLEAN, Court!SubmitVote(c, approve, model)
  PROVE  MediationInv'
<1> DEFINE n == Len(votes)
           counts == ~model /\ c \in enrolled /\ \A i \in DOMAIN votes : votes[i].client # c
           v == [client |-> c, approve |-> approve]
           cast == Append(votes, v)
           ballot == Court!Ballot(c, approve, model)
           heard == Append(minutes, ballot)
           outcome == Court!Outcome(cast)
           speaks == counts /\ outcome # Never
<1>0. /\ votes \in Seq(Cast) /\ minutes \in Seq(Rows) /\ policy \in Policies
      /\ enrolled \subseteq Clients /\ n \in Nat /\ DOMAIN votes = 1..n
  BY DEF MediationInv
<1>1. /\ votes' = IF counts THEN cast ELSE votes
      /\ resolved' = IF counts THEN outcome ELSE resolved
      /\ minutes' = IF speaks THEN Append(heard, Court!Resolved(outcome)) ELSE heard
      /\ UNCHANGED <<policy, enrolled>>
  BY DEF Court!SubmitVote
<1>2. /\ ballot \in Rows /\ ballot.kind = "vote" /\ ballot.client = c /\ ballot.approve = approve
      /\ ballot.model = model /\ v \in Cast /\ v.client = c /\ v.approve = approve
  BY DEF Court!Ballot, Rows, Cast
<1>3. counts => Adds(v)
  BY <1>0, <1>2 DEF Adds
<1>4. /\ counts /\ Court!Outcome(votes) # Never => outcome # Never
      /\ counts /\ Court!Outcome(votes) = "denied" => outcome = "denied"
      /\ counts => outcome \in {"approved", "denied", Never}
  <2> SUFFICES ASSUME counts
               PROVE  /\ Court!Outcome(votes) # Never => outcome # Never
                      /\ Court!Outcome(votes) = "denied" => outcome = "denied"
                      /\ outcome \in {"approved", "denied", Never}
    OBVIOUS
  <2>1. Adds(v)
    BY <1>3
  <2> HIDE DEF v
  <2> QED
    BY <2>1, OutcomeHolds
<1>5. /\ cast \in Seq(Cast) /\ Len(cast) = n + 1 /\ cast[n + 1] = v
      /\ \A i \in 1..n : cast[i] = votes[i]
  BY <1>0, <1>2
<1> HIDE DEF ballot, v
<1>6. heard \in Seq(Rows)
  BY <1>0, <1>2
<1>7. speaks => Court!Resolved(outcome) \in Rows /\ Court!Resolved(outcome).kind = "resolved"
  <2> SUFFICES ASSUME speaks
               PROVE  Court!Resolved(outcome) \in Rows /\ Court!Resolved(outcome).kind = "resolved"
    OBVIOUS
  <2>1. outcome \in {"approved", "denied"}
    BY <1>4
  <2> HIDE DEF outcome
  <2> QED
    BY <2>1 DEF Court!Resolved, Rows
<1> HIDE DEF cast, outcome
<1>8. votes' \in Seq(Cast) /\ minutes' \in Seq(Rows)
  <2>1. minutes' \in Seq(Rows)
    <3>1. CASE speaks
      BY <3>1, <1>1, <1>6, <1>7
    <3>2. CASE ~speaks
      BY <3>2, <1>1, <1>6
    <3> QED
      BY <3>1, <3>2
  <2> QED
    BY <2>1, <1>0, <1>1, <1>5
\* What the first stances become.
<1>9. ASSUME NEW d
      PROVE  /\ Heard(d, minutes) # {} => /\ Heard(d, minutes') # {}
                                          /\ FirstWord(d, minutes') = FirstWord(d, minutes)
             /\ Heard(d, minutes) = {} /\ d = c /\ ~model =>
                  Heard(d, minutes') # {} /\ FirstWord(d, minutes') = approve
             /\ Heard(d, minutes) = {} /\ ~(d = c /\ ~model) => Heard(d, minutes') = {}
  <2>0. Own(d, ballot) <=> (d = c /\ ~model)
    BY <1>2 DEF Own
  <2>1. /\ Heard(d, minutes) # {} => /\ Heard(d, heard) # {}
                                     /\ FirstWord(d, heard) = FirstWord(d, minutes)
        /\ Heard(d, minutes) = {} /\ d = c /\ ~model =>
             Heard(d, heard) # {} /\ FirstWord(d, heard) = approve
        /\ Heard(d, minutes) = {} /\ ~(d = c /\ ~model) => Heard(d, heard) = {}
    BY <2>0, <1>0, <1>2, FirstWordStands
  <2> HIDE DEF heard
  <2>2. CASE ~speaks
    BY <2>1, <2>2, <1>1
  <2>3. CASE speaks
    <3> DEFINE row == Court!Resolved(outcome)
    <3>1. row \in Rows /\ ~Own(d, row) /\ minutes' = Append(heard, row)
      BY <2>3, <1>1, <1>7 DEF Own
    <3> HIDE DEF row
    <3>2. /\ Heard(d, heard) # {} => /\ Heard(d, minutes') # {}
                                     /\ FirstWord(d, minutes') = FirstWord(d, heard)
          /\ Heard(d, heard) = {} => Heard(d, minutes') = {}
      BY <3>1, <1>6, FirstWordStands
    <3> QED
      BY <3>2, <2>1
  <2> QED
    BY <2>2, <2>3
<1> HIDE DEF heard
\* A client that counts had no stance: it is enrolled and has no vote.
<1>10. counts => Heard(c, minutes) = {} /\ c \in enrolled /\ ~model
  BY <1>0 DEF MediationInv, Voted
<1>11. Len(votes') = IF counts THEN n + 1 ELSE n
  BY <1>1, <1>5
<1>12. ASSUME NEW i \in 1..Len(votes')
       PROVE  /\ votes'[i].client \in enrolled'
              /\ Heard(votes'[i].client, minutes') # {}
              /\ FirstWord(votes'[i].client, minutes') = votes'[i].approve
  <2>1. CASE i \in 1..n
    <3>1. votes'[i] = votes[i]
      BY <2>1, <1>1, <1>5
    <3>2. /\ votes[i].client \in enrolled /\ Heard(votes[i].client, minutes) # {}
          /\ FirstWord(votes[i].client, minutes) = votes[i].approve
      BY <2>1 DEF MediationInv
    <3> QED
      BY <3>1, <3>2, <1>1, <1>9
  <2>2. CASE i \notin 1..n
    <3>1. counts /\ i = n + 1
      BY <2>2, <1>0, <1>11
    <3>2. votes'[i] = v
      BY <3>1, <1>1, <1>5
    <3>3. Heard(c, minutes') # {} /\ FirstWord(c, minutes') = approve
      BY <3>1, <1>9, <1>10
    <3> QED
      BY <3>1, <3>2, <3>3, <1>1, <1>2, <1>10
  <2> QED
    BY <2>1, <2>2
<1>13. ASSUME NEW i \in 1..Len(votes'), NEW j \in 1..Len(votes'),
              votes'[i].client = votes'[j].client
       PROVE  i = j
  <2>1. ASSUME NEW k \in 1..Len(votes')
        PROVE  (k \in 1..n /\ votes'[k] = votes[k]) \/ (counts /\ k = n + 1 /\ votes'[k].client = c)
    <3>1. CASE k \in 1..n
      BY <3>1, <1>1, <1>5
    <3>2. CASE k \notin 1..n
      <4>1. counts /\ k = n + 1
        BY <3>2, <1>0, <1>11
      <4> QED
        BY <4>1, <1>1, <1>2, <1>5
    <3> QED
      BY <3>1, <3>2
  <2>2. counts => \A k \in 1..n : votes[k].client # c
    BY <1>0
  <2>3. \A k, l \in 1..n : votes[k].client = votes[l].client => k = l
    BY DEF MediationInv
  <2> QED
    BY <2>1, <2>2, <2>3, <1>13
<1>14. ASSUME NEW d \in enrolled', Heard(d, minutes') # {} PROVE Voted(d)'
  <2> SUFFICES \E i \in 1..Len(votes') : votes'[i].client = d
    BY DEF Voted
  <2>1. ASSUME NEW i \in 1..n PROVE i \in 1..Len(votes') /\ votes'[i] = votes[i]
    BY <1>0, <1>1, <1>5, <1>11
  <2>2. CASE Heard(d, minutes) # {}
    <3>1. \E i \in 1..n : votes[i].client = d
      BY <2>2, <1>1 DEF MediationInv, Voted
    <3> QED
      BY <3>1, <2>1
  <2>3. CASE Heard(d, minutes) = {}
    <3>1. d = c /\ ~model
      BY <2>3, <1>9, <1>14
    <3>2. CASE counts
      <4>1. n + 1 \in 1..Len(votes') /\ votes'[n + 1].client = d
        BY <3>1, <3>2, <1>0, <1>1, <1>2, <1>5, <1>11
      <4> QED
        BY <4>1
    <3>3. CASE ~counts
      <4>1. \E i \in 1..n : votes[i].client = c
        BY <3>1, <3>3, <1>0, <1>1
      <4> QED
        BY <4>1, <3>1, <2>1
    <3> QED
      BY <3>2, <3>3
  <2> QED
    BY <2>2, <2>3
<1>15. /\ Len(votes') = 0 => resolved' = Never
       /\ Len(votes') # 0 => resolved' = Court!Outcome(votes)'
  <2>1. CASE counts
    <3>1. Court!Outcome(votes)' = outcome
      BY <2>1, <1>1 DEF Court!Outcome, Court!Votes, Court!Min, outcome
    <3> QED
      BY <3>1, <2>1, <1>0, <1>1, <1>11
  <2>2. CASE ~counts
    <3>1. Court!Outcome(votes)' = Court!Outcome(votes)
      BY <2>2, <1>1 DEF Court!Outcome, Court!Votes, Court!Min
    <3>2. votes' = votes /\ resolved' = resolved
      BY <2>2, <1>1
    <3> QED
      BY <3>1, <3>2 DEF MediationInv
  <2> QED
    BY <2>1, <2>2
<1>16. Final(minutes, resolved)
  BY DEF MediationInv, Court!DenialIsFinal, Final, Resolutions, LastResolution
<1>17. Final(heard, resolved)
  BY <1>0, <1>2, <1>16, FinalSame DEF heard
<1>18. counts => /\ resolved # Never => outcome # Never
                 /\ resolved = "denied" => outcome = "denied"
                 /\ outcome \in {"approved", "denied", Never}
  <2>1. n = 0 => resolved = Never
    BY DEF MediationInv
  <2>2. n # 0 => resolved = Court!Outcome(votes)
    BY DEF MediationInv
  <2> QED
    BY <2>1, <2>2, <1>4 DEF CourtAssumptions
<1>19. Final(minutes', resolved')
  <2>1. CASE speaks
    <3>1. outcome \in {"approved", "denied"} /\ (resolved = "denied" => outcome = "denied")
      BY <2>1, <1>18
    <3>2. minutes' = Append(heard, Court!Resolved(outcome)) /\ resolved' = outcome
      BY <2>1, <1>1
    <3> QED
      BY <3>1, <3>2, <1>6, <1>17, FinalNext
  <2>2. CASE ~speaks
    <3>1. resolved' = resolved
      BY <2>2, <1>1, <1>18
    <3>2. minutes' = heard
      BY <2>2, <1>1
    <3> QED
      BY <3>1, <3>2, <1>17
  <2> QED
    BY <2>1, <2>2
<1>20. Court!DenialIsFinal'
  BY <1>19 DEF Court!DenialIsFinal, Final, Resolutions, LastResolution, Court!Max
<1> QED
  BY <1>0, <1>1, <1>8, <1>12, <1>13, <1>14, <1>15, <1>20
  DEF MediationInv, Heard, FirstWord, Voted, Own, Court!Min

\* The votes, counted, are the clients that said so.
Sayers(b) == {d \in enrolled : Heard(d, minutes) # {} /\ FirstWord(d, minutes) = b}

LEMMA VotesAreStances ==
  ASSUME MediationInv, NEW b \in BOOLEAN
  PROVE  /\ \A d : d \in Sayers(b) <=> \E i \in Court!Votes(votes, b) : votes[i].client = d
         /\ Sayers(b) = {} <=> Court!Votes(votes, b) = {}
         /\ Court!Cardinality(Sayers(b)) = Court!Cardinality(Court!Votes(votes, b))
         /\ Court!Cardinality(Court!Votes(votes, b)) \in Nat
<1> DEFINE V == Court!Votes(votes, b)
           n == Len(votes)
<1>0. n \in Nat /\ DOMAIN votes = 1..n /\ votes \in Seq(Cast)
  BY DEF MediationInv
<1>1. V = {i \in 1..n : votes[i].approve = b}
  BY <1>0 DEF Court!Votes
<1>2. ASSUME NEW d PROVE d \in Sayers(b) <=> \E i \in V : votes[i].client = d
  <2>1. ASSUME NEW i \in V, votes[i].client = d PROVE d \in Sayers(b)
    <3>1. i \in 1..n /\ votes[i].approve = b
      BY <1>1
    <3> QED
      BY <3>1, <2>1 DEF MediationInv, Sayers
  <2>2. ASSUME d \in Sayers(b) PROVE \E i \in V : votes[i].client = d
    <3>1. d \in enrolled /\ Heard(d, minutes) # {} /\ FirstWord(d, minutes) = b
      BY <2>2 DEF Sayers
    <3>2. PICK i \in 1..n : votes[i].client = d
      BY <3>1 DEF MediationInv, Voted
    <3>3. votes[i].approve = b
      BY <3>1, <3>2 DEF MediationInv
    <3> QED
      BY <3>2, <3>3, <1>1
  <2> QED
    BY <2>1, <2>2
<1>3. IsFiniteSet(V) /\ Cardinality(V) \in Nat
  <2>1. V \subseteq 1..n /\ IsFiniteSet(1..n)
    BY <1>0, <1>1, FS_Interval
  <2> HIDE DEF V
  <2>2. IsFiniteSet(V)
    BY <2>1, FS_Subset
  <2> QED
    BY <2>2, FS_CardinalityType
<1>4. \A i, j \in V : votes[i].client = votes[j].client => i = j
  BY <1>1 DEF MediationInv
<1> HIDE DEF V
<1> DEFINE f == [i \in V |-> votes[i].client]
<1>5. f \in Bijection(V, Sayers(b))
  BY <1>2, <1>4 DEF Bijection, Injection, Surjection, IsInjective
<1>6. ExistsBijection(V, Sayers(b))
  BY <1>5 DEF ExistsBijection
<1>7. Cardinality(Sayers(b)) = Cardinality(V)
  BY <1>3, <1>6, FS_Bijection
<1> QED
  BY <1>2, <1>3, <1>7, SameCourtCount DEF V

LEMMA OutcomeExplained ==
  ASSUME CourtAssumptions, MediationInv
  PROVE  Court!AuditExplainsOutcome
<1> DEFINE n == Len(votes)
           yes == Court!Votes(votes, TRUE)
           no == Court!Votes(votes, FALSE)
<1>0. n \in Nat /\ DOMAIN votes = 1..n /\ votes \in Seq(Cast)
  BY DEF MediationInv
<1>1. Court!Said(TRUE) = Sayers(TRUE) /\ Court!Said(FALSE) = Sayers(FALSE)
  BY DEF Court!Said, Court!Stances, Sayers, Heard, FirstWord, Own
<1>2. ASSUME NEW i \in 1..n PROVE votes[i] \in Cast /\ votes[i].approve \in BOOLEAN
  <2>1. votes[i] \in Cast
    BY <1>0, ElementOfSeq
  <2> QED
    BY <2>1 DEF Cast
<1>3. (n = 0 => resolved = Never) /\ (n # 0 => resolved = Court!Outcome(votes))
  BY DEF MediationInv
<1>4. /\ \A d : d \in Sayers(TRUE) <=> \E i \in yes : votes[i].client = d
      /\ \A d : d \in Sayers(FALSE) <=> \E i \in no : votes[i].client = d
      /\ Sayers(TRUE) = {} <=> yes = {}
      /\ Sayers(FALSE) = {} <=> no = {}
      /\ Court!Cardinality(Sayers(TRUE)) = Court!Cardinality(yes)
      /\ Court!Cardinality(yes) \in Nat
  BY VotesAreStances
<1>5. /\ yes = {i \in 1..n : votes[i].approve = TRUE}
      /\ no = {i \in 1..n : votes[i].approve = FALSE}
  BY <1>0 DEF Court!Votes
<1>6. CASE policy.mode = "designated"
  <2> DEFINE o == {i \in DOMAIN votes : votes[i].client = policy.client}
  <2>1. o \subseteq Nat /\ o \subseteq 1..n
    BY <1>0
  <2>2. Court!Outcome(votes) = IF o = {} THEN Never ELSE IF votes[Court!Min(o)].approve THEN "approved" ELSE "denied"
    BY <1>6 DEF Court!Outcome
  <2> HIDE DEF yes, no
  <2>3. CASE o = {}
    <3>1. resolved = Never
      BY <2>2, <2>3, <1>3
    <3>2. policy.client \notin Sayers(TRUE) /\ policy.client \notin Sayers(FALSE)
      <4>1. \A i \in 1..n : votes[i].client # policy.client
        BY <2>3, <1>0
      <4> QED
        BY <4>1, <1>4, <1>5
    <3> QED
      BY <3>1, <3>2, <1>1, <1>6 DEF Court!AuditExplainsOutcome
  <2>4. CASE o # {}
    <3> DEFINE k == Court!Min(o)
    <3>1. k \in o
      <4> HIDE DEF o
      <4> QED
        BY <2>1, <2>4, CourtMin
    <3>2. resolved = IF votes[k].approve THEN "approved" ELSE "denied"
      <4>1. n # 0
        BY <3>1, <2>1, <1>0
      <4> QED
        BY <4>1, <2>2, <2>4, <1>3
    <3> HIDE DEF k
    <3>3. k \in 1..n /\ votes[k].client = policy.client
      BY <3>1, <1>0
    <3>4. ASSUME NEW i \in 1..n, votes[i].client = policy.client PROVE i = k
      BY <3>3, <3>4 DEF MediationInv
    <3>5. policy.client \in Sayers(TRUE) <=> votes[k].approve = TRUE
      BY <3>3, <3>4, <1>4, <1>5
    <3>6. policy.client \in Sayers(FALSE) <=> votes[k].approve = FALSE
      BY <3>3, <3>4, <1>4, <1>5
    <3>7. votes[k].approve \in BOOLEAN
      BY <3>3, <1>2
    <3> QED
      BY <3>2, <3>5, <3>6, <3>7, <1>1, <1>6 DEF Court!AuditExplainsOutcome
  <2> QED
    BY <2>3, <2>4
<1>7. CASE policy.mode # "designated"
  <2>1. policy.min \in Nat
    BY <1>7 DEF CourtAssumptions, MediationInv
  <2>2. Court!Outcome(votes) = IF no # {} THEN "denied"
                               ELSE IF Court!Cardinality(yes) >= policy.min THEN "approved" ELSE Never
    BY <1>7 DEF Court!Outcome
  <2>3. n # 0 => yes # {} \/ no # {}
    <3> SUFFICES ASSUME n # 0 PROVE yes # {} \/ no # {}
      OBVIOUS
    <3>1. 1 \in 1..n
      BY <1>0
    <3>2. votes[1].approve = TRUE \/ votes[1].approve = FALSE
      BY <3>1, <1>2
    <3> QED
      BY <3>1, <3>2, <1>5
  <2>4. n = 0 => yes = {} /\ no = {}
    <3> SUFFICES ASSUME n = 0 PROVE yes = {} /\ no = {}
      OBVIOUS
    <3>1. 1..n = {}
      BY <1>0
    <3> QED
      BY <3>1, <1>5
  <2> HIDE DEF yes, no
  <2>5. resolved = IF no # {} THEN "denied"
                   ELSE IF yes # {} /\ Court!Cardinality(yes) >= policy.min THEN "approved"
                   ELSE Never
    BY <2>2, <2>3, <2>4, <1>3
  <2> QED
    BY <2>5, <1>1, <1>4, <1>7 DEF Court!AuditExplainsOutcome
<1> QED
  BY <1>6, <1>7

LEMMA MediationInit ==
  ASSUME CourtAssumptions, Court!Init PROVE MediationInv
<1>0. /\ votes = <<>> /\ minutes = <<>> /\ resolved = Never /\ policy \in Policies
      /\ enrolled \subseteq Clients
  BY DEF Court!Init
<1>1. DOMAIN <<>> = {} /\ Len(<<>>) = 0 /\ \A S : <<>> \in Seq(S)
  OBVIOUS
<1>2. \A d : Heard(d, minutes) = {}
  BY <1>0, <1>1 DEF Heard
<1>3. Court!DenialIsFinal
  BY <1>0, <1>1 DEF Court!DenialIsFinal
<1> QED
  BY <1>0, <1>1, <1>2, <1>3 DEF MediationInv

\* Neither half looks at the other: the store's calls and the votes share no state.
LEMMA CourtStep ==
  ASSUME CourtAssumptions, StoreInv, MediationInv, [Court!Next]_Court!courtVars
  PROVE  StoreInv' /\ MediationInv'
<1>1. ASSUME UNCHANGED <<policy, enrolled, votes, resolved, minutes>> PROVE MediationInv'
  <2>1. Court!DenialIsFinal' <=> Court!DenialIsFinal
    BY <1>1 DEF Court!DenialIsFinal, Court!Max
  <2>2. Court!Outcome(votes)' = Court!Outcome(votes)
    BY <1>1 DEF Court!Outcome, Court!Votes, Court!Min
  <2>3. \A d : Voted(d)' <=> Voted(d)
    BY <1>1 DEF Voted
  <2>4. ASSUME NEW i \in 1..Len(votes)
        PROVE  /\ (Heard(votes[i].client, minutes) # {})'
               /\ (FirstWord(votes[i].client, minutes) = votes[i].approve)'
    <3>1. Heard(votes[i].client, minutes) # {} /\ FirstWord(votes[i].client, minutes) = votes[i].approve
      BY DEF MediationInv
    <3> QED
      BY <3>1, <1>1 DEF FirstWord, Heard, Own, Court!Min
  <2>5. ASSUME NEW d \in enrolled, Heard(d, minutes)' # {} PROVE Voted(d)'
    <3>1. Heard(d, minutes) # {}
      BY <2>5, <1>1 DEF Heard, Own
    <3> QED
      BY <3>1, <2>3 DEF MediationInv
  <2> QED
    BY <2>1, <2>2, <2>4, <2>5, <1>1 DEF MediationInv
<1>2. ASSUME UNCHANGED <<approvals, time, rulings, answer>> PROVE StoreInv'
  <2>1. Court!DecidedOnce' <=> Court!DecidedOnce
    BY <1>2 DEF Court!DecidedOnce
  <2>2. Court!LiveMeansApproved' <=> Court!LiveMeansApproved
    BY <1>2 DEF Court!LiveMeansApproved, Court!RulingsOn, Court!Fresh, Court!Max
  <2>3. ASSUME NEW i \in 1..Len(approvals) PROVE RecordExplained(i)'
    <3>1. RecordExplained(i)
      BY DEF StoreInv
    <3> QED
      BY <3>1, <1>2 DEF RecordExplained, Decided, Last, Court!RulingsOn, Court!Fresh, Court!Max
  <2> QED
    BY <2>1, <2>2, <2>3, <1>2 DEF StoreInv
<1>3. ASSUME NEW id \in Ids, NEW h \in Intents, NEW x \in (0..MaxTime) \cup {Never},
             Court!Request(id, h, x)
      PROVE  StoreInv' /\ MediationInv'
  <2>1. x \in Nat \cup {Never}
    BY DEF CourtAssumptions
  <2> QED
    BY <2>1, <1>1, <1>3, RequestKeeps DEF Court!Request, Court!Mediation
<1>4. ASSUME NEW id \in Ids, NEW state \in Verdicts, Court!Resolve(id, state)
      PROVE  StoreInv' /\ MediationInv'
  BY <1>1, <1>4, ResolveKeeps DEF Court!Resolve, Court!Mediation
<1>5. ASSUME NEW h \in Intents, Court!HasLiveApproval(h) PROVE StoreInv' /\ MediationInv'
  BY <1>1, <1>5, LookupKeeps DEF Court!HasLiveApproval, Court!Mediation
<1>6. ASSUME Court!Tick PROVE StoreInv' /\ MediationInv'
  BY <1>1, <1>6, CourtTickKeeps DEF Court!Tick, Court!Mediation
<1>7. ASSUME NEW c \in Clients, NEW approve \in BOOLEAN, NEW model \in BOOLEAN,
             Court!SubmitVote(c, approve, model)
      PROVE  StoreInv' /\ MediationInv'
  BY <1>2, <1>7, SubmitKeeps DEF Court!SubmitVote, Court!Store
<1>8. CASE UNCHANGED Court!courtVars
  BY <1>1, <1>2, <1>8 DEF Court!courtVars
<1> QED
  BY <1>3, <1>4, <1>5, <1>6, <1>7, <1>8 DEF Court!Next, Verdicts

\* ApprovalStore and ApprovalMediation, for every host that calls them: an effect is
\* live just when the last word on a request for its very intent is an approval that
\* has not expired; a request is decided once; and the outcome of a mediation is what
\* the first stances of the enrolled clients in the audit give, a denial for good.
THEOREM CourtIsSound ==
  ASSUME CourtAssumptions PROVE Court!CourtSpec => []Court!CourtSound
<1>1. Court!Init => StoreInv /\ MediationInv
  BY CourtInit, MediationInit
<1>2. StoreInv /\ MediationInv /\ [Court!Next]_Court!courtVars => StoreInv' /\ MediationInv'
  BY CourtStep
<1>3. StoreInv /\ MediationInv => Court!CourtSound
  BY OutcomeExplained DEF Court!CourtSound, StoreInv, MediationInv
<1> QED
  BY <1>1, <1>2, <1>3, PTL DEF Court!CourtSpec

-----------------------------------------------------------------------------
(***************************************************************************)
(* The guest of a task.  That a request runs at most once is tied to what  *)
(* is known of it at every moment: the thread that works on it, the answer *)
(* last computed, and for a write lost with its guest the file there was   *)
(* in the checkpoint.                                                      *)
(***************************************************************************)
CONSTANTS Chans, MaxGen, CacheCap, BootSteps, MaxVms, Absent

VARIABLES vmm, ctl, vms, signed, gen, cache, thread, proc, file, saved, host, sent, fate,
          ans, ran, twice, rec

Guest == INSTANCE GuestSandbox

Requests == [op : {"write", "exec"}, gen : 0..MaxGen]

\* Absent is neither a request nor an answer, and the boot of a VMM takes a call.
GuestAssumptions ==
  /\ Absent \notin Ids \cup Requests \cup {"not run", "done", "wrong"}
  /\ BootSteps \in Nat \ {0}

\* The places of a thread before its request has run, and while its process does.
Before == {"advance", "sweep", "kill", "gate", "run"}
During == {"spawned", "wait", "late"}

IsProc(p) ==
  /\ p \in [st : {"none", "running", "ended"}, reg : BOOLEAN, fenced : BOOLEAN,
            by : {"none", "self", "fence"}]
  /\ p.by = "fence" => p.fenced

ProcsOK == DOMAIN proc = Chans /\ \A c \in Chans : IsProc(proc[c])

\* A thread works on a request that was sent and is not lost.
ThreadOK(c) ==
  /\ thread[c] = [at |-> thread[c].at, id |-> thread[c].id]
  /\ thread[c].id # Absent =>
       /\ thread[c].id \in Ids /\ thread[c].at \in Before \cup During
       /\ sent[thread[c].id] # Absent /\ fate[thread[c].id] # "lost"
       /\ thread[c].at \in During => sent[thread[c].id].op = "exec"
  /\ thread[c].id = Absent => thread[c] = Guest!Idle /\ host[c] # "waiting"

ThreadsOK == DOMAIN thread = Chans /\ DOMAIN host = Chans /\ \A c \in Chans : ThreadOK(c)

\* What a request that was sent once has run, by who works on it and what was answered.
OnceOK(i) ==
  /\ ran[i] \in {0, 1}
  /\ \A c \in Chans : thread[c].id = i => ran[i] = IF thread[c].at \in During THEN 1 ELSE 0
  /\ \A c, d \in Chans : thread[c].id = i /\ thread[d].id = i => c = d
  /\ (\A c \in Chans : thread[c].id # i) /\ fate[i] # "lost" /\ ans[i] \in {Absent, "not run"} =>
       ran[i] = 0

RequestOK(i) ==
  /\ ran[i] \in Int /\ ans[i] # "wrong"
  /\ sent[i] \in Requests \cup {Absent}
  /\ sent[i] = Absent => ans[i] = Absent /\ fate[i] = "open" /\ ran[i] = 0
  /\ i \notin twice => OnceOK(i)

\* A write that has run left a file, in the guest there is or in the checkpoint.
WroteOK(i) ==
  sent[i] # Absent /\ ran[i] # 0 /\ sent[i].op = "write" =>
    IF ctl = Guest!Held THEN file # Absent ELSE saved # Absent

RequestsOK ==
  /\ DOMAIN ran = Ids /\ DOMAIN ans = Ids /\ DOMAIN sent = Ids /\ DOMAIN fate = Ids
  /\ \A i \in Ids : RequestOK(i)

WritesOK == \A i \in Ids : WroteOK(i)

Recovering == rec.at \in {"read", "write", "verify"}

\* Recovery is of a lost write, and writes what has not run.
RecoveryOK ==
  /\ rec = [at |-> rec.at, id |-> rec.id]
  /\ Recovering => /\ rec.id \in Ids /\ fate[rec.id] = "lost"
                   /\ sent[rec.id] # Absent /\ sent[rec.id].op = "write"
  /\ rec.at = "write" /\ rec.id \notin twice => ran[rec.id] = 0

MachineOK ==
  /\ ctl \in Nat
  /\ vmm => ctl # Guest!NoVm
  /\ ctl = Guest!Held => vmm
  /\ ctl # Guest!Held => ~Recovering /\ \A c \in Chans : thread[c].id = Absent
  /\ ctl = Guest!Held /\ saved # Absent => file # Absent

GuestInv == ProcsOK /\ ThreadsOK /\ RequestsOK /\ WritesOK /\ RecoveryOK /\ MachineOK

LEMMA GuestStart == ASSUME GuestAssumptions, Guest!GuestInit PROVE GuestInv
<1>1. Guest!Held \in Nat /\ Guest!Held > 1 /\ Guest!NoVm = 0 /\ Guest!Held # 0
  <2>1. BootSteps \in Nat \ {0}
    BY Zenon DEF GuestAssumptions
  <2> QED
    BY <2>1 DEF Guest!Held, Guest!NoVm
<1>2. /\ proc = [c \in Chans |-> Guest!Nil] /\ thread = [c \in Chans |-> Guest!Idle]
      /\ host = [c \in Chans |-> "at rest"] /\ rec = Guest!Quiet /\ ctl = 0 /\ ~vmm
  BY DEF Guest!GuestInit, Guest!NoVm
<1>3. IsProc(Guest!Nil)
  BY DEF IsProc, Guest!Nil
<1>4. ProcsOK
  BY <1>2, <1>3 DEF ProcsOK
<1>5. ThreadsOK
  BY <1>2 DEF ThreadsOK, ThreadOK, Guest!Idle
<1>6. /\ sent = [i \in Ids |-> Absent] /\ fate = [i \in Ids |-> "open"]
      /\ ans = [i \in Ids |-> Absent] /\ ran = [i \in Ids |-> 0]
  BY DEF Guest!GuestInit
<1>7. RequestsOK /\ WritesOK
  <2>1. \A c \in Chans : thread[c].id = Absent
    BY <1>2 DEF Guest!Idle
  <2>2. ASSUME NEW i \in Ids PROVE RequestOK(i) /\ WroteOK(i)
    <3>1. Absent \notin Ids /\ Absent # "wrong"
      BY DEF GuestAssumptions
    <3>2. ran[i] = 0 /\ ans[i] = Absent /\ sent[i] = Absent /\ fate[i] = "open"
      BY <1>6
    <3>3. \A c \in Chans : thread[c].id # i
      BY <2>1, <3>1
    <3> QED
      BY <3>1, <3>2, <3>3 DEF RequestOK, OnceOK, WroteOK
  <2> QED
    BY <2>2, <1>6 DEF RequestsOK, WritesOK
<1>8. RecoveryOK
  BY <1>2 DEF RecoveryOK, Recovering, Guest!Quiet
<1>9. MachineOK
  <2>1. ctl # Guest!Held
    BY <1>1, <1>2
  <2>2. ~Recovering /\ \A c \in Chans : thread[c].id = Absent
    BY <1>2 DEF Recovering, Guest!Quiet, Guest!Idle
  <2> QED
    BY <2>1, <2>2, <1>1, <1>2 DEF MachineOK
<1> QED
  BY <1>4, <1>5, <1>7, <1>8, <1>9 DEF GuestInv

\* What the guest writes into an entry of its process table.
LEMMA Entries ==
  ASSUME NEW p, IsProc(p)
  PROVE  /\ IsProc([p EXCEPT !.reg = TRUE]) /\ IsProc([p EXCEPT !.fenced = TRUE])
         /\ IsProc([p EXCEPT !.st = "ended", !.by = "self"])
         /\ p.fenced => IsProc([p EXCEPT !.st = "ended", !.by = "fence"])
<1>1. IsProc([p EXCEPT !.reg = TRUE])
  BY DEF IsProc
<1>2. IsProc([p EXCEPT !.fenced = TRUE])
  BY DEF IsProc
<1>3. IsProc([p EXCEPT !.st = "ended", !.by = "self"])
  BY DEF IsProc
<1>4. p.fenced => IsProc([p EXCEPT !.st = "ended", !.by = "fence"])
  BY DEF IsProc
<1> QED
  BY <1>1, <1>2, <1>3, <1>4

\* A process that the fence killed was marked before.
LEMMA ProcsStep == ASSUME GuestInv, Guest!GuestNext PROVE ProcsOK'
<1>1. ProcsOK /\ IsProc(Guest!Nil)
  BY DEF GuestInv, IsProc, Guest!Nil
<1>2. ASSUME NEW c \in Chans, NEW x, IsProc(x), proc' = [proc EXCEPT ![c] = x] PROVE ProcsOK'
  BY <1>2, <1>1 DEF ProcsOK
<1>3. ASSUME UNCHANGED proc PROVE ProcsOK'
  BY <1>3, <1>1 DEF ProcsOK, IsProc
<1>4. ASSUME proc' = [c \in Chans |-> Guest!Nil] PROVE ProcsOK'
  BY <1>4, <1>1 DEF ProcsOK
<1>5. ASSUME NEW c \in Chans, Guest!Sweep(c) PROVE ProcsOK'
  <2>1. proc' = [d \in Chans |-> IF d \in Guest!Older(c) THEN [proc[d] EXCEPT !.fenced = TRUE]
                                 ELSE proc[d]]
    BY <1>5 DEF Guest!Sweep
  <2>2. ASSUME NEW d \in Chans PROVE IsProc([proc[d] EXCEPT !.fenced = TRUE])
    <3>1. IsProc(proc[d])
      BY <1>1 DEF ProcsOK
    <3> QED
      BY <3>1, Entries
  <2> QED
    BY <2>1, <2>2, <1>1 DEF ProcsOK
<1>6. ASSUME NEW c \in Chans, Guest!SweepKill(c) PROVE ProcsOK'
  <2>1. proc' = [d \in Chans |-> IF d \in Guest!Older(c) /\ proc[d].fenced /\ proc[d].st = "running"
                                 THEN [proc[d] EXCEPT !.st = "ended", !.by = "fence"] ELSE proc[d]]
    BY <1>6 DEF Guest!SweepKill
  <2>2. ASSUME NEW d \in Chans, proc[d].fenced
        PROVE  IsProc([proc[d] EXCEPT !.st = "ended", !.by = "fence"])
    <3>1. IsProc(proc[d])
      BY <1>1 DEF ProcsOK
    <3> QED
      BY <3>1, <2>2, Entries
  <2> QED
    BY <2>1, <2>2, <1>1 DEF ProcsOK
<1>7. ASSUME NEW c \in Chans, Guest!Enter(c) \/ Guest!ChildEnds(c) PROVE ProcsOK'
  <2>1. IsProc(proc[c])
    BY <1>1 DEF ProcsOK
  <2>2. IsProc([proc[c] EXCEPT !.reg = TRUE]) /\ IsProc([proc[c] EXCEPT !.st = "ended", !.by = "self"])
    BY <2>1, Entries
  <2> QED
    BY <1>7, <1>2, <2>2 DEF Guest!Enter, Guest!ChildEnds
<1>8. ASSUME NEW c \in Chans, Guest!ProcExec(c) \/ Guest!Poll(c) \/ Guest!TimedOut(c) PROVE ProcsOK'
  <2>2. IsProc([Guest!Nil EXCEPT !.st = "running"])
    BY DEF IsProc, Guest!Nil
  <2> QED
    BY <1>8, <1>2, <1>1, <2>2 DEF Guest!ProcExec, Guest!Poll, Guest!TimedOut
<1>9. ASSUME NEW c \in Chans,
             \/ Guest!GiveUp(c) \/ Guest!AdvanceGeneration(c) \/ (\E live \in BOOLEAN : Guest!Gate(c, live))
             \/ Guest!Denied(c) \/ Guest!FsWrite(c) \/ Guest!Late(c)
             \/ \E i \in Ids : Guest!Replay(c, i) \/ \E op \in {"write", "exec"}, g \in 0..MaxGen : Guest!Call(c, i, op, g)
      PROVE  ProcsOK'
  BY <1>9, <1>3 DEF Guest!GiveUp, Guest!AdvanceGeneration, Guest!Gate, Guest!Denied, Guest!FsWrite,
                    Guest!Late, Guest!Replay, Guest!Call, Guest!agent
<1>10. ASSUME \/ Guest!Spawn \/ Guest!BootStep \/ Guest!BootFails \/ Guest!Gone \/ Guest!Checkpoint
              \/ (\E i \in Ids : Guest!Reconcile(i)) \/ Guest!ReadBack \/ Guest!WriteBack \/ Guest!Verify
       PROVE  ProcsOK'
  BY <1>10, <1>3, <1>4 DEF Guest!Spawn, Guest!BootStep, Guest!BootFails, Guest!Gone, Guest!Checkpoint,
                           Guest!Reconcile, Guest!ReadBack, Guest!WriteBack, Guest!Verify, Guest!agent
<1> QED
  BY <1>5, <1>6, <1>7, <1>8, <1>9, <1>10 DEF Guest!GuestNext

WorkOK == ThreadsOK /\ RequestsOK /\ WritesOK /\ RecoveryOK /\ MachineOK

LEMMA GuestNumbers ==
  ASSUME GuestAssumptions
  PROVE  /\ Guest!Held \in Nat /\ Guest!Held = BootSteps + 1 /\ Guest!NoVm = 0
         /\ Guest!Held # 0 /\ Guest!Held # 1 /\ BootSteps \in Nat
<1>1. BootSteps \in Nat \ {0}
  BY Zenon DEF GuestAssumptions
<1> QED
  BY <1>1 DEF Guest!Held, Guest!NoVm

LEMMA GuestNames ==
  ASSUME GuestAssumptions
  PROVE  /\ \A i \in Ids : i # Absent
         /\ Absent # "not run" /\ Absent # "done" /\ Absent \notin Requests
BY DEF GuestAssumptions

\* A thread that is at a place of the guest's code works on a request.
LEMMA AtWork ==
  ASSUME WorkOK, NEW c \in Chans, thread[c].at # "idle"
  PROVE  /\ thread[c].id # Absent /\ thread[c].id \in Ids /\ thread[c].at \in Before \cup During
         /\ sent[thread[c].id] # Absent /\ fate[thread[c].id] # "lost"
         /\ ctl = Guest!Held /\ vmm
         /\ thread[c].at \in During => sent[thread[c].id].op = "exec"
<1>1. ThreadOK(c)
  BY DEF WorkOK, ThreadsOK
<1>2. thread[c].id # Absent
  BY <1>1 DEF ThreadOK, Guest!Idle
<1>3. ctl = Guest!Held /\ vmm
  BY <1>2 DEF WorkOK, MachineOK
<1> QED
  BY <1>1, <1>2, <1>3 DEF ThreadOK

\* From place to place, before the request has run or while it runs.
LEMMA ThreadGoes ==
  ASSUME WorkOK, GuestAssumptions, NEW c \in Chans, thread[c].at # "idle", NEW place \in Before \cup During,
         place \in During <=> thread[c].at \in During, Guest!Go(c, place),
         UNCHANGED <<vmm, ctl, file, saved, host, sent, fate, ans, ran, twice, rec>>
  PROVE  WorkOK'
<1>1. /\ thread[c].id # Absent /\ thread[c].id \in Ids
      /\ sent[thread[c].id] # Absent /\ fate[thread[c].id] # "lost" /\ ctl = Guest!Held
      /\ thread[c].at \in During => sent[thread[c].id].op = "exec"
  BY AtWork
<1>2. /\ DOMAIN thread = Chans /\ DOMAIN thread' = Chans
      /\ thread'[c] = [at |-> place, id |-> thread[c].id]
      /\ \A d \in Chans \ {c} : thread'[d] = thread[d]
  BY DEF WorkOK, ThreadsOK, Guest!Go
<1>3. /\ \A d \in Chans : thread'[d].id = thread[d].id
      /\ \A d \in Chans : thread'[d].at \in During <=> thread[d].at \in During
  BY <1>2
<1>4. ThreadsOK'
  <2>1. ASSUME NEW d \in Chans PROVE ThreadOK(d)'
    <3>1. ThreadOK(d)
      BY DEF WorkOK, ThreadsOK
    <3>2. CASE d = c
      BY <1>1, <1>2, <3>2 DEF ThreadOK
    <3>3. CASE d # c
      BY <1>2, <3>1, <3>3 DEF ThreadOK
    <3> QED
      BY <3>2, <3>3
  <2> QED
    BY <2>1, <1>2 DEF WorkOK, ThreadsOK
<1>5. RequestsOK'
  <2>1. ASSUME NEW i \in Ids PROVE RequestOK(i)'
    <3>1. RequestOK(i)
      BY DEF WorkOK, RequestsOK
    <3>2. OnceOK(i) => OnceOK(i)'
      BY <1>3 DEF OnceOK
    <3> QED
      BY <3>1, <3>2 DEF RequestOK
  <2> QED
    BY <2>1 DEF WorkOK, RequestsOK
<1>6. WritesOK'
  BY DEF WorkOK, WritesOK, WroteOK
<1>7. RecoveryOK'
  BY DEF WorkOK, RecoveryOK, Recovering
<1>8. MachineOK'
  BY <1>1 DEF WorkOK, MachineOK
<1> QED
  BY <1>4, <1>5, <1>6, <1>7, <1>8 DEF WorkOK

\* An answer with what it says of the run: refused requests have not run, and a write
\* that has leaves a file.
LEMMA RequestAnswered ==
  ASSUME WorkOK, GuestAssumptions, NEW c \in Chans, thread[c].at # "idle",
         NEW what \in {"not run", "done"}, NEW keep, Guest!Answer(c, what, keep),
         NEW n \in Int, DOMAIN ran' = Ids, ran'[thread[c].id] = n,
         \A j \in Ids \ {thread[c].id} : ran'[j] = ran[j],
         thread[c].id \notin twice => n \in {0, 1} /\ (what = "not run" => n = 0),
         n # 0 /\ sent[thread[c].id].op = "write" => file' # Absent,
         file # Absent => file' # Absent,
         UNCHANGED <<vmm, ctl, saved, sent, twice, rec>>
  PROVE  WorkOK'
<1> DEFINE i == thread[c].id
<1>1. /\ i # Absent /\ i \in Ids /\ sent[i] # Absent /\ fate[i] # "lost" /\ ctl = Guest!Held
  BY AtWork
<1>2. /\ DOMAIN thread' = Chans /\ thread'[c] = Guest!Idle /\ Guest!Idle.id = Absent
      /\ \A d \in Chans \ {c} : thread'[d] = thread[d]
      /\ DOMAIN host' = Chans /\ host'[c] = "at rest" /\ \A d \in Chans \ {c} : host'[d] = host[d]
  BY DEF WorkOK, ThreadsOK, Guest!Answer, Guest!Idle
<1>3. /\ DOMAIN ans' = Ids /\ ans'[i] = what /\ \A j \in Ids \ {i} : ans'[j] = ans[j]
      /\ DOMAIN ran' = Ids /\ ran'[i] = n /\ \A j \in Ids \ {i} : ran'[j] = ran[j]
  BY <1>1 DEF WorkOK, RequestsOK, Guest!Answer
<1>4. /\ DOMAIN fate' = Ids /\ fate'[i] # "lost" /\ \A j \in Ids \ {i} : fate'[j] = fate[j]
  <2>1. fate' = [fate EXCEPT ![i] = "open"] \/ fate' = fate
    BY DEF Guest!Answer
  <2> QED
    BY <2>1, <1>1 DEF WorkOK, RequestsOK
<1> HIDE DEF i
<1>5. ThreadsOK'
  <2>1. ASSUME NEW d \in Chans PROVE ThreadOK(d)'
    <3>1. ThreadOK(d)
      BY DEF WorkOK, ThreadsOK
    <3>2. CASE d = c
      BY <1>2, <3>2 DEF ThreadOK, Guest!Idle
    <3>3. CASE d # c
      BY <1>2, <1>4, <3>1, <3>3 DEF ThreadOK
    <3> QED
      BY <3>2, <3>3
  <2> QED
    BY <2>1, <1>2 DEF ThreadsOK
<1>6. RequestsOK'
  <2>1. ASSUME NEW j \in Ids PROVE RequestOK(j)'
    <3>1. RequestOK(j)
      BY DEF WorkOK, RequestsOK
    <3>2. CASE j # i
      <4>1. /\ ran'[j] = ran[j] /\ ans'[j] = ans[j] /\ fate'[j] = fate[j]
            /\ thread[c].id # j /\ thread'[c].id # j
        BY <1>1, <1>2, <1>3, <1>4, <3>2, GuestNames DEF i
      <4>2. OnceOK(j) => OnceOK(j)'
        BY <4>1, <1>2 DEF OnceOK
      <4> QED
        BY <3>1, <4>1, <4>2 DEF RequestOK
    <3>3. CASE j = i
      <4>1. j \notin twice => \A d \in Chans : thread'[d].id # j
        <5>1. j \notin twice => \A d \in Chans : thread[d].id = j => d = c
          BY <3>1, <3>3 DEF RequestOK, OnceOK, i
        <5> QED
          BY <5>1, <1>1, <1>2, <3>3
      <4>2. j \notin twice => OnceOK(j)'
        BY <4>1, <1>3, <3>3, GuestNames DEF OnceOK, i
      <4> QED
        BY <3>1, <3>3, <4>2, <1>1, <1>3, <1>4 DEF RequestOK
    <3> QED
      BY <3>2, <3>3
  <2> QED
    BY <2>1, <1>3, <1>4 DEF WorkOK, RequestsOK
<1>7. WritesOK'
  <2>1. ASSUME NEW j \in Ids PROVE WroteOK(j)'
    <3>1. WroteOK(j)
      BY DEF WorkOK, WritesOK
    <3> QED
      BY <3>1, <1>1, <1>3 DEF WroteOK, i
  <2> QED
    BY <2>1 DEF WritesOK
<1>8. RecoveryOK'
  <2>1. RecoveryOK /\ (Recovering => rec.id # i)
    BY <1>1 DEF WorkOK, RecoveryOK
  <2> QED
    BY <2>1, <1>3, <1>4 DEF RecoveryOK, Recovering
<1>9. MachineOK'
  BY <1>1 DEF WorkOK, MachineOK
<1> QED
  BY <1>5, <1>6, <1>7, <1>8, <1>9 DEF WorkOK

\* A request reaches a thread: if it is not known to have been executed, it has not run.
LEMMA RequestReceived ==
  ASSUME WorkOK, GuestAssumptions, NEW c \in Chans, NEW i \in Ids, NEW g, Guest!Connected(c),
         fate[i] # "lost", Guest!Receive(c, i, g), DOMAIN sent' = Ids, sent'[i] \in Requests,
         sent'[i] = sent[i] \/ sent[i] = Absent,
         \A j \in Ids \ {i} : sent'[j] = sent[j],
         UNCHANGED <<vmm, ctl, file, saved, ans, ran, rec>>
  PROVE  WorkOK'
<1>1. thread[c].id = Absent /\ ctl = Guest!Held /\ Guest!Idle.id = Absent
  BY DEF Guest!Connected, Guest!Up, Guest!Idle
<1>2. sent'[i] # Absent /\ i # Absent
  BY GuestNames
<1>3. /\ DOMAIN fate' = Ids /\ fate'[i] # "lost" /\ \A j \in Ids \ {i} : fate'[j] = fate[j]
      /\ DOMAIN thread' = Chans /\ DOMAIN host' = Chans
      /\ \A d \in Chans \ {c} : thread'[d] = thread[d] /\ host'[d] = host[d]
      /\ \A j \in Ids \ {i} : j \in twice' <=> j \in twice
      /\ i \in twice => i \in twice'
      /\ \/ UNCHANGED <<thread, host, twice>>
         \/ /\ \E at \in {"advance", "gate"} : thread'[c] = [at |-> at, id |-> i]
            /\ host'[c] = "waiting"
            /\ Guest!Missed(c, i) => i \in twice'
  <2>1. CASE Guest!Kept(i)
    BY <2>1 DEF Guest!Receive, WorkOK, RequestsOK, ThreadsOK
  <2>2. CASE ~Guest!Kept(i)
    <3>1. /\ UNCHANGED fate
          /\ thread' = [thread EXCEPT ![c] = [at |-> IF g > gen THEN "advance" ELSE "gate", id |-> i]]
          /\ host' = [host EXCEPT ![c] = "waiting"]
          /\ twice' = IF Guest!Missed(c, i) THEN twice \cup {i} ELSE twice
      BY <2>2 DEF Guest!Receive
    <3> QED
      BY <3>1 DEF WorkOK, RequestsOK, ThreadsOK
  <2> QED
    BY <2>1, <2>2
<1>4. ThreadsOK'
  <2>1. ASSUME NEW d \in Chans PROVE ThreadOK(d)'
    <3>1. ThreadOK(d)
      BY DEF WorkOK, ThreadsOK
    <3>2. CASE UNCHANGED <<thread[d], host[d]>>
      <4>1. thread[d].id # Absent => sent'[thread[d].id] # Absent /\ fate'[thread[d].id] # "lost"
        BY <3>1, <1>2, <1>3 DEF ThreadOK
      <4>2. thread[d].id # Absent => sent'[thread[d].id] = sent[thread[d].id]
        BY <3>1 DEF ThreadOK
      <4> QED
        BY <3>1, <3>2, <4>1, <4>2 DEF ThreadOK
    <3>3. ASSUME NEW at \in {"advance", "gate"}, d = c, thread'[c] = [at |-> at, id |-> i] PROVE ThreadOK(d)'
      <4>1. at \in Before /\ at \notin During
        BY DEF Before, During
      <4> QED
        BY <3>3, <4>1, <1>2, <1>3 DEF ThreadOK
    <3> QED
      BY <1>3, <3>2, <3>3
  <2> QED
    BY <2>1, <1>3 DEF ThreadsOK
<1>5. RequestsOK'
  <2>1. ASSUME NEW j \in Ids PROVE RequestOK(j)'
    <3>1. RequestOK(j)
      BY DEF WorkOK, RequestsOK
    <3>2. CASE j # i
      <4>1. thread'[c].id # j /\ thread[c].id # j
        <5>1. j # Absent /\ thread[c].id # j
          BY <1>1, GuestNames
        <5>2. CASE UNCHANGED thread
          BY <5>1, <5>2
        <5>3. ASSUME NEW at, thread'[c] = [at |-> at, id |-> i] PROVE thread'[c].id # j
          BY <5>3, <3>2
        <5> QED
          BY <5>1, <5>2, <5>3, <1>3
      <4>2. OnceOK(j) => OnceOK(j)'
        BY <4>1, <1>3, <3>2 DEF OnceOK
      <4>3. (j \in twice' <=> j \in twice) /\ fate'[j] = fate[j] /\ sent'[j] = sent[j]
        BY <1>3, <3>2
      <4> QED
        BY <3>1, <4>2, <4>3 DEF RequestOK
    <3>3. CASE j = i /\ UNCHANGED <<thread, host, twice>>
      <4>1. OnceOK(j) => OnceOK(j)'
        BY <3>3, <1>3 DEF OnceOK
      <4> QED
        BY <3>1, <3>3, <4>1, <1>2, <1>3 DEF RequestOK
    <3>4. ASSUME j = i, NEW at \in {"advance", "gate"}, thread'[c] = [at |-> at, id |-> i],
                 Guest!Missed(c, i) => i \in twice'
          PROVE  RequestOK(j)'
      <4>1. ASSUME i \notin twice' PROVE OnceOK(i)'
        <5>1. /\ \A d \in Chans : thread[d].id # i
              /\ ans[i] \in {Absent, "not run"}
          BY <4>1, <3>4, <1>1, <1>2 DEF Guest!Missed
        <5>2. ran[i] = 0
          BY <5>1, <4>1, <3>1, <3>4, <1>3 DEF RequestOK, OnceOK
        <5>3. /\ thread'[c].id = i /\ thread'[c].at \notin During
              /\ \A d \in Chans \ {c} : thread'[d].id # i
          <6>1. at \notin During
            BY DEF During
          <6>2. thread'[c].id = i /\ thread'[c].at = at
            BY <3>4
          <6> QED
            BY <6>1, <6>2, <5>1, <1>3
        <5> QED
          BY <5>2, <5>3 DEF OnceOK
      <4> QED
        BY <3>1, <3>4, <4>1, <1>2, <1>3 DEF RequestOK
    <3> QED
      BY <1>3, <3>2, <3>3, <3>4
  <2> QED
    BY <2>1, <1>3 DEF WorkOK, RequestsOK
<1>7. WritesOK'
  <2>1. ASSUME NEW j \in Ids PROVE WroteOK(j)'
    <3>1. WroteOK(j) /\ RequestOK(j)
      BY DEF WorkOK, WritesOK, RequestsOK
    <3>2. sent'[j] = sent[j] \/ ran[j] = 0
      BY <3>1 DEF RequestOK
    <3> QED
      BY <3>1, <3>2 DEF WroteOK
  <2> QED
    BY <2>1 DEF WritesOK
<1>8. RecoveryOK'
  <2>1. RecoveryOK /\ (Recovering => rec.id # i)
    BY DEF WorkOK, RecoveryOK
  <2> QED
    BY <2>1, <1>3 DEF RecoveryOK, Recovering
<1>9. MachineOK'
  BY <1>1 DEF WorkOK, MachineOK
<1> QED
  BY <1>4, <1>5, <1>7, <1>8, <1>9 DEF WorkOK

\* The process of a request is spawned: it has run from now on.
LEMMA RequestSpawned ==
  ASSUME WorkOK, GuestAssumptions, NEW c \in Chans, Guest!ProcExec(c)
  PROVE  WorkOK'
<1> DEFINE i == thread[c].id
<1>1. /\ thread[c].at = "run" /\ sent[i].op = "exec"
      /\ UNCHANGED <<vmm, ctl, file, saved, host, sent, fate, ans, twice, rec>>
      /\ thread' = [thread EXCEPT ![c] = [at |-> "spawned", id |-> i]]
      /\ ran' = [ran EXCEPT ![i] = ran[i] + 1]
  BY DEF Guest!ProcExec, Guest!At, Guest!Req, Guest!Go, Guest!machine, Guest!client
<1>2. /\ i # Absent /\ i \in Ids /\ sent[i] # Absent /\ fate[i] # "lost" /\ ctl = Guest!Held
  BY <1>1, AtWork
<1>3. /\ DOMAIN thread' = Chans /\ thread'[c].id = i /\ thread'[c].at = "spawned"
      /\ thread'[c] = [at |-> "spawned", id |-> i]
      /\ \A d \in Chans \ {c} : thread'[d] = thread[d]
      /\ DOMAIN ran' = Ids /\ ran'[i] = ran[i] + 1 /\ \A j \in Ids \ {i} : ran'[j] = ran[j]
  BY <1>1, <1>2 DEF WorkOK, ThreadsOK, RequestsOK
<1> HIDE DEF i
<1>4. ThreadsOK'
  <2>1. ASSUME NEW d \in Chans PROVE ThreadOK(d)'
    <3>1. ThreadOK(d)
      BY DEF WorkOK, ThreadsOK
    <3>2. CASE d = c
      BY <1>1, <1>2, <1>3, <3>2 DEF ThreadOK, During
    <3>3. CASE d # c
      BY <1>1, <1>3, <3>1, <3>3 DEF ThreadOK
    <3> QED
      BY <3>2, <3>3
  <2> QED
    BY <2>1, <1>1, <1>3 DEF WorkOK, ThreadsOK
<1>5. RequestsOK'
  <2>1. ASSUME NEW j \in Ids PROVE RequestOK(j)'
    <3>1. RequestOK(j)
      BY DEF WorkOK, RequestsOK
    <3>2. CASE j # i
      <4>1. thread'[c].id # j /\ thread[c].id # j
        BY <1>3, <3>2 DEF i
      <4>2. OnceOK(j) => OnceOK(j)'
        BY <4>1, <1>1, <1>3, <3>2 DEF OnceOK
      <4> QED
        BY <3>1, <4>2, <1>1, <1>3, <3>2 DEF RequestOK
    <3>3. CASE j = i
      <4>1. ASSUME j \notin twice PROVE OnceOK(j)'
        <5>1. /\ \A d \in Chans : thread[d].id = i => d = c
              /\ ran[i] = 0
          <6>1. "run" \notin During
            BY DEF During
          <6> QED
            BY <6>1, <4>1, <3>1, <3>3, <1>1 DEF RequestOK, OnceOK, i
        <5>2. ran'[i] = 1 /\ \A d \in Chans : thread'[d].id = i => d = c
          BY <5>1, <1>3
        <5>3. thread'[c].at \in During
          BY <1>3 DEF During
        <5> QED
          BY <5>2, <5>3, <3>3, <1>3 DEF OnceOK
      <4>2. ran'[j] \in Int
        BY <3>1, <3>3, <1>3 DEF RequestOK
      <4> QED
        BY <3>1, <3>3, <4>1, <4>2, <1>1, <1>2 DEF RequestOK
    <3> QED
      BY <3>2, <3>3
  <2> QED
    BY <2>1, <1>1, <1>3 DEF WorkOK, RequestsOK
<1>6. WritesOK'
  <2>1. ASSUME NEW j \in Ids PROVE WroteOK(j)'
    <3>1. WroteOK(j)
      BY DEF WorkOK, WritesOK
    <3> QED
      BY <3>1, <1>1, <1>3 DEF WroteOK
  <2> QED
    BY <2>1 DEF WritesOK
<1>7. RecoveryOK'
  <2>1. RecoveryOK /\ (Recovering => rec.id # i)
    BY <1>2 DEF WorkOK, RecoveryOK
  <2> QED
    BY <2>1, <1>1, <1>3 DEF RecoveryOK, Recovering
<1>8. MachineOK'
  BY <1>1, <1>2 DEF WorkOK, MachineOK
<1> QED
  BY <1>4, <1>5, <1>6, <1>7, <1>8 DEF WorkOK

\* A caller no longer waits.
LEMMA CallerGivesUp ==
  ASSUME WorkOK, GuestAssumptions, NEW c \in Chans, Guest!GiveUp(c)
  PROVE  WorkOK'
<1> DEFINE i == thread[c].id
<1>1. /\ host[c] = "waiting" /\ host' = [host EXCEPT ![c] = "at rest"]
      /\ fate' = [fate EXCEPT ![i] = "timeout"]
      /\ UNCHANGED <<vmm, ctl, thread, file, saved, sent, ans, ran, twice, rec>>
  BY DEF Guest!GiveUp, Guest!machine, Guest!agent
<1>2. /\ i # Absent /\ i \in Ids /\ sent[i] # Absent /\ fate[i] # "lost"
  BY <1>1 DEF WorkOK, ThreadsOK, ThreadOK
<1>3. /\ DOMAIN fate' = Ids /\ fate'[i] = "timeout" /\ \A j \in Ids \ {i} : fate'[j] = fate[j]
      /\ DOMAIN host' = Chans /\ host'[c] = "at rest" /\ \A d \in Chans \ {c} : host'[d] = host[d]
  BY <1>1, <1>2 DEF WorkOK, ThreadsOK, RequestsOK
<1> HIDE DEF i
<1>4. ThreadsOK'
  <2>1. ASSUME NEW d \in Chans PROVE ThreadOK(d)'
    <3>1. ThreadOK(d)
      BY DEF WorkOK, ThreadsOK
    <3>2. thread[d].id # Absent => fate'[thread[d].id] # "lost"
      BY <3>1, <1>3 DEF ThreadOK
    <3>3. host'[d] = host[d] \/ host'[d] = "at rest"
      BY <1>3
    <3> QED
      BY <3>1, <3>2, <3>3, <1>1 DEF ThreadOK
  <2> QED
    BY <2>1, <1>1, <1>3 DEF WorkOK, ThreadsOK
<1>5. RequestsOK'
  <2>1. ASSUME NEW j \in Ids PROVE RequestOK(j)'
    <3>1. RequestOK(j)
      BY DEF WorkOK, RequestsOK
    <3>2. OnceOK(j) => OnceOK(j)'
      BY <1>1, <1>2, <1>3 DEF OnceOK
    <3> QED
      BY <3>1, <3>2, <1>1, <1>2, <1>3 DEF RequestOK
  <2> QED
    BY <2>1, <1>1, <1>3 DEF WorkOK, RequestsOK
<1>6. WritesOK'
  BY <1>1 DEF WorkOK, WritesOK, WroteOK
<1>7. RecoveryOK'
  <2>1. RecoveryOK /\ (Recovering => rec.id # i)
    BY <1>2 DEF WorkOK, RecoveryOK
  <2> QED
    BY <2>1, <1>1, <1>3 DEF RecoveryOK, Recovering
<1>8. MachineOK'
  BY <1>1 DEF WorkOK, MachineOK, Recovering
<1> QED
  BY <1>4, <1>5, <1>6, <1>7, <1>8 DEF WorkOK

\* Recovery writes what has not run: a write that has would have left a file.
LEMMA RecoveryStep ==
  ASSUME WorkOK, GuestAssumptions,
         \/ (\E i \in Ids : Guest!Reconcile(i)) \/ Guest!ReadBack \/ Guest!WriteBack \/ Guest!Verify
  PROVE  WorkOK'
<1>1. /\ ctl = Guest!Held
      /\ UNCHANGED <<vmm, ctl, thread, saved, host, sent, fate, ans, twice>>
  BY DEF Guest!Reconcile, Guest!ReadBack, Guest!WriteBack, Guest!Verify, Guest!machine, Guest!agent,
         Guest!client, Guest!Up
<1>2. ThreadsOK'
  BY <1>1 DEF WorkOK, ThreadsOK, ThreadOK
<1>3. ASSUME UNCHANGED <<file, ran>>, RecoveryOK' PROVE WorkOK'
  <2>1. RequestsOK' /\ WritesOK'
    BY <1>1, <1>3 DEF WorkOK, RequestsOK, RequestOK, OnceOK, WritesOK, WroteOK
  <2>2. MachineOK'
    BY <1>1, <1>3 DEF WorkOK, MachineOK
  <2> QED
    BY <1>2, <1>3, <2>1, <2>2 DEF WorkOK
<1>4. ASSUME NEW i \in Ids, Guest!Reconcile(i) PROVE WorkOK'
  <2>1. /\ UNCHANGED <<file, ran>> /\ fate[i] = "lost" /\ sent[i].op = "write"
        /\ rec' = [at |-> "read", id |-> i]
    BY <1>4 DEF Guest!Reconcile, Guest!agent
  <2>2. sent[i] # Absent
    BY <2>1 DEF WorkOK, RequestsOK, RequestOK
  <2>3. RecoveryOK'
    BY <1>1, <2>1, <2>2 DEF RecoveryOK, Recovering
  <2> QED
    BY <1>3, <2>1, <2>3
<1>5. ASSUME Recovering PROVE /\ rec = [at |-> rec.at, id |-> rec.id] /\ rec.id \in Ids
                              /\ fate[rec.id] = "lost"
                              /\ sent[rec.id] # Absent /\ sent[rec.id].op = "write"
  BY <1>5 DEF WorkOK, RecoveryOK
<1>6. ASSUME NEW at, Recovering, rec' = [rec EXCEPT !.at = at], UNCHANGED <<file, ran>>,
             at = "write" => file = Absent
      PROVE  WorkOK'
  <2>1. rec' = [at |-> at, id |-> rec.id]
    BY <1>5, <1>6
  <2>2. at = "write" => ran[rec.id] = 0
    BY <1>1, <1>5, <1>6 DEF WorkOK, WritesOK, WroteOK
  <2>3. RecoveryOK'
    BY <2>1, <2>2, <1>1, <1>5, <1>6 DEF RecoveryOK
  <2> QED
    BY <2>3, <1>3, <1>6
<1>7. ASSUME Guest!ReadBack \/ Guest!Verify PROVE WorkOK'
  <2>1. Recovering /\ UNCHANGED <<file, ran>>
    BY <1>7 DEF Guest!ReadBack, Guest!Verify, Guest!agent, Recovering
  <2>2. \E at : rec' = [rec EXCEPT !.at = at] /\ (at = "write" => file = Absent)
    BY <1>7 DEF Guest!ReadBack, Guest!Verify
  <2> QED
    BY <2>1, <2>2, <1>6
<1>8. ASSUME Guest!WriteBack PROVE WorkOK'
  <2>1. PICK i : i = rec.id
    OBVIOUS
  <2>2. /\ rec.at = "write" /\ file' = i /\ ran' = [ran EXCEPT ![i] = ran[i] + 1]
        /\ rec' = [rec EXCEPT !.at = "verify"]
    BY <1>8, <2>1 DEF Guest!WriteBack
  <2>3. /\ i \in Ids /\ fate[i] = "lost" /\ sent[i] # Absent /\ sent[i].op = "write" /\ i # Absent
        /\ i \notin twice => ran[i] = 0
    BY <2>1, <2>2, <1>5, GuestNames DEF Recovering, WorkOK, RecoveryOK
  <2>4. rec' = [at |-> "verify", id |-> i]
    BY <2>1, <2>2, <1>5 DEF Recovering
  <2>5. DOMAIN ran' = Ids /\ ran'[i] = ran[i] + 1 /\ \A j \in Ids \ {i} : ran'[j] = ran[j]
    BY <2>2, <2>3 DEF WorkOK, RequestsOK
  <2>6. \A c \in Chans : thread[c].id # i
    BY <2>3 DEF WorkOK, ThreadsOK, ThreadOK
  <2>7. RequestsOK'
    <3>1. ASSUME NEW j \in Ids PROVE RequestOK(j)'
      <4>1. RequestOK(j)
        BY DEF WorkOK, RequestsOK
      <4>2. CASE j # i
        <5>1. OnceOK(j) => OnceOK(j)'
          BY <1>1, <2>5, <4>2 DEF OnceOK
        <5> QED
          BY <4>1, <4>2, <5>1, <1>1, <2>5 DEF RequestOK
      <4>3. CASE j = i
        <5>1. i \notin twice => OnceOK(i)'
          BY <1>1, <2>3, <2>5, <2>6 DEF OnceOK
        <5>2. ran'[i] \in Int
          BY <4>1, <4>3, <2>5 DEF RequestOK
        <5> QED
          BY <4>1, <4>3, <5>1, <5>2, <1>1, <2>3 DEF RequestOK
      <4> QED
        BY <4>2, <4>3
    <3> QED
      BY <3>1, <1>1, <2>5 DEF WorkOK, RequestsOK
  <2>8. WritesOK'
    BY <1>1, <2>2, <2>3 DEF WritesOK, WroteOK
  <2>9. RecoveryOK'
    BY <1>1, <2>3, <2>4 DEF RecoveryOK
  <2>10. MachineOK'
    BY <1>1, <2>2, <2>3 DEF WorkOK, MachineOK
  <2> QED
    BY <1>2, <2>7, <2>8, <2>9, <2>10 DEF WorkOK
<1> QED
  BY <1>4, <1>7, <1>8

\* The guest is lost: of a write that was not in the checkpoint nothing is left.
LEMMA GuestLost ==
  ASSUME WorkOK, GuestAssumptions, Guest!Gone
  PROVE  WorkOK'
<1>1. /\ ctl = Guest!Held /\ ~vmm' /\ ctl' = 0
      /\ host' = [c \in Chans |-> "at rest"] /\ thread' = [c \in Chans |-> Guest!Idle]
      /\ fate' = [i \in Ids |-> IF \E c \in Chans : thread[c].id = i THEN "lost" ELSE fate[i]]
      /\ ran' = [i \in Ids |-> IF sent[i] # Absent /\ sent[i].op = "write" /\ saved # i THEN 0 ELSE ran[i]]
      /\ rec' = IF Recovering THEN Guest!Quiet ELSE rec
      /\ UNCHANGED <<file, saved, sent, ans, twice>>
  BY DEF Guest!Gone, Guest!Up, Guest!NoVm, Recovering
<1>2. \A c \in Chans : thread'[c] = Guest!Idle /\ thread'[c].id = Absent /\ host'[c] = "at rest"
  BY <1>1 DEF Guest!Idle
<1>3. ThreadsOK'
  <2>1. Guest!Idle = [at |-> Guest!Idle.at, id |-> Guest!Idle.id]
    BY DEF Guest!Idle
  <2>2. \A c \in Chans : ThreadOK(c)'
    BY <1>2, <2>1 DEF ThreadOK
  <2> QED
    BY <2>2, <1>1 DEF ThreadsOK
<1>4. RequestsOK'
  <2>1. ASSUME NEW i \in Ids PROVE RequestOK(i)'
    <3>1. RequestOK(i) /\ i # Absent
      BY GuestNames DEF WorkOK, RequestsOK
    <3>2. /\ fate'[i] = IF \E c \in Chans : thread[c].id = i THEN "lost" ELSE fate[i]
          /\ ran'[i] = 0 \/ ran'[i] = ran[i]
      BY <1>1
    <3>3. sent[i] = Absent => fate'[i] = fate[i] /\ ran'[i] = ran[i]
      <4>1. sent[i] = Absent => \A c \in Chans : thread[c].id # i
        BY <3>1 DEF WorkOK, ThreadsOK, ThreadOK
      <4> QED
        BY <4>1, <3>2, <1>1
    <3>4. \A c \in Chans : thread'[c].id # i
      BY <1>2, <3>1
    <3>5. OnceOK(i) => OnceOK(i)'
      <4>1. ASSUME OnceOK(i), fate'[i] # "lost", ans[i] \in {Absent, "not run"} PROVE ran'[i] = 0
        BY <4>1, <3>2 DEF OnceOK
      <4> QED
        BY <4>1, <3>2, <3>4, <1>1 DEF OnceOK
    <3>6. ran'[i] \in Int /\ ans'[i] # "wrong" /\ sent'[i] \in Requests \cup {Absent}
      <4>1. ran[i] \in Int /\ ans[i] # "wrong" /\ sent[i] \in Requests \cup {Absent}
        BY <3>1 DEF RequestOK
      <4>2. ran'[i] \in Int
        BY <4>1, <3>2
      <4> QED
        BY <4>1, <4>2, <1>1
    <3>7. sent'[i] = Absent => ans'[i] = Absent /\ fate'[i] = "open" /\ ran'[i] = 0
      BY <3>1, <3>3, <1>1 DEF RequestOK
    <3>8. i \notin twice' => OnceOK(i)'
      BY <3>1, <3>5, <1>1 DEF RequestOK
    <3> QED
      BY <3>6, <3>7, <3>8 DEF RequestOK
  <2> QED
    BY <2>1, <1>1 DEF WorkOK, RequestsOK
<1>5. WritesOK'
  <2>1. ASSUME NEW i \in Ids PROVE WroteOK(i)'
    <3>1. sent[i] # Absent /\ ran'[i] # 0 /\ sent[i].op = "write" => saved = i
      BY <1>1
    <3>2. i # Absent /\ ctl' # Guest!Held
      BY <1>1, GuestNames, GuestNumbers
    <3> QED
      BY <3>1, <3>2, <1>1 DEF WroteOK
  <2> QED
    BY <2>1 DEF WritesOK
<1>6. RecoveryOK' /\ ~Recovering'
  <2>1. CASE Recovering
    BY <2>1, <1>1 DEF RecoveryOK, Recovering, Guest!Quiet
  <2>2. CASE ~Recovering
    <3>1. rec' = rec
      BY <2>2, <1>1
    <3> QED
      BY <3>1, <2>2 DEF RecoveryOK, Recovering, WorkOK
  <2> QED
    BY <2>1, <2>2
<1>7. MachineOK'
  <2>1. ctl' # Guest!Held /\ ctl' \in Nat
    BY <1>1, GuestNumbers
  <2> QED
    BY <2>1, <1>1, <1>2, <1>6 DEF MachineOK
<1> QED
  BY <1>3, <1>4, <1>5, <1>6, <1>7 DEF WorkOK

\* The VM comes up with the disk of the checkpoint, or does not; a checkpoint is taken.
LEMMA MachineStep ==
  ASSUME WorkOK, GuestAssumptions,
         Guest!Spawn \/ Guest!BootStep \/ Guest!BootFails \/ Guest!Checkpoint
  PROVE  WorkOK'
<1>1. UNCHANGED <<host, sent, fate, ans, ran, twice, rec>>
  BY DEF Guest!Spawn, Guest!BootStep, Guest!BootFails, Guest!Checkpoint, Guest!client
<1>2. /\ DOMAIN thread' = Chans
      /\ \A c \in Chans : thread'[c] = thread[c]
  <2>1. CASE UNCHANGED thread
    BY <2>1 DEF WorkOK, ThreadsOK
  <2>2. CASE Guest!BootStep /\ thread' = [c \in Chans |-> Guest!Idle]
    <3>1. ctl # Guest!Held
      BY <2>2, GuestNumbers DEF Guest!BootStep, Guest!Configuring
    <3>2. \A c \in Chans : thread[c] = Guest!Idle
      BY <3>1 DEF WorkOK, MachineOK, ThreadsOK, ThreadOK
    <3> QED
      BY <3>2, <2>2
  <2> QED
    BY <2>1, <2>2 DEF Guest!Spawn, Guest!BootStep, Guest!BootFails, Guest!Checkpoint, Guest!agent
<1>3. ThreadsOK'
  <2>1. \A c \in Chans : ThreadOK(c)'
    BY <1>1, <1>2 DEF WorkOK, ThreadsOK, ThreadOK
  <2> QED
    BY <2>1, <1>1, <1>2 DEF WorkOK, ThreadsOK
<1>4. RequestsOK'
  <2>1. ASSUME NEW i \in Ids PROVE RequestOK(i)'
    <3>1. RequestOK(i)
      BY DEF WorkOK, RequestsOK
    <3>2. OnceOK(i) => OnceOK(i)'
      BY <1>1, <1>2 DEF OnceOK
    <3> QED
      BY <3>1, <3>2, <1>1 DEF RequestOK
  <2> QED
    BY <2>1, <1>1 DEF WorkOK, RequestsOK
<1>5. RecoveryOK'
  BY <1>1 DEF WorkOK, RecoveryOK, Recovering
<1>6. CASE Guest!Checkpoint
  <2>1. ctl = Guest!Held /\ UNCHANGED <<vmm, ctl, file>> /\ saved' = file
    BY <1>6 DEF Guest!Checkpoint, Guest!Up, Guest!machine, Guest!agent
  <2>2. WritesOK'
    BY <2>1, <1>1 DEF WorkOK, WritesOK, WroteOK
  <2>3. MachineOK'
    BY <2>1 DEF WorkOK, MachineOK
  <2> QED
    BY <2>2, <2>3, <1>3, <1>4, <1>5 DEF WorkOK
<1>7. CASE ~Guest!Checkpoint
  <2>1. /\ ctl # Guest!Held /\ UNCHANGED saved
        /\ \/ ctl' \in Nat /\ ctl' # Guest!Held /\ (vmm' => ctl' # 0)
           \/ ctl' = Guest!Held /\ vmm' /\ file' = saved
    <3>1. CASE Guest!Spawn
      BY <3>1, GuestNumbers DEF Guest!Spawn, Guest!client
    <3>2. CASE Guest!BootFails
      BY <3>2, GuestNumbers DEF Guest!BootFails, Guest!Configuring, Guest!client
    <3>3. CASE Guest!BootStep
      <4>1. ctl \in 1..BootSteps /\ vmm' = vmm /\ vmm /\ UNCHANGED saved
        BY <3>3 DEF Guest!BootStep, Guest!Configuring, Guest!client
      <4>2. CASE ctl < BootSteps
        BY <3>3, <4>1, <4>2, GuestNumbers DEF Guest!BootStep
      <4>3. CASE ~(ctl < BootSteps)
        BY <3>3, <4>1, <4>3, GuestNumbers DEF Guest!BootStep
      <4> QED
        BY <4>2, <4>3
    <3> QED
      BY <1>7, <3>1, <3>2, <3>3
  <2>2. WritesOK'
    <3>1. ASSUME NEW i \in Ids PROVE WroteOK(i)'
      <4>1. WroteOK(i)
        BY DEF WorkOK, WritesOK
      <4> QED
        BY <4>1, <2>1, <1>1 DEF WroteOK
    <3> QED
      BY <3>1 DEF WritesOK
  <2>3. MachineOK'
    <3>1. ~Recovering /\ \A c \in Chans : thread[c].id = Absent
      BY <2>1 DEF WorkOK, MachineOK
    <3>2. ~Recovering' /\ \A c \in Chans : thread'[c].id = Absent
      BY <3>1, <1>1, <1>2 DEF Recovering
    <3> QED
      BY <3>2, <2>1, GuestNumbers DEF MachineOK
  <2> QED
    BY <2>2, <2>3, <1>3, <1>4, <1>5 DEF WorkOK
<1> QED
  BY <1>6, <1>7

\* What the guest's thread does with a request that is at the gate or past it.
LEMMA ThreadStep ==
  ASSUME WorkOK, ProcsOK, GuestAssumptions, NEW c \in Chans,
         \/ Guest!AdvanceGeneration(c) \/ Guest!Sweep(c) \/ Guest!SweepKill(c)
         \/ (\E live \in BOOLEAN : Guest!Gate(c, live))
         \/ Guest!Denied(c) \/ Guest!FsWrite(c) \/ Guest!Enter(c)
         \/ Guest!Poll(c) \/ Guest!Late(c) \/ Guest!TimedOut(c)
  PROVE  WorkOK'
<1>1. thread[c].at # "idle"
  BY DEF Guest!AdvanceGeneration, Guest!Sweep, Guest!SweepKill, Guest!Gate, Guest!Denied, Guest!FsWrite,
         Guest!Enter, Guest!Poll, Guest!Late, Guest!TimedOut, Guest!At
<1>2. PICK i : i = thread[c].id
  OBVIOUS
<1>3. /\ i \in Ids /\ i # Absent /\ sent[i] # Absent
      /\ thread[c].at \in During => sent[i].op = "exec"
      /\ RequestOK(i) /\ WroteOK(i) /\ DOMAIN ran = Ids /\ ctl = Guest!Held
  BY <1>1, <1>2, AtWork DEF WorkOK, RequestsOK, WritesOK
<1>4. ran[i] \in Int
  BY <1>3 DEF RequestOK
<1>5. i \notin twice => ran[i] = IF thread[c].at \in During THEN 1 ELSE 0
  BY <1>2, <1>3 DEF RequestOK, OnceOK
<1>6. ASSUME UNCHANGED <<vmm, ctl, file, saved, host, sent, fate, ans, ran, twice, rec>>,
             NEW place \in Before \cup During, Guest!Go(c, place),
             place \in During <=> thread[c].at \in During
      PROVE  WorkOK'
  BY <1>1, <1>6, ThreadGoes
<1>7. ASSUME Guest!AdvanceGeneration(c) \/ Guest!Sweep(c) \/ Guest!SweepKill(c) PROVE WorkOK'
  <2>1. /\ UNCHANGED <<vmm, ctl, file, saved, host, sent, fate, ans, ran, twice, rec>>
        /\ thread[c].at \in {"advance", "sweep", "kill"}
        /\ \E place \in {"sweep", "run", "kill"} : Guest!Go(c, place)
    BY <1>7 DEF Guest!AdvanceGeneration, Guest!Sweep, Guest!SweepKill, Guest!At, Guest!machine, Guest!client
  <2> QED
    BY <2>1, <1>6 DEF Before, During
<1>8. ASSUME Guest!Enter(c) \/ Guest!Late(c) PROVE WorkOK'
  <2>1. /\ UNCHANGED <<vmm, ctl, file, saved, host, sent, fate, ans, ran, twice, rec>>
        /\ thread[c].at \in {"spawned", "wait"}
        /\ \E place \in {"wait", "late"} : Guest!Go(c, place)
    BY <1>8 DEF Guest!Enter, Guest!Late, Guest!At, Guest!machine, Guest!client
  <2> QED
    BY <2>1, <1>6 DEF Before, During
<1>9. ASSUME NEW what \in {"not run", "done"}, NEW keep, Guest!Answer(c, what, keep),
             UNCHANGED <<vmm, ctl, file, saved, sent, ran, twice, rec>>,
             what = "not run" => thread[c].at \notin During
      PROVE  WorkOK'
  <2>1. /\ i \notin twice => ran[i] \in {0, 1} /\ (what = "not run" => ran[i] = 0)
        /\ ran[i] # 0 /\ sent[i].op = "write" => file' # Absent
    BY <1>3, <1>5, <1>9 DEF WroteOK
  <2>2. PICK n \in Int : n = ran[i]
    BY <1>4
  <2>3. DOMAIN ran' = Ids /\ ran'[i] = n /\ \A j \in Ids \ {i} : ran'[j] = ran[j]
    BY <2>2, <1>3, <1>9
  <2> QED
    BY <1>1, <1>2, <1>9, <2>1, <2>2, <2>3, RequestAnswered
<1>10. ASSUME NEW live \in BOOLEAN, Guest!Gate(c, live) PROVE WorkOK'
  <2>1. thread[c].at = "gate" /\ UNCHANGED <<vmm, ctl, file, saved, sent, ran, twice, rec>>
    BY <1>10 DEF Guest!Gate, Guest!At, Guest!machine
  <2>2. \/ Guest!Go(c, "run") /\ UNCHANGED <<ans, host, fate>>
        \/ Guest!Answer(c, "not run", FALSE)
    BY <1>10 DEF Guest!Gate
  <2>3. "gate" \notin During /\ "run" \notin During /\ "run" \in Before
    BY DEF Before, During
  <2>4. CASE Guest!Go(c, "run") /\ UNCHANGED <<ans, host, fate>>
    BY <2>1, <2>3, <2>4, <1>6
  <2>5. CASE Guest!Answer(c, "not run", FALSE)
    BY <2>1, <2>3, <2>5, <1>9
  <2> QED
    BY <2>2, <2>4, <2>5
<1>11. ASSUME Guest!Denied(c) \/ Guest!TimedOut(c) PROVE WorkOK'
  <2>1. /\ UNCHANGED <<vmm, ctl, file, saved, sent, ran, twice, rec>>
        /\ Guest!Answer(c, "done", TRUE)
    BY <1>11 DEF Guest!Denied, Guest!TimedOut, Guest!machine
  <2> QED
    BY <2>1, <1>9
<1>12. ASSUME Guest!FsWrite(c) PROVE WorkOK'
  <2>1. /\ UNCHANGED <<vmm, ctl, saved, sent, twice, rec>> /\ thread[c].at = "run"
        /\ Guest!Answer(c, "done", TRUE) /\ file' = i /\ ran' = [ran EXCEPT ![i] = ran[i] + 1]
    BY <1>2, <1>12 DEF Guest!FsWrite, Guest!At, Guest!machine
  <2>2. "run" \notin During
    BY DEF During
  <2>3. PICK n \in Int : n = ran[i] + 1
    BY <1>4
  <2>4. i \notin twice => n \in {0, 1}
    BY <2>1, <2>2, <2>3, <1>5
  <2>5. DOMAIN ran' = Ids /\ ran'[i] = n /\ \A j \in Ids \ {i} : ran'[j] = ran[j]
    BY <2>1, <2>3, <1>3
  <2> QED
    BY <1>1, <1>2, <1>3, <2>1, <2>4, <2>5, RequestAnswered
<1>13. ASSUME Guest!Poll(c) PROVE WorkOK'
  <2>1. /\ UNCHANGED <<vmm, ctl, file, saved, sent, twice, rec>> /\ thread[c].at = "wait"
        /\ \/ Guest!Answer(c, "not run", FALSE) /\ ran' = [ran EXCEPT ![i] = ran[i] - 1]
           \/ Guest!Answer(c, "done", TRUE) /\ UNCHANGED ran
    <3>1. IsProc(proc[c])
      BY DEF ProcsOK
    <3>2. ~proc[c].fenced => proc[c].by # "fence"
      BY <3>1 DEF IsProc
    <3> QED
      BY <3>2, <1>2, <1>13 DEF Guest!Poll, Guest!At, Guest!machine
  <2>2. "wait" \in During
    BY DEF During
  <2>3. CASE Guest!Answer(c, "done", TRUE) /\ UNCHANGED ran
    BY <2>1, <2>3, <1>9
  <2>4. CASE Guest!Answer(c, "not run", FALSE) /\ ran' = [ran EXCEPT ![i] = ran[i] - 1]
    <3>1. PICK n \in Int : n = ran[i] - 1
      BY <1>4
    <3>2. i \notin twice => n = 0
      <4>1. i \notin twice => ran[i] = 1
        BY <2>1, <2>2, <1>5
      <4> QED
        BY <3>1, <4>1
    <3>4. DOMAIN ran' = Ids /\ ran'[i] = n /\ \A j \in Ids \ {i} : ran'[j] = ran[j]
      BY <2>4, <3>1, <1>3
    <3>3. sent[i].op # "write"
      BY <1>3, <2>1, <2>2
    <3> QED
      BY <1>1, <1>2, <2>1, <2>4, <3>2, <3>3, <3>4, RequestAnswered
  <2> QED
    BY <2>1, <2>3, <2>4
<1> QED
  BY <1>7, <1>8, <1>10, <1>11, <1>12, <1>13

LEMMA WorkRests ==
  ASSUME WorkOK,
         UNCHANGED <<vmm, ctl, thread, file, saved, host, sent, fate, ans, ran, twice, rec>>
  PROVE  WorkOK'
<1>1. ThreadsOK'
  BY DEF WorkOK, ThreadsOK, ThreadOK
<1>2. RequestsOK'
  BY DEF WorkOK, RequestsOK, RequestOK, OnceOK
<1>3. WritesOK'
  BY DEF WorkOK, WritesOK, WroteOK
<1>4. RecoveryOK'
  BY DEF WorkOK, RecoveryOK, Recovering
<1>5. MachineOK'
  BY DEF WorkOK, MachineOK, Recovering
<1> QED
  BY <1>1, <1>2, <1>3, <1>4, <1>5 DEF WorkOK

LEMMA GuestStep ==
  ASSUME GuestAssumptions, GuestInv, [Guest!GuestNext]_(Guest!guestVars)
  PROVE  GuestInv'
<1>1. CASE UNCHANGED Guest!guestVars
  <2>1. ProcsOK'
    BY <1>1 DEF Guest!guestVars, GuestInv, ProcsOK, IsProc
  <2>2. WorkOK'
    BY <1>1, WorkRests DEF Guest!guestVars, GuestInv, WorkOK
  <2> QED
    BY <2>1, <2>2 DEF GuestInv, WorkOK
<1>2. CASE Guest!GuestNext
  <2>1. ProcsOK' /\ ProcsOK /\ WorkOK
    BY <1>2, ProcsStep DEF GuestInv, WorkOK
  <2>2. ASSUME NEW c \in Chans, NEW i \in Ids, NEW op \in {"write", "exec"}, NEW g \in 0..MaxGen,
               Guest!Call(c, i, op, g)
        PROVE  WorkOK'
    <3>1. /\ Guest!Connected(c) /\ sent[i] = Absent /\ Guest!Receive(c, i, g)
          /\ sent' = [sent EXCEPT ![i] = [op |-> op, gen |-> g]]
          /\ UNCHANGED <<vmm, ctl, file, saved, ans, ran, rec>>
      BY <2>2 DEF Guest!Call, Guest!machine
    <3>2. fate[i] = "open" /\ DOMAIN sent = Ids
      BY <2>1, <3>1 DEF WorkOK, RequestsOK, RequestOK
    <3>3. /\ DOMAIN sent' = Ids /\ sent'[i] \in Requests /\ \A j \in Ids \ {i} : sent'[j] = sent[j]
      BY <3>1, <3>2 DEF Requests
    <3> QED
      BY <2>1, <3>1, <3>2, <3>3, RequestReceived
  <2>3. ASSUME NEW c \in Chans, NEW i \in Ids, Guest!Replay(c, i) PROVE WorkOK'
    <3>1. /\ Guest!Connected(c) /\ fate[i] = "timeout" /\ Guest!Receive(c, i, sent[i].gen)
          /\ UNCHANGED <<vmm, ctl, file, saved, sent, ans, ran, rec>>
      BY <2>3 DEF Guest!Replay, Guest!machine
    <3>2. sent[i] \in Requests /\ DOMAIN sent = Ids
      BY <2>1, <3>1 DEF WorkOK, RequestsOK, RequestOK
    <3> QED
      BY <2>1, <3>1, <3>2, RequestReceived
  <2>4. ASSUME NEW c \in Chans, Guest!ChildEnds(c) PROVE WorkOK'
    <3>1. UNCHANGED <<vmm, ctl, thread, file, saved, host, sent, fate, ans, ran, twice, rec>>
      BY <2>4 DEF Guest!ChildEnds, Guest!machine, Guest!client
    <3> QED
      BY <3>1, <2>1, WorkRests
  <2>5. WorkOK'
    BY <1>2, <2>1, <2>2, <2>3, <2>4, ThreadStep, RequestSpawned, CallerGivesUp, GuestLost, MachineStep,
       RecoveryStep DEF Guest!GuestNext
  <2> QED
    BY <2>1, <2>5 DEF GuestInv, WorkOK
<1> QED
  BY <1>1, <1>2

\* A request to the guest of a task runs at most once, unless it was sent again while it was
\* being executed or after its answer was evicted; a process the fence killed is not reported
\* as having exited; and no VMM is left that nobody will stop (sandbox/guest.rs,
\* sandbox/guest_recovery.rs, sandbox/substrate.rs, services/modbit-guest).
THEOREM GuestIsAccounted ==
  GuestAssumptions => (Guest!GuestSpec => []Guest!GuestAccounted)
<1> SUFFICES ASSUME GuestAssumptions PROVE Guest!GuestSpec => []Guest!GuestAccounted
  OBVIOUS
<1>1. Guest!GuestInit => GuestInv
  BY GuestStart
<1>2. GuestInv /\ [Guest!GuestNext]_(Guest!guestVars) => GuestInv'
  BY GuestStep
<1>3. GuestInv => Guest!GuestAccounted
  <2> SUFFICES ASSUME GuestInv PROVE Guest!GuestAccounted
    OBVIOUS
  <2>1. Guest!AtMostOnce
    <3>1. ASSUME NEW i \in Ids, i \notin twice PROVE ran[i] <= 1
      <4>1. ran[i] \in {0, 1}
        BY <3>1 DEF GuestInv, RequestsOK, RequestOK, OnceOK
      <4> QED
        BY <4>1
    <3> QED
      BY <3>1 DEF Guest!AtMostOnce
  <2>2. Guest!FencedIsNotDone /\ Guest!NoOrphanVm
    BY DEF GuestInv, RequestsOK, RequestOK, MachineOK, Guest!FencedIsNotDone, Guest!NoOrphanVm
  <2> QED
    BY <2>1, <2>2 DEF Guest!GuestAccounted
<1> QED
  BY <1>1, <1>2, <1>3, PTL DEF Guest!GuestSpec
=============================================================================
