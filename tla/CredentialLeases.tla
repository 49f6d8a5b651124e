-------------------------- MODULE CredentialLeases --------------------------
(***************************************************************************)
(* The credential broker (secrets/lib.rs): secrets under opaque references,*)
(* leases on them that are bound to a task, a generation, scopes and a     *)
(* time, and an audit that names leases and references, never values.      *)
(*                                                                         *)
(* The broker is called one operation at a time.  Its callers are external:*)
(* a task's work advances its generation, and a caller that has not heard  *)
(* of it presents an older one.  A lease's handle is known by its number.  *)
(***************************************************************************)
EXTENDS Naturals, Sequences, FiniteSets

CONSTANTS Tasks,        \* tasks, the holders of leases
          Refs,         \* references of secrets
          Scopes,       \* CredScope
          MaxTtl,       \* bound: life of a lease
          MaxNow,       \* bound: the clock
          MaxWork,      \* bound: generations of a task
          MaxLeases,    \* bound: leases issued
          MaxAudit      \* bound: rows of the audit

VARIABLES secrets,  \* CredentialBroker.secrets: the registered references
          leases,   \* CredentialBroker.leases, by number
          audit,    \* CredentialBroker.audit
          now,      \* the clock
          work,     \* per task: generation of its work
          handed    \* history: the values that left the broker

credVars == <<secrets, leases, audit, now, work, handed>>

Init ==
  /\ secrets = {} /\ leases = <<>> /\ audit = <<>>
  /\ now = 0 /\ work = [t \in Tasks |-> 0] /\ handed = {}

Row(kind, l, t) == [kind |-> kind, lease |-> l, task |-> t]

Register(r) ==
  /\ secrets' = secrets \cup {r}
  /\ UNCHANGED <<leases, audit, now, work, handed>>

\* issue_lease: of any registered secret, whichever task registered it.
IssueLease(r, t, scopes, ttl) ==
  /\ r \in secrets /\ Len(leases) < MaxLeases /\ Len(audit) < MaxAudit
  /\ leases' = Append(leases, [secret |-> r, task |-> t, gen |-> work[t], scopes |-> scopes,
                               expires |-> now + ttl, live |-> TRUE])
  /\ audit' = Append(audit, Row("issue", Len(leases) + 1, t))
  /\ UNCHANGED <<secrets, now, work, handed>>

\* The checks of materialize, in their order.
Verdict(l, t, gen, scope) ==
  IF ~leases[l].live THEN "denied-revoked"
  ELSE IF now >= leases[l].expires THEN "denied-expired"
  ELSE IF leases[l].task # t THEN "denied-task-mismatch"
  ELSE IF leases[l].gen < gen THEN "denied-fenced"
  ELSE IF scope \notin leases[l].scopes THEN "denied-scope"
  ELSE "materialize"

\* Task t, at what it takes for its generation, presents the handle of lease l.
Materialize(l, t, gen, scope) ==
  /\ l \in DOMAIN leases /\ gen <= work[t] /\ Len(audit) < MaxAudit
  /\ audit' = Append(audit, Row(Verdict(l, t, gen, scope), l, leases[l].task))
  /\ handed' = IF Verdict(l, t, gen, scope) # "materialize" THEN handed
               ELSE handed \cup {[lease |-> l, task |-> t, gen |-> gen, work |-> work[t],
                                  scope |-> scope, time |-> now, at |-> Len(audit) + 1]}
  /\ UNCHANGED <<secrets, leases, now, work>>

MaterializeUnknown(t) ==
  /\ Len(audit) < MaxAudit
  /\ audit' = Append(audit, Row("denied-unknown", 0, t))
  /\ UNCHANGED <<secrets, leases, now, work, handed>>

\* revoke: a row for every call, of a lease that is revoked already too.
Revoke(l) ==
  /\ l \in DOMAIN leases /\ Len(audit) < MaxAudit
  /\ leases' = [leases EXCEPT ![l].live = FALSE]
  /\ audit' = Append(audit, Row("revoke", l, leases[l].task))
  /\ UNCHANGED <<secrets, now, work, handed>>

Mine(t) == {l \in DOMAIN leases : leases[l].task = t}

\* The leases of a task in the order of a hash map, which is any order.
Orders(t) ==
  {q \in [1..Cardinality(Mine(t)) -> Mine(t)] : \A l \in Mine(t) : \E i \in DOMAIN q : q[i] = l}

\* Mutant: the emergency stop reaches the leases of the current generation only.
RevokeTaskCurrent(t) ==
  /\ Mine(t) # {} /\ Len(audit) + Cardinality(Mine(t)) <= MaxAudit
  /\ leases' = [l \in DOMAIN leases |->
                  IF l \in Mine(t) /\ leases[l].gen = work[t]
                  THEN [leases[l] EXCEPT !.live = FALSE] ELSE leases[l]]
  /\ \E q \in Orders(t) : audit' = audit \o [i \in DOMAIN q |-> Row("revoke", q[i], t)]
  /\ UNCHANGED <<secrets, now, work, handed>>

\* revoke_task: every lease of the task, and no other.
RevokeTask(t) ==
  /\ Mine(t) # {} /\ Len(audit) + Cardinality(Mine(t)) <= MaxAudit
  /\ leases' = [l \in DOMAIN leases |->
                  IF l \in Mine(t) THEN [leases[l] EXCEPT !.live = FALSE] ELSE leases[l]]
  /\ \E q \in Orders(t) : audit' = audit \o [i \in DOMAIN q |-> Row("revoke", q[i], t)]
  /\ UNCHANGED <<secrets, now, work, handed>>

\* External: time passes, and a task's work gets a new generation.
Tick == /\ now < MaxNow /\ now' = now + 1
        /\ UNCHANGED <<secrets, leases, audit, work, handed>>

Advance(t) == /\ work[t] < MaxWork /\ work' = [work EXCEPT ![t] = @ + 1]
              /\ UNCHANGED <<secrets, leases, audit, now, handed>>

Next ==
  \/ Tick
  \/ \E r \in Refs : Register(r)
  \/ \E r \in Refs, t \in Tasks, scopes \in SUBSET Scopes, ttl \in 0..MaxTtl :
       IssueLease(r, t, scopes, ttl)
  \/ \E l \in 1..MaxLeases, t \in Tasks, gen \in 0..MaxWork, scope \in Scopes :
       Materialize(l, t, gen, scope)
  \/ \E l \in 1..MaxLeases : Revoke(l)
  \/ \E t \in Tasks : MaterializeUnknown(t) \/ RevokeTask(t) \/ Advance(t)

CredSpec == Init /\ [][Next]_credVars

-----------------------------------------------------------------------------
(* Properties                                                              *)

\* secrets/lib.rs:11-12 and revoke, revoke_task: a value leaves the broker for the
\* task and a scope of its lease, before the lease expires, and never once a
\* revocation of the lease is in the audit.
RevocationIsFinal ==
  \A h \in handed :
    /\ leases[h.lease].task = h.task /\ h.scope \in leases[h.lease].scopes
    /\ h.time < leases[h.lease].expires
    /\ \A k \in 1..h.at : audit[k].kind = "revoke" => audit[k].lease # h.lease

\* secrets/lib.rs:13-14: a caller that knows the generation of the work gets a value
\* only through a lease of that very generation.
CurrentCallersOnly ==
  \A h \in handed : h.gen = h.work => leases[h.lease].gen = h.work

\* audit: every value that left has its row, behind the row of the lease's issue,
\* and every row its value.
AuditComplete ==
  /\ \A h \in handed : /\ h.at \in DOMAIN audit
                       /\ audit[h.at] = Row("materialize", h.lease, h.task)
                       /\ \E k \in 1..h.at : audit[k] = Row("issue", h.lease, h.task)
  /\ \A i \in DOMAIN audit : audit[i].kind = "materialize" => \E h \in handed : h.at = i

\* revoke_task: the leases that lost their authority are those the audit says so of,
\* each in a row of its own task: what one task loses, no other does.
BlastRadius ==
  \A l \in DOMAIN leases :
    ~leases[l].live <=> \E k \in DOMAIN audit : audit[k] = Row("revoke", l, leases[l].task)

CredentialsSound == RevocationIsFinal /\ CurrentCallersOnly /\ AuditComplete /\ BlastRadius

\* secrets/lib.rs:13-14, "after a generation advance the old lease is fenced": whoever
\* presents it, with whatever generation.  It fails for a caller behind the advance.
OldLeasesAreFenced == \A h \in handed : leases[h.lease].gen >= h.work

=============================================================================
