---------------------------- MODULE ApprovalCourt ----------------------------
(***************************************************************************)
(* Approvals as the policy crate keeps them: ApprovalStore (approvals.rs), *)
(* records bound to the intent of a call that expire and are superseded,   *)
(* and ApprovalMediation (mediation.rs), the clients' votes on one of them.*)
(*                                                                         *)
(* The two are libraries: which calls are made, with which time, is the    *)
(* host's choice (external).  No code carries a mediation's outcome into   *)
(* the store, so none is modelled.                                         *)
(***************************************************************************)
EXTENDS Naturals, Sequences, FiniteSets, FiniteSetsExt

CONSTANTS Ids,          \* approval ids, chosen by the caller
          Intents,      \* intent hashes
          Clients,      \* clients that may vote, enrolled or not
          Policies,     \* MediationPolicy: designated clients and consensus minima
          Never,        \* no expiry; no decision yet
          MaxRecords,   \* bound: approvals requested
          MaxNow,       \* bound: the clock
          MaxVotes      \* bound: votes submitted

VARIABLES approvals,  \* ApprovalStore.approvals, in the order of the requests
          now,        \* the host's clock
          rulings,    \* history: the resolutions the store accepted
          answer,     \* history: the last has_live_approval and when it was made
          policy, enrolled, votes, resolved,  \* ApprovalMediation
          audit       \* ApprovalMediation.audit

courtVars == <<approvals, now, rulings, answer, policy, enrolled, votes, resolved, audit>>
Store == <<approvals, now, rulings, answer>>
Mediation == <<policy, enrolled, votes, resolved, audit>>

\* ApprovalMediation::open: the approval's own state is not looked at.
Init ==
  /\ approvals = <<>> /\ now = 0 /\ rulings = <<>> /\ answer = Never
  /\ policy \in Policies /\ enrolled \in SUBSET Clients
  /\ votes = <<>> /\ resolved = Never /\ audit = <<>>

-----------------------------------------------------------------------------
(* ApprovalStore                                                           *)

\* request: an id that is in use is taken once more.
Request(id, h, expires) ==
  /\ Len(approvals) < MaxRecords
  /\ approvals' = Append(approvals, [id |-> id, intent |-> h, state |-> "pending",
                                     expires |-> expires])
  /\ UNCHANGED <<now, rulings, answer, Mediation>>

Named(id) == {i \in DOMAIN approvals : approvals[i].id = id}

\* resolve: the first record of the id, while it is pending; an approved one may be
\* superseded.  Every other call is refused and changes nothing.
Resolve(id, state) ==
  /\ Named(id) # {}
  /\ LET i == Min(Named(id))
     IN  /\ \/ approvals[i].state = "pending"
            \/ approvals[i].state = "approved" /\ state = "superseded"
         /\ approvals' = [approvals EXCEPT ![i].state = state]
         /\ rulings' = Append(rulings, [record |-> i, state |-> state])
  /\ UNCHANGED <<now, answer, Mediation>>

Fresh(i, time) == approvals[i].expires = Never \/ time <= approvals[i].expires

Granted(h) == {i \in DOMAIN approvals : approvals[i].intent = h /\ approvals[i].state = "approved"}

\* has_live_approval: the scan ends at the first live record, and the stale ones it
\* has passed are expired.
HasLiveApproval(h) ==
  LET live == {i \in Granted(h) : Fresh(i, now)}
  IN  /\ approvals' = [i \in DOMAIN approvals |->
                         IF i \in Granted(h) /\ \A k \in live : i < k
                         THEN [approvals[i] EXCEPT !.state = "expired"] ELSE approvals[i]]
      /\ answer' = [intent |-> h, at |-> now, yes |-> live # {},
                    records |-> Len(approvals), rulings |-> Len(rulings)]
      /\ UNCHANGED <<now, rulings, Mediation>>

\* External: the clock.
Tick == now < MaxNow /\ now' = now + 1 /\ UNCHANGED <<approvals, rulings, answer, Mediation>>

-----------------------------------------------------------------------------
(* ApprovalMediation                                                       *)

Votes(cast, approve) == {i \in DOMAIN cast : cast[i].approve = approve}

\* recompute.
Outcome(cast) ==
  IF policy.mode = "designated"
  THEN LET own == {i \in DOMAIN cast : cast[i].client = policy.client}
       IN  IF own = {} THEN Never ELSE IF cast[Min(own)].approve THEN "approved" ELSE "denied"
  ELSE IF Votes(cast, FALSE) # {} THEN "denied"
  ELSE IF Cardinality(Votes(cast, TRUE)) >= policy.min THEN "approved"
  ELSE Never

Ballot(c, approve, model) == [kind |-> "vote", client |-> c, approve |-> approve, model |-> model]
Resolved(outcome) == [kind |-> "resolved", outcome |-> outcome]

\* submit_vote: the audit has every call; a model, a stranger and a client that voted
\* before move nothing else.
SubmitVote(c, approve, model) ==
  LET counts == ~model /\ c \in enrolled /\ \A i \in DOMAIN votes : votes[i].client # c
      cast == Append(votes, [client |-> c, approve |-> approve])
      heard == Append(audit, Ballot(c, approve, model))
  IN  /\ Cardinality({i \in DOMAIN audit : audit[i].kind = "vote"}) < MaxVotes
      /\ votes' = IF counts THEN cast ELSE votes
      /\ resolved' = IF counts THEN Outcome(cast) ELSE resolved
      /\ audit' = IF counts /\ Outcome(cast) # Never
                  THEN Append(heard, Resolved(Outcome(cast))) ELSE heard
      /\ UNCHANGED <<policy, enrolled, Store>>

Next ==
  \/ \E id \in Ids, h \in Intents, expires \in (0..MaxNow) \cup {Never} : Request(id, h, expires)
  \/ \E id \in Ids, state \in {"approved", "denied", "superseded"} : Resolve(id, state)
  \/ \E h \in Intents : HasLiveApproval(h)
  \/ Tick
  \/ \E c \in Clients, approve \in BOOLEAN, model \in BOOLEAN : SubmitVote(c, approve, model)

CourtSpec == Init /\ [][Next]_courtVars

-----------------------------------------------------------------------------
(* Properties                                                              *)

RulingsOn(i, n) == {k \in 1..n : rulings[k].record = i}

\* approvals.rs:4-6 and has_live_approval: an effect is allowed just when the last
\* word on some request for its very intent is an approval that has not expired,
\* whatever earlier lookups did to the records and however the ids collide.
LiveMeansApproved ==
  answer # Never =>
    (answer.yes <=> \E i \in 1..answer.records :
                      /\ approvals[i].intent = answer.intent /\ Fresh(i, answer.at)
                      /\ RulingsOn(i, answer.rulings) # {}
                      /\ rulings[Max(RulingsOn(i, answer.rulings))].state = "approved")

\* docs/13 and resolve: a request is decided once; what may follow is that an
\* approval is superseded.
DecidedOnce ==
  \A j, k \in DOMAIN rulings :
    (j < k /\ rulings[j].record = rulings[k].record) =>
      rulings[j].state = "approved" /\ rulings[k].state = "superseded"

\* The first stance that an enrolled client itself took, as the audit has it.
Stances(c) == {i \in DOMAIN audit : audit[i].kind = "vote" /\ audit[i].client = c /\ ~audit[i].model}
Said(approve) == {c \in enrolled : Stances(c) # {} /\ audit[Min(Stances(c))].approve = approve}

\* mediation.rs:1-6: the audit suffices to tell the outcome.  It follows from the
\* first stance of each enrolled client under the policy, in whatever order they
\* came, and from nothing a model submitted.
AuditExplainsOutcome ==
  resolved =
    IF policy.mode = "designated"
    THEN IF policy.client \in Said(TRUE) THEN "approved"
         ELSE IF policy.client \in Said(FALSE) THEN "denied" ELSE Never
    ELSE IF Said(FALSE) # {} THEN "denied"
    ELSE IF Said(TRUE) # {} /\ Cardinality(Said(TRUE)) >= policy.min THEN "approved"
    ELSE Never

\* recompute: the audit's last resolution is the one in force, and no resolution
\* follows a denial except a denial.
DenialIsFinal ==
  LET said == {i \in DOMAIN audit : audit[i].kind = "resolved"}
  IN  /\ resolved # Never <=> said # {}
      /\ said # {} => audit[Max(said)].outcome = resolved
      /\ \A i, j \in said : (i < j /\ audit[i].outcome = "denied") => audit[j].outcome = "denied"

CourtSound == LiveMeansApproved /\ DecidedOnce /\ AuditExplainsOutcome /\ DenialIsFinal

\* mediation.rs:1-2, "one canonical approval record owns state": what was resolved stays
\* so.  It fails under consensus, where a late denial turns an approval round.
ApprovalIsFinal ==
  \A i, j \in DOMAIN audit :
    (i < j /\ audit[i] = Resolved("approved")) => audit[j] # Resolved("denied")

=============================================================================
