---------------------------- MODULE FleetTickets ----------------------------
(***************************************************************************)
(* The coordination library of the fleet (core-runtime/fleet_admission.rs):*)
(* capacity tickets, the admission of a subagent that consumes one and     *)
(* gives it back when a later step fails, the coordinator of parallel      *)
(* writes and the attention list.                                          *)
(*                                                                         *)
(* Every call is atomic for its caller.  Callers are external: a holder of *)
(* an admission may release its ticket, release it again, or die.          *)
(***************************************************************************)
EXTENDS Naturals, Sequences, FiniteSets, SequencesExt, FiniteSetsExt

CONSTANTS Tenants,
          Children,     \* child ids; also the tasks that propose writes
          Paths,        \* paths, as sequences of characters
          WriteScope,   \* child -> prefixes of its TaskContract
          Events,       \* canonical event ids of attention items
          MaxCapacity,  \* bound: tickets of a tenant
          MaxTickets,   \* bound: tickets ever issued
          MaxWrites,    \* bound: proposed writes
          MaxItems      \* bound: items of an event

VARIABLES capacity,     \* ResourceGovernor.capacity
          active,       \* ResourceGovernor.active: per tenant, ticket numbers
          counter,      \* ResourceGovernor.counter
          admitted,     \* the admissions callers hold
          dead,         \* history: tickets of holders that died
          widest,       \* history: per tenant, its largest capacity so far
          held,         \* coordinate_writes: path -> holders
          writes,       \* the writes it has been given
          admissions,   \* and what it answered
          items,        \* AttentionManager.items: how many the list has of each event
          open          \* history: events raised and not resolved since

ticketVars == <<capacity, active, counter, admitted, dead, widest, held, writes, admissions,
                items, open>>
governorVars == <<capacity, active, counter, admitted, dead, widest>>
deskVars == <<held, writes, admissions, items, open>>

Init ==
  /\ capacity = [t \in Tenants |-> 0] /\ active = [t \in Tenants |-> <<>>] /\ counter = 0
  /\ admitted = {} /\ dead = {} /\ widest = [t \in Tenants |-> 0]
  /\ held = [p \in Paths |-> <<>>] /\ writes = <<>> /\ admissions = <<>>
  /\ items = [e \in Events |-> 0] /\ open = {}

SetCapacity(t, n) ==
  /\ capacity' = [capacity EXCEPT ![t] = n]
  /\ widest' = [widest EXCEPT ![t] = IF n > @ THEN n ELSE @]
  /\ UNCHANGED <<active, counter, admitted, dead, deskVars>>

\* consume: the number of the ticket, 0 when the tenant has no room.
Ticket(t) == IF Len(active[t]) >= capacity[t] THEN 0 ELSE counter + 1
Consumed(t) == [active EXCEPT ![t] = Append(@, counter + 1)]

\* release: the first ticket of that number, of whichever tenant.
Released(pool, n) ==
  [t \in Tenants |->
     LET at == {i \in DOMAIN pool[t] : pool[t][i] = n}
     IN  IF at = {} THEN pool[t] ELSE RemoveAt(pool[t], Min(at))]

\* Mutant: a step that fails behind the worktree keeps the ticket.
UndoneEarlyOnly(pool, n, step) == IF step = "after_ticket" THEN Released(pool, n) ELSE pool

\* The steps of admit_subagent behind the ticket: each gives it back when it fails.
Undone(pool, n, step) == Released(pool, n)

AdmitSubagent(t, child, step) ==
  /\ Ticket(t) # 0 /\ counter < MaxTickets
  /\ counter' = counter + 1
  /\ IF step = "commit"
     THEN /\ active' = Consumed(t)
          /\ admitted' = admitted \cup {[child |-> child, tenant |-> t, ticket |-> counter + 1]}
     ELSE /\ active' = Undone(Consumed(t), counter + 1, step)
          /\ UNCHANGED admitted
  /\ UNCHANGED <<capacity, dead, widest, deskVars>>

\* The holder gives its ticket back, once or again after it forgot.
Release(n) ==
  /\ active' = Released(active, n)
  /\ admitted' = {a \in admitted : a.ticket # n}
  /\ dead' = dead \ {n}
  /\ UNCHANGED <<capacity, counter, widest, deskVars>>

HolderDies(a) ==
  /\ a \in admitted
  /\ admitted' = admitted \ {a} /\ dead' = dead \cup {a.ticket}
  /\ UNCHANGED <<capacity, active, counter, widest, deskVars>>

\* enforce_contract: a prefix of the path's text, so that "a" covers "ab".
EnforceContract(child, path) == \E p \in WriteScope[child] : IsPrefix(p, path)

\* coordinate_writes, one write of its list: the first claim of a path wins.
Propose(child, path) ==
  /\ Len(writes) < MaxWrites /\ EnforceContract(child, path)
  /\ writes' = Append(writes, [task |-> child, path |-> path])
  /\ admissions' = Append(admissions,
       IF held[path] = <<>> THEN [is |-> "approved"] ELSE [is |-> "denied", holders |-> held[path]])
  /\ held' = IF held[path] = <<>> THEN [held EXCEPT ![path] = <<child>>] ELSE held
  /\ UNCHANGED <<items, open, governorVars>>

Raise(e) ==
  /\ items[e] < MaxItems
  /\ items' = [items EXCEPT ![e] = @ + 1] /\ open' = open \cup {e}
  /\ UNCHANGED <<held, writes, admissions, governorVars>>

\* AttentionManager::clear: every item of the event, raised once or more.
Clear(e) ==
  /\ items' = [items EXCEPT ![e] = 0] /\ open' = open \ {e}
  /\ UNCHANGED <<held, writes, admissions, governorVars>>

Next ==
  \/ \E t \in Tenants, n \in 0..MaxCapacity : SetCapacity(t, n)
  \/ \E t \in Tenants, c \in Children,
        step \in {"after_ticket", "after_worktree", "after_write_set", "commit"} :
       AdmitSubagent(t, c, step)
  \/ \E n \in 1..MaxTickets : Release(n)
  \/ \E a \in admitted : HolderDies(a)
  \/ \E c \in Children, p \in Paths : Propose(c, p)
  \/ \E e \in Events : Raise(e) \/ Clear(e)

TicketSpec == Init /\ [][Next]_ticketVars

-----------------------------------------------------------------------------
(* Properties                                                              *)

Pooled(t) == {active[t][i] : i \in DOMAIN active[t]}

\* REQ-EV-0267: no capacity leaks.  The tickets that count are those of admissions
\* somebody holds, or whose holder died without giving its ticket back; each counts
\* once, for the tenant it was consumed from.
NoCapacityLeak ==
  \A t \in Tenants :
    /\ Pooled(t) \ dead = {a.ticket : a \in {b \in admitted : b.tenant = t}}
    /\ Len(active[t]) = Cardinality(Pooled(t))

\* REQ-EV-0272: a tenant never has more tickets than it was ever allowed, also while
\* its capacity is lowered, and no two tenants share one.
CapacityHeld ==
  /\ \A t \in Tenants : Len(active[t]) <= widest[t]
  /\ \A t, u \in Tenants : t # u => Pooled(t) \cap Pooled(u) = {}

\* EV-0150: of the writes of a path exactly the first is approved, and the denied ones
\* are told its task.
FirstClaimWins ==
  \A i \in DOMAIN writes :
    LET same == {j \in DOMAIN writes : writes[j].path = writes[i].path}
        first == CHOOSE j \in same : \A k \in same : j <= k
    IN  admissions[i] = IF i = first THEN [is |-> "approved"]
                        ELSE [is |-> "denied", holders |-> <<writes[first].task>>]

\* REQ-EV-0151: the list holds the events that are not resolved.
AttentionCurrent == {e \in Events : items[e] > 0} = open

TicketsSound == NoCapacityLeak /\ CapacityHeld /\ FirstClaimWins /\ AttentionCurrent

=============================================================================
