---------------------------- MODULE RelayProofs ----------------------------
(***************************************************************************)
(* What crosses a connection.  The cloud relay, for any number of logins,  *)
(* tenants, guests and worker connections: a login gives one session, and  *)
(* a reply reaches the guest that asked, from a worker of its own tenant.  *)
(* The event stream of the headless core, for any clients, lost            *)
(* connections, crashes and torn cursor journals: which events a client    *)
(* gets, and which it may miss. The local transport, the engines of the    *)
(* automations over one store, the handoff of a workspace to the cloud,    *)
(* and the DevTools socket of a task's browser.                            *)
(***************************************************************************)
EXTENDS CloudRelay, Integers, Sequences, SequenceTheorems, WellFoundedInduction, TLAPS

Wires == [guest : Guests, bad : BOOLEAN]

\* Nobody and Expired stand for the absence of a session, connection, guest, tenant or
\* frame (None in the code), so they are none of these.
RelayIds ==
  /\ Nobody \notin Logins \cup Conns \cup Guests \cup Tenants \cup Wires
  /\ Expired \notin Logins \cup {Nobody}

Threads == [at : {"idle", "asked", "lock", "await", "failed"}, as : Logins \cup {Nobody},
            to : Conns \cup {Nobody}]

Workers == [tenant : Tenants \cup {Nobody}, up : BOOLEAN, req : Wires \cup {Nobody},
            rsp : Wires \cup {Nobody}]

-----------------------------------------------------------------------------
(***************************************************************************)
(* Logins.  A login that has, or had, a session is spent: its state is no  *)
(* longer among the pending ones a callback may take.                      *)
(***************************************************************************)
LoginInv ==
  /\ login \in [Logins -> {"fresh", "pending", "spent"}]
  /\ session \in [Logins -> Logins \cup {Nobody, Expired}]
  /\ \A l \in Logins : session[l] # Nobody => login[l] = "spent"

LEMMA LoginStep ==
  ASSUME RelayIds, LoginInv, [RelayNext]_relayVars
  PROVE  /\ LoginInv'
         /\ \A l \in Logins : session[l] # Nobody => session'[l] \in {session[l], Expired}
<1>1. CASE UNCHANGED <<login, session>>
  BY <1>1 DEF LoginInv
<1>2. ASSUME NEW l \in Logins, Login(l) \/ Authorize(l) \/ Expire(l)
      PROVE  /\ LoginInv'
             /\ \A k \in Logins : session[k] # Nobody => session'[k] \in {session[k], Expired}
  BY <1>2 DEF Login, Authorize, Expire, LoginInv, RelayIds
<1>3. ASSUME NEW of \in Logins, NEW l \in Logins, Callback(of, l)
      PROVE  /\ LoginInv'
             /\ \A k \in Logins : session[k] # Nobody => session'[k] \in {session[k], Expired}
  BY <1>3 DEF Callback, LoginInv
<1>4. ASSUME NEW c \in Conns,
             \/ \E t \in Tenants : Register(c, t)
             \/ Serve(c) \/ Skip(c) \/ Die(c)
      PROVE  UNCHANGED <<login, session>>
  BY <1>4 DEF Register, Serve, Skip, Die, api
<1>5. ASSUME NEW g \in Guests,
             \/ \E l \in Logins : Control(g, l) \/ \E parses \in BOOLEAN : Checkpoint(g, l, parses)
             \/ \E t \in Tenants : CrossTenant(g, t)
             \/ Thread(g)
      PROVE  UNCHANGED <<login, session>>
  BY <1>5
     DEF Control, Checkpoint, CrossTenant, Thread, NoWorker, Lookup, Send, Receive, Broken,
         Unlease, api
<1> QED
  BY <1>1, <1>2, <1>3, <1>4, <1>5 DEF RelayNext, relayVars

LEMMA LoginsAlways == ASSUME RelayIds PROVE RelaySpec => []LoginInv
<1>1. RelayInit => LoginInv
  BY DEF RelayInit, LoginInv
<1>2. LoginInv /\ [RelayNext]_relayVars => LoginInv'
  BY LoginStep
<1> QED
  BY <1>1, <1>2, PTL DEF RelaySpec

\* A login gives at most one session, for any number of logins, whatever callbacks are
\* repeated, or come with the code of another login.
THEOREM OneSessionPerLogin == ASSUME RelayIds PROVE RelaySpec => LoginsAreSingleUse
<1>1. LoginInv /\ [RelayNext]_relayVars =>
        [\A l \in Logins : session[l] # Nobody => session'[l] \in {session[l], Expired}]_relayVars
  BY LoginStep
<1> QED
  BY <1>1, LoginsAlways, PTL DEF RelaySpec, LoginsAreSingleUse

-----------------------------------------------------------------------------
(***************************************************************************)
(* Replies.  The mutex of a worker is held by the one thread that awaits   *)
(* its reply, what is on the wire is that thread's request or the reply to *)
(* it, and a connection serves one tenant for life: so the tenant a thread *)
(* found in the lease is still the worker's when the reply comes, whoever  *)
(* has taken the lease over meanwhile.                                     *)
(***************************************************************************)
RelayTypes ==
  /\ lease \in [Tenants -> Conns \cup {Nobody}]
  /\ lock \in [Conns -> Guests \cup {Nobody}]
  /\ guest \in [Guests -> Threads]
  /\ worker \in [Conns -> Workers]
  /\ got \in [Guests -> {Nobody, Error} \cup [reply : Guests, by : Conns, as : Logins]]

\* A thread acts for a login, and its worker for that login's tenant.
ThreadsSound ==
  \A g \in Guests :
    /\ guest[g].at # "idle" => guest[g].as \in Logins
    /\ guest[g].at \in {"lock", "await", "failed"} =>
         guest[g].to \in Conns /\ worker[guest[g].to].tenant = TenantOf[guest[g].as]

LeasesSound == \A t \in Tenants : lease[t] # Nobody => worker[lease[t]].tenant = t

LocksSound == \A c \in Conns, g \in Guests : lock[c] = g <=> guest[g].at = "await" /\ guest[g].to = c

WiresSound ==
  \A c \in Conns :
    /\ worker[c].req # Nobody => worker[c].up /\ worker[c].rsp = Nobody /\ lock[c] = worker[c].req.guest
    /\ worker[c].rsp # Nobody => worker[c].up /\ lock[c] = worker[c].rsp.guest

RelayInv ==
  RelayTypes /\ ThreadsSound /\ LeasesSound /\ LocksSound /\ WiresSound /\ RepliesBelong

LEMMA TenantsKnown == \A l \in Logins : TenantOf[l] \in Tenants
BY DEF Tenants

\* Steps of workers: the tenant of a connection is set once.
LEMMA WorkerStep ==
  ASSUME RelayIds, RelayInv, NEW c \in Conns, NEW w \in Workers,
         worker' = [worker EXCEPT ![c] = w],
         worker[c].tenant # Nobody => w.tenant = worker[c].tenant,
         UNCHANGED <<lock, guest, got>>,
         \/ UNCHANGED lease
         \/ lease' = [lease EXCEPT ![w.tenant] = c] /\ w.tenant \in Tenants,
         /\ w.req # Nobody => w.up /\ w.rsp = Nobody /\ lock[c] = w.req.guest
         /\ w.rsp # Nobody => w.up /\ lock[c] = w.rsp.guest
  PROVE  RelayInv'
<1> USE DEF RelayInv
<1>1. worker'[c] = w /\ \A d \in Conns \ {c} : worker'[d] = worker[d]
  BY DEF RelayTypes
<1>2. \A d \in Conns : worker[d].tenant # Nobody => worker'[d].tenant = worker[d].tenant
  BY <1>1
<1>3. RelayTypes'
  BY DEF RelayTypes
<1>4. ThreadsSound'
  BY <1>2, TenantsKnown DEF ThreadsSound, RelayIds
<1>5. LeasesSound'
  BY <1>1, <1>2 DEF LeasesSound, RelayIds, RelayTypes
<1>6. LocksSound'
  BY DEF LocksSound
<1>7. WiresSound'
  BY <1>1 DEF WiresSound
<1>8. RepliesBelong'
  BY <1>2, TenantsKnown DEF RepliesBelong, RelayIds, RelayTypes
<1> QED
  BY <1>3, <1>4, <1>5, <1>6, <1>7, <1>8

\* Steps of a guest's thread outside the mutex.
LEMMA GuestStep ==
  ASSUME RelayIds, RelayInv, NEW g \in Guests, NEW n \in Threads,
         guest' = [guest EXCEPT ![g] = n], guest[g].at # "await", n.at # "await",
         n.at # "idle" => n.as \in Logins,
         n.at \in {"lock", "failed"} => n.to \in Conns /\ worker[n.to].tenant = TenantOf[n.as],
         UNCHANGED <<lock, worker>>, got' = got \/ got' = [got EXCEPT ![g] = Error],
         lease' = lease \/ \E t : lease' = [lease EXCEPT ![t] = Nobody]
  PROVE  RelayInv'
<1> USE DEF RelayInv
<1>1. guest'[g] = n /\ \A h \in Guests \ {g} : guest'[h] = guest[h]
  BY DEF RelayTypes
<1>2. RelayTypes'
  BY DEF RelayTypes
<1>3. ThreadsSound'
  BY <1>1 DEF ThreadsSound
<1>4. LeasesSound'
  BY DEF LeasesSound, RelayTypes
<1>5. LocksSound'
  BY <1>1 DEF LocksSound
<1>6. WiresSound'
  BY DEF WiresSound
<1>7. RepliesBelong'
  BY DEF RepliesBelong, RelayTypes
<1> QED
  BY <1>2, <1>3, <1>4, <1>5, <1>6, <1>7

\* The thread takes the mutex and its frame is on the wire.
LEMMA SendStep ==
  ASSUME RelayIds, RelayInv, NEW g \in Guests, NEW bad \in BOOLEAN, Send(g, bad)
  PROVE  RelayInv'
<1> DEFINE c == guest[g].to
<1>1. guest[g] \in Threads /\ guest[g].at = "lock" /\ c \in Conns /\ guest[g].as \in Logins
  BY DEF Send, At, RelayInv, RelayTypes, ThreadsSound
<1>2. CASE ~worker[c].up
  <2> DEFINE n == [guest[g] EXCEPT !.at = "failed"]
  <2>1. n \in Threads /\ n.at = "failed" /\ n.as = guest[g].as /\ n.to = c
    BY <1>1 DEF Threads
  <2>2. guest' = [guest EXCEPT ![g] = n] /\ UNCHANGED <<lease, lock, worker, got>>
    BY <1>2 DEF Send
  <2>3. worker[c].tenant = TenantOf[guest[g].as]
    BY <1>1 DEF RelayInv, ThreadsSound
  <2> QED
    BY <1>1, <2>1, <2>2, <2>3, GuestStep
<1>3. CASE worker[c].up
  <2> DEFINE n == [guest[g] EXCEPT !.at = "await"]
             w == [worker[c] EXCEPT !.req = [guest |-> g, bad |-> bad]]
  <2> USE DEF RelayInv
  <2>1. n \in Threads /\ n.at = "await" /\ n.as = guest[g].as /\ n.to = c
    BY <1>1 DEF Threads
  <2>2. worker[c] \in Workers /\ worker[c].up /\ lock[c] = Nobody
    BY <1>1, <1>3 DEF RelayTypes, Send
  <2>3. worker[c].req = Nobody /\ worker[c].rsp = Nobody
    BY <1>1, <2>2 DEF WiresSound, RelayIds, Workers, Wires
  <2>4. [guest |-> g, bad |-> bad] \in Wires
    BY DEF Wires
  <2>5. /\ w \in Workers /\ w.req.guest = g /\ w.rsp = Nobody /\ w.up
        /\ w.tenant = worker[c].tenant
    BY <2>2, <2>3, <2>4 DEF Workers
  <2>6. /\ guest' = [guest EXCEPT ![g] = n] /\ worker' = [worker EXCEPT ![c] = w]
        /\ lock' = [lock EXCEPT ![c] = g] /\ UNCHANGED <<lease, got>>
    BY <1>3 DEF Send
  <2> HIDE DEF n, w
  <2>7. /\ guest'[g] = n /\ \A h \in Guests \ {g} : guest'[h] = guest[h]
        /\ worker'[c] = w /\ \A d \in Conns \ {c} : worker'[d] = worker[d]
        /\ lock'[c] = g /\ \A d \in Conns \ {c} : lock'[d] = lock[d]
    BY <1>1, <2>6 DEF RelayTypes
  <2>8. \A d \in Conns : worker'[d].tenant = worker[d].tenant
    BY <2>5, <2>7
  <2>9. RelayTypes'
    BY <1>1, <2>1, <2>5, <2>6 DEF RelayTypes
  <2>10. ThreadsSound'
    BY <1>1, <2>1, <2>7, <2>8 DEF ThreadsSound
  <2>11. LeasesSound'
    BY <2>6, <2>8 DEF LeasesSound, RelayTypes
  <2>12. LocksSound'
    BY <1>1, <2>1, <2>2, <2>7 DEF LocksSound, RelayIds
  <2>13. WiresSound'
    BY <2>5, <2>7 DEF WiresSound
  <2>14. RepliesBelong'
    BY <2>6, <2>8 DEF RepliesBelong, RelayTypes
  <2> QED
    BY <2>9, <2>10, <2>11, <2>12, <2>13, <2>14
<1> QED
  BY <1>2, <1>3

\* The thread leaves the mutex, with the reply or without.
LEMMA LeaveStep ==
  ASSUME RelayIds, RelayInv, NEW g \in Guests, guest[g].at = "await",
         worker[guest[g].to].req = Nobody,
         lock' = [lock EXCEPT ![guest[g].to] = Nobody], UNCHANGED lease,
         NEW n \in Threads, guest' = [guest EXCEPT ![g] = n], n.at \in {"idle", "failed"},
         n.at = "failed" => n.as = guest[g].as /\ n.to = guest[g].to,
         NEW w \in Workers, worker' = [worker EXCEPT ![guest[g].to] = w],
         w.tenant = worker[guest[g].to].tenant, w.req = Nobody, w.rsp = Nobody,
         \/ UNCHANGED got
         \/ got' = [got EXCEPT ![g] = [reply |-> g, by |-> guest[g].to, as |-> guest[g].as]]
  PROVE  RelayInv'
<1> USE DEF RelayInv
<1> DEFINE c == guest[g].to
<1>1. c \in Conns /\ guest[g].as \in Logins /\ lock[c] = g
  BY DEF ThreadsSound, LocksSound
<1>2. worker[c].tenant = TenantOf[guest[g].as]
  BY DEF ThreadsSound
<1> HIDE DEF c
<1>3. /\ guest'[g] = n /\ \A h \in Guests \ {g} : guest'[h] = guest[h]
      /\ worker'[c] = w /\ \A d \in Conns \ {c} : worker'[d] = worker[d]
      /\ lock'[c] = Nobody /\ \A d \in Conns \ {c} : lock'[d] = lock[d]
  BY <1>1 DEF RelayTypes, c
<1>4. \A d \in Conns : worker'[d].tenant = worker[d].tenant
  BY <1>1, <1>3 DEF c
<1>5. RelayTypes'
  <2>1. [reply |-> g, by |-> c, as |-> guest[g].as] \in [reply : Guests, by : Conns, as : Logins]
    BY <1>1
  <2> QED
    BY <1>1, <2>1 DEF RelayTypes, c
<1>6. ThreadsSound'
  BY <1>1, <1>2, <1>3, <1>4 DEF ThreadsSound, c
<1>7. LeasesSound'
  BY <1>4 DEF LeasesSound, RelayTypes
<1>8. LocksSound'
  BY <1>1, <1>3 DEF LocksSound, RelayIds, c
<1>9. WiresSound'
  BY <1>1, <1>3 DEF WiresSound
<1>10. RepliesBelong'
  <2>1. CASE UNCHANGED got
    BY <1>4, <2>1 DEF RepliesBelong, RelayTypes
  <2>2. CASE got' = [got EXCEPT ![g] = [reply |-> g, by |-> c, as |-> guest[g].as]]
    BY <1>1, <1>2, <1>4, <2>2 DEF RepliesBelong, RelayTypes
  <2> QED
    BY <2>1, <2>2 DEF c
<1> QED
  BY <1>5, <1>6, <1>7, <1>8, <1>9, <1>10

LEMMA ThreadStep ==
  ASSUME RelayIds, RelayInv, NEW g \in Guests, Thread(g) \/ \E t \in Tenants : CrossTenant(g, t)
  PROVE  RelayInv'
<1>0. guest[g] \in Threads /\ Idle \in Threads /\ Idle.at = "idle"
  BY DEF RelayInv, RelayTypes, Threads, Idle
<1>1. CASE \E t \in Tenants : CrossTenant(g, t)
  BY <1>0, <1>1, GuestStep DEF CrossTenant, Told, At
<1>2. CASE Lookup(g)
  <2> DEFINE n == [guest[g] EXCEPT !.at = "lock", !.to = lease[Tenant(g)]]
  <2>1. guest[g].at = "asked" /\ guest[g].as \in Logins
    BY <1>2 DEF Lookup, At, RelayInv, ThreadsSound
  <2>2. /\ Tenant(g) = TenantOf[guest[g].as] /\ Tenant(g) \in Tenants
        /\ lease[Tenant(g)] \in Conns /\ worker[lease[Tenant(g)]].tenant = Tenant(g)
    BY <1>2, <2>1, TenantsKnown DEF Lookup, Tenant, RelayInv, RelayTypes, LeasesSound
  <2>3. /\ n \in Threads /\ n.at = "lock" /\ n.as = guest[g].as /\ n.to = lease[Tenant(g)]
    BY <1>0, <2>2 DEF Threads
  <2>4. guest' = [guest EXCEPT ![g] = n] /\ UNCHANGED <<lease, lock, worker, got>>
    BY <1>2 DEF Lookup, RelayInv, RelayTypes
  <2> HIDE DEF n
  <2> QED
    BY <2>1, <2>2, <2>3, <2>4, GuestStep
<1>3. CASE Broken(g)
  <2> DEFINE c == guest[g].to
             n == [guest[g] EXCEPT !.at = "failed"]
  <2>1. /\ guest[g].at = "await" /\ c \in Conns /\ worker[c] \in Workers /\ worker[c].rsp = Nobody
        /\ worker[c].req = Nobody
    BY <1>3 DEF Broken, At, RelayInv, RelayTypes, ThreadsSound, WiresSound
  <2>2. n \in Threads /\ n.at = "failed" /\ n.as = guest[g].as /\ n.to = c
    BY <1>0 DEF Threads
  <2>3. /\ guest' = [guest EXCEPT ![g] = n] /\ lock' = [lock EXCEPT ![c] = Nobody]
        /\ UNCHANGED <<lease, worker, got>>
    BY <1>3 DEF Broken
  <2>4. worker' = [worker EXCEPT ![c] = worker[c]]
    BY <2>1, <2>3 DEF RelayInv, RelayTypes
  <2> HIDE DEF n
  <2> QED
    BY <2>1, <2>2, <2>3, <2>4, LeaveStep
<1>4. CASE Receive(g)
  <2> DEFINE c == guest[g].to
             w == [worker[c] EXCEPT !.rsp = Nobody]
  <2>1. /\ guest[g].at = "await" /\ c \in Conns /\ worker[c] \in Workers /\ worker[c].rsp # Nobody
    BY <1>4 DEF Receive, At, RelayInv, RelayTypes, ThreadsSound
  <2>2. worker[c].req = Nobody /\ worker[c].rsp.guest = g
    BY <2>1 DEF RelayInv, WiresSound, LocksSound
  <2>3. w \in Workers /\ w.rsp = Nobody /\ w.req = Nobody /\ w.tenant = worker[c].tenant
    BY <2>1, <2>2 DEF Workers
  <2>4. /\ worker' = [worker EXCEPT ![c] = w] /\ lock' = [lock EXCEPT ![c] = Nobody]
        /\ guest' = [guest EXCEPT ![g] = Idle] /\ lease' = lease
        /\ got' = [got EXCEPT ![g] = [reply |-> g, by |-> c, as |-> guest[g].as]]
    BY <1>4, <2>2 DEF Receive, Told
  <2> HIDE DEF w
  <2> QED
    BY <1>0, <2>1, <2>2, <2>3, <2>4, LeaveStep
<1>5. CASE \E bad \in BOOLEAN : Send(g, bad)
  BY <1>5, SendStep
<1>6. CASE NoWorker(g) \/ Unlease(g)
  BY <1>0, <1>6, GuestStep DEF NoWorker, Unlease, Told, At
<1> QED
  BY <1>1, <1>2, <1>3, <1>4, <1>5, <1>6 DEF Thread

LEMMA RelayStep ==
  ASSUME RelayIds, LoginInv, RelayInv, [RelayNext]_relayVars
  PROVE  RelayInv'
<1>1. CASE UNCHANGED gateway
  BY <1>1 DEF gateway, RelayInv, RelayTypes, ThreadsSound, LeasesSound, LocksSound, WiresSound,
              RepliesBelong
<1>2. ASSUME NEW c \in Conns, NEW t \in Tenants, Register(c, t) PROVE RelayInv'
  <2> DEFINE w == [tenant |-> t, up |-> TRUE, req |-> Nobody, rsp |-> Nobody]
  <2>1. w \in Workers /\ w.tenant = t /\ w.req = Nobody /\ w.rsp = Nobody
    BY DEF Workers
  <2>2. worker[c].tenant = Nobody /\ worker' = [worker EXCEPT ![c] = w]
    BY <1>2 DEF Register
  <2>3. lease' = [lease EXCEPT ![t] = c] /\ UNCHANGED <<lock, guest, got>>
    BY <1>2 DEF Register
  <2> HIDE DEF w
  <2> QED
    BY <2>1, <2>2, <2>3, WorkerStep
<1>3. ASSUME NEW c \in Conns, Serve(c) \/ Skip(c) \/ Die(c) PROVE RelayInv'
  <2>1. /\ worker[c] \in Workers
        /\ worker[c].req # Nobody =>
             worker[c].up /\ worker[c].rsp = Nobody /\ lock[c] = worker[c].req.guest
        /\ worker[c].rsp # Nobody => worker[c].up /\ lock[c] = worker[c].rsp.guest
    BY DEF RelayInv, RelayTypes, WiresSound
  <2>2. CASE Serve(c)
    <3> DEFINE w == [worker[c] EXCEPT !.req = Nobody, !.rsp = worker[c].req]
    <3>1. /\ w \in Workers /\ w.tenant = worker[c].tenant /\ w.req = Nobody
          /\ w.rsp = worker[c].req /\ w.up = worker[c].up
      BY <2>1 DEF Workers
    <3>2. worker' = [worker EXCEPT ![c] = w] /\ UNCHANGED <<lease, lock, guest, got>>
      BY <2>2 DEF Serve, RelayInv, RelayTypes
    <3> HIDE DEF w
    <3> QED
      BY <2>1, <3>1, <3>2, WorkerStep
  <2>3. CASE Skip(c)
    <3> DEFINE w == [worker[c] EXCEPT !.req = Nobody]
    <3>1. /\ w \in Workers /\ w.tenant = worker[c].tenant /\ w.req = Nobody
          /\ w.rsp = worker[c].rsp /\ w.up = worker[c].up
      BY <2>1 DEF Workers
    <3>2. worker' = [worker EXCEPT ![c] = w] /\ UNCHANGED <<lease, lock, guest, got>>
      BY <2>3 DEF Skip
    <3> HIDE DEF w
    <3> QED
      BY <2>1, <3>1, <3>2, WorkerStep
  <2>4. CASE Die(c)
    <3> DEFINE w == [worker[c] EXCEPT !.up = FALSE, !.req = Nobody, !.rsp = Nobody]
    <3>1. /\ w \in Workers /\ w.tenant = worker[c].tenant /\ w.req = Nobody
          /\ w.rsp = Nobody
      BY <2>1 DEF Workers
    <3>2. worker' = [worker EXCEPT ![c] = w] /\ UNCHANGED <<lease, lock, guest, got>>
      BY <2>4 DEF Die
    <3> HIDE DEF w
    <3> QED
      BY <2>1, <3>1, <3>2, WorkerStep
  <2> QED
    BY <1>3, <2>2, <2>3, <2>4
<1>4. ASSUME NEW g \in Guests, NEW l \in Logins,
             Control(g, l) \/ \E parses \in BOOLEAN : Checkpoint(g, l, parses)
      PROVE  RelayInv'
  <2> DEFINE n == [at |-> "asked", as |-> session[l], to |-> Nobody]
  <2>1. session[l] \in Logins /\ guest[g].at = "idle"
    BY <1>4 DEF Control, Checkpoint, VerifySession, At
  <2>2. n \in Threads /\ n.at = "asked" /\ n.as \in Logins
    BY <2>1 DEF Threads
  <2>3. UNCHANGED <<lease, lock, worker>>
    BY <1>4 DEF Control, Checkpoint
  <2>4. CASE guest' = [guest EXCEPT ![g] = n] /\ UNCHANGED got
    <3> HIDE DEF n
    <3> QED
      BY <2>1, <2>2, <2>3, <2>4, GuestStep
  <2>5. CASE Told(g, Error)
    <3>1. Idle \in Threads /\ Idle.at = "idle"
      BY DEF Threads, Idle
    <3> QED
      BY <2>1, <2>3, <2>5, <3>1, GuestStep DEF Told
  <2> QED
    BY <1>4, <2>4, <2>5 DEF Control, Checkpoint, Relay
<1>5. ASSUME NEW l \in Logins, Login(l) \/ Authorize(l) \/ Expire(l) PROVE UNCHANGED gateway
  BY <1>5 DEF Login, Authorize, Expire
<1>6. ASSUME NEW of \in Logins, NEW l \in Logins, Callback(of, l) PROVE UNCHANGED gateway
  BY <1>6 DEF Callback
<1>7. CASE UNCHANGED relayVars
  BY <1>1, <1>7 DEF relayVars, gateway
<1> QED
  BY <1>1, <1>2, <1>3, <1>4, <1>5, <1>6, <1>7, ThreadStep DEF RelayNext

\* A caller receives the reply to its own request, from a worker that registered for the
\* tenant of the login it acts for, for any number of callers and workers, however
\* workers die, take leases over or share a connection between callers.
THEOREM RepliesReachTheirCaller == ASSUME RelayIds PROVE RelaySpec => []RepliesBelong
<1>1. RelayInit => RelayInv
  <2> SUFFICES ASSUME RelayInit PROVE RelayInv
    OBVIOUS
  <2>1. RelayTypes
    BY DEF RelayInit, RelayTypes, Threads, Workers, Idle
  <2>2. \A g \in Guests : guest[g].at = "idle"
    BY DEF RelayInit, Idle
  <2>3. ThreadsSound /\ LeasesSound /\ RepliesBelong
    BY <2>2 DEF RelayInit, ThreadsSound, LeasesSound, RepliesBelong
  <2>4. LocksSound /\ WiresSound
    BY <2>2 DEF RelayInit, LocksSound, WiresSound, RelayIds
  <2> QED
    BY <2>1, <2>3, <2>4 DEF RelayInv
<1>2. LoginInv /\ RelayInv /\ [RelayNext]_relayVars => RelayInv'
  BY RelayStep
<1>3. RelayInv => RepliesBelong
  BY DEF RelayInv, RepliesBelong
<1> QED
  BY <1>1, <1>2, <1>3, LoginsAlways, PTL DEF RelaySpec

-----------------------------------------------------------------------------
(***************************************************************************)
(* The event stream (EventDaemon).                                         *)
(***************************************************************************)
CONSTANTS Keepers, Named, Batch, MaxLog, MaxFaults

VARIABLES log, feed, pipe, read, lines, mem, faults, sent, spilled

Stream == INSTANCE EventDaemon WITH got <- read

Subscribers == Keepers \cup Named

StreamAssumptions == Batch \in Nat

In(j, q) == \E i \in 1..Len(q) : q[i] = j

\* A client's thread f, pipe p and events g, the newest event s that was written to it
\* and those sp that were on the wire of a lost connection.  The pipe has the events up
\* to the thread's offset; whatever was written is in g, on the wire or spilled, and
\* what is only on the wire is beyond all of g.
ClientOK(f, p, g, s, sp) ==
  /\ f.at = "closed" => Len(p) = 0
  /\ f.at # "closed" => /\ f.since <= s /\ Len(p) <= f.since
                        /\ \A i \in 1..Len(p) : p[i] = f.since - Len(p) + i
  /\ \A i \in 1..Len(g) : g[i] \in 1..s
  /\ \A j \in 1..s : In(j, g) \/ j \in sp \/ In(j, p)
  /\ \A j \in Nat : In(j, p) => In(j, g) \/ j \in sp \/ \A i \in 1..Len(g) : g[i] < j

\* A client that passes its own offset.
KeeperOK(f, p, g) ==
  /\ \A i \in 1..Len(g) : g[i] = i
  /\ f.at # "closed" => f.since = Len(g) + Len(p)

Feeds == [at : {"closed", "poll", "persist"}, since : Nat]
Lines == [kind : {"record", "torn", "garbled"}, client : Subscribers \cup {""}, offset : Nat]

\* No cursor is beyond what was written.
CursorOK(l, s) == l.kind = "record" => l.client \in Subscribers /\ l.offset <= s[l.client]

Journal(file, s) == file \in Seq(Lines) /\ \A i \in 1..Len(file) : CursorOK(file[i], s)

Memory(m, s) ==
  /\ m \in [ok : BOOLEAN, records : Seq(Lines)]
  /\ \A i \in 1..Len(m.records) : m.records[i].kind = "record" /\ CursorOK(m.records[i], s)

StreamTypes ==
  /\ log \in Nat /\ feed \in [Subscribers -> Feeds]
  /\ pipe \in [Subscribers -> Seq(Nat)] /\ read \in [Subscribers -> Seq(Nat)]
  /\ sent \in [Subscribers -> Nat] /\ spilled \in [Subscribers -> SUBSET Nat]

StreamInv ==
  /\ StreamTypes
  /\ \A c \in Subscribers : ClientOK(feed[c], pipe[c], read[c], sent[c], spilled[c])
  /\ \A c \in Keepers : KeeperOK(feed[c], pipe[c], read[c])
  /\ Journal(lines, sent) /\ Memory(mem, sent)

LEMMA SameRange ==
  ASSUME NEW m \in Nat, NEW k \in Nat, 1..m = 1..k PROVE m = k
<1>1. m \in 1..m \/ m = 0
  OBVIOUS
<1>2. k \in 1..k \/ k = 0
  OBVIOUS
<1>3. (m \in 1..k \/ m = 0) /\ (k \in 1..m \/ k = 0)
  BY <1>1, <1>2
<1> QED
  BY <1>3

LEMMA PolledOK ==
  ASSUME NEW f \in Feeds, NEW p \in Seq(Nat), NEW g \in Seq(Nat), NEW s \in Nat,
         NEW sp \in SUBSET Nat, ClientOK(f, p, g, s, sp), f.at = "poll",
         NEW n \in Nat, f.since <= n
  PROVE  LET q == p \o [i \in 1..(n - f.since) |-> f.since + i]
             h == [at |-> "persist", since |-> n]
         IN  /\ q \in Seq(Nat) /\ h \in Feeds /\ Len(q) = Len(p) + n - f.since
             /\ ClientOK(h, q, g, IF n > s THEN n ELSE s, sp)
<1> DEFINE k == n - f.since
           b == f.since
           e == [i \in 1..k |-> b + i]
           q == p \o e
           h == [at |-> "persist", since |-> n]
           t == IF n > s THEN n ELSE s
<1>0. b \in Nat /\ k \in Nat /\ n = b + k /\ Len(p) \in Nat /\ Len(g) \in Nat
  BY DEF Feeds
<1>1. e \in Seq(Nat) /\ Len(e) = k
  <2>1. e \in [1..k -> Nat]
    BY <1>0
  <2>2. e \in Seq(Nat)
    <3> HIDE DEF e, k
    <3> QED
      BY <2>1, <1>0, SeqDef
  <2>3. Len(e) \in Nat /\ DOMAIN e = 1..Len(e)
    <3> HIDE DEF e, k
    <3> QED
      BY <2>2, LenProperties
  <2>4. DOMAIN e = 1..k
    OBVIOUS
  <2>5. Len(e) = k
    <3> HIDE DEF e, k
    <3> QED
      BY <2>3, <2>4, <1>0, SameRange
  <2> QED
    BY <2>2, <2>5
<1>2. \A i \in 1..k : e[i] = b + i
  OBVIOUS
<1>3. h \in Feeds /\ h.at = "persist" /\ h.since = n
  BY DEF Feeds
<1> HIDE DEF k, b, e, h
<1>4. /\ q \in Seq(Nat) /\ Len(q) = Len(p) + k
      /\ \A i \in 1..(Len(p) + k) : q[i] = IF i <= Len(p) THEN p[i] ELSE e[i - Len(p)]
  BY <1>0, <1>1, ConcatProperties
<1> HIDE DEF q
<1>5. b <= s /\ Len(p) <= b /\ \A i \in 1..Len(p) : p[i] = b - Len(p) + i
  BY DEF ClientOK, b
<1>6. ASSUME NEW i \in 1..Len(q) PROVE q[i] = n - Len(q) + i
  <2>1. CASE i <= Len(p)
    <3>1. i \in 1..Len(p) /\ i \in 1..(Len(p) + k)
      BY <2>1, <1>0, <1>4
    <3>2. q[i] = p[i] /\ p[i] = b - Len(p) + i
      BY <3>1, <2>1, <1>4, <1>5
    <3> QED
      BY <3>1, <3>2, <1>0, <1>4
  <2>2. CASE ~(i <= Len(p))
    <3>1. i - Len(p) \in 1..k
      BY <2>2, <1>0, <1>4
    <3>2. e[i - Len(p)] = b + (i - Len(p))
      BY <3>1, <1>2
    <3> QED
      BY <3>1, <3>2, <2>2, <1>0, <1>4
  <2> QED
    BY <2>1, <2>2
<1>7. n <= t /\ s <= t /\ t \in Nat /\ Len(q) <= n
  BY <1>0, <1>4, <1>5
<1>8. \A i \in 1..Len(g) : g[i] \in 1..s /\ g[i] \in 1..t
  BY <1>7 DEF ClientOK
<1>9. ASSUME NEW j \in Nat
      PROVE  In(j, q) <=> In(j, p) \/ (b < j /\ j <= n)
  <2>1. ASSUME NEW i \in 1..Len(p), p[i] = j PROVE In(j, q)
    <3>1. i \in 1..Len(q) /\ i \in 1..(Len(p) + k) /\ i <= Len(p)
      BY <1>0, <1>4
    <3>2. q[i] = j
      BY <3>1, <2>1, <1>4
    <3> QED
      BY <3>1, <3>2 DEF In
  <2>2. ASSUME b < j, j <= n PROVE In(j, q)
    <3>1. j - b + Len(p) \in 1..Len(q)
      BY <2>2, <1>0, <1>4
    <3>2. q[j - b + Len(p)] = j
      BY <3>1, <1>0, <1>4, <1>6
    <3> QED
      BY <3>1, <3>2 DEF In
  <2>3. ASSUME NEW i \in 1..Len(q), q[i] = j PROVE In(j, p) \/ (b < j /\ j <= n)
    <3>1. CASE i <= Len(p)
      <4>1. i \in 1..Len(p) /\ p[i] = j
        BY <3>1, <2>3, <1>0, <1>4
      <4> QED
        BY <4>1 DEF In
    <3>2. CASE ~(i <= Len(p))
      BY <3>2, <2>3, <1>0, <1>4, <1>6
    <3> QED
      BY <3>1, <3>2
  <2> QED
    BY <2>1, <2>2, <2>3 DEF In
<1>10. ASSUME NEW j \in 1..t PROVE In(j, g) \/ j \in sp \/ In(j, q)
  <2>1. CASE j <= s
    BY <2>1, <1>9 DEF ClientOK
  <2>2. CASE ~(j <= s)
    <3>1. b < j /\ j <= n /\ j \in Nat
      BY <2>2, <1>0, <1>5, <1>7
    <3> QED
      BY <3>1, <1>9
  <2> QED
    BY <2>1, <2>2
<1>11. ASSUME NEW j \in Nat, In(j, q)
       PROVE  In(j, g) \/ j \in sp \/ \A i \in 1..Len(g) : g[i] < j
  <2>1. CASE In(j, p)
    BY <2>1 DEF ClientOK
  <2>2. CASE ~In(j, p)
    <3>1. b < j /\ j <= n
      BY <2>2, <1>9, <1>11
    <3>2. CASE j <= s
      <4>1. j \in 1..s
        BY <3>1, <3>2, <1>0
      <4> QED
        BY <4>1, <2>2 DEF ClientOK
    <3>3. CASE ~(j <= s)
      <4>1. ASSUME NEW i \in 1..Len(g) PROVE g[i] < j
        <5>1. g[i] \in 1..s
          BY <1>8
        <5> QED
          BY <5>1, <3>3
      <4> QED
        BY <4>1
    <3> QED
      BY <3>2, <3>3
  <2> QED
    BY <2>1, <2>2
<1>12. ClientOK(h, q, g, t, sp)
  BY <1>3, <1>6, <1>7, <1>8, <1>10, <1>11 DEF ClientOK
<1> QED
  BY <1>0, <1>3, <1>4, <1>12 DEF q, h, e, b, k

\* One event is read from the wire.
LEMMA ReadOK ==
  ASSUME NEW f \in Feeds, NEW p \in Seq(Nat), NEW g \in Seq(Nat), NEW s \in Nat,
         NEW sp \in SUBSET Nat, ClientOK(f, p, g, s, sp), p # <<>>
  PROVE  /\ Tail(p) \in Seq(Nat) /\ Append(g, Head(p)) \in Seq(Nat)
         /\ ClientOK(f, Tail(p), Append(g, Head(p)), s, sp)
         /\ KeeperOK(f, p, g) => KeeperOK(f, Tail(p), Append(g, Head(p)))
<1> DEFINE q == Tail(p)
           x == Head(p)
           r == Append(g, x)
           b == f.since
<1>1. /\ q \in Seq(Nat) /\ Len(q) = Len(p) - 1 /\ Len(p) \in Nat /\ Len(p) > 0
      /\ \A i \in 1..Len(q) : q[i] = p[i + 1]
  BY HeadTailProperties, EmptySeq, LenProperties
<1>2. x = p[1] /\ x \in Nat
  BY HeadTailProperties
<1> HIDE DEF q, x
<1>3. /\ r \in Seq(Nat) /\ Len(r) = Len(g) + 1 /\ Len(g) \in Nat
      /\ \A i \in 1..Len(g) : r[i] = g[i]
      /\ r[Len(g) + 1] = x
  BY <1>2, AppendProperties, LenProperties
<1> HIDE DEF r
<1>4. /\ f.at # "closed" /\ b \in Nat /\ b <= s /\ Len(p) <= b
      /\ \A i \in 1..Len(p) : p[i] = b - Len(p) + i
  BY <1>1 DEF ClientOK, Feeds, b
<1> HIDE DEF b
<1>5. x = b - Len(p) + 1 /\ x \in 1..s
  <2>1. 1 \in 1..Len(p)
    BY <1>1
  <2> QED
    BY <2>1, <1>1, <1>2, <1>4
<1>6. ASSUME NEW i \in 1..Len(q) PROVE q[i] = b - Len(q) + i
  <2>1. i + 1 \in 1..Len(p)
    BY <1>1
  <2>2. q[i] = p[i + 1] /\ p[i + 1] = b - Len(p) + (i + 1)
    BY <2>1, <1>1, <1>4
  <2>3. /\ i \in Nat /\ Len(q) \in Nat /\ Len(q) = Len(p) - 1
        /\ Len(p) \in Nat /\ b \in Nat
    BY <1>1, <1>4
  <2> QED
    BY <2>2, <2>3
<1>7. ASSUME NEW i \in 1..Len(r) PROVE i = Len(g) + 1 \/ i \in 1..Len(g)
  BY <1>3
<1>8. ASSUME NEW i \in 1..Len(r) PROVE r[i] \in 1..s
  <2>1. CASE i = Len(g) + 1
    BY <2>1, <1>3, <1>5
  <2>2. CASE i \in 1..Len(g)
    BY <2>2, <1>3 DEF ClientOK
  <2> QED
    BY <2>1, <2>2, <1>7
<1>9. ASSUME NEW j PROVE (In(j, g) \/ j = x) => In(j, r)
  <2>1. 1..Len(g) \subseteq 1..Len(r) /\ Len(g) + 1 \in 1..Len(r)
    BY <1>3
  <2> QED
    BY <2>1, <1>3 DEF In
<1>10. ASSUME NEW j, In(j, p) PROVE j = x \/ In(j, q)
  <2>1. PICK i \in 1..Len(p) : p[i] = j
    BY <1>10 DEF In
  <2>2. CASE i = 1
    BY <2>1, <2>2, <1>2
  <2>3. CASE i # 1
    <3>1. i - 1 \in 1..Len(q) /\ (i - 1) + 1 = i
      BY <2>3, <1>1
    <3> QED
      BY <3>1, <2>1, <1>1 DEF In
  <2> QED
    BY <2>2, <2>3
<1>11. ASSUME NEW j \in Nat, In(j, q) PROVE In(j, p) /\ x < j
  <2>1. PICK i \in 1..Len(q) : q[i] = j
    BY <1>11 DEF In
  <2>2. i + 1 \in 1..Len(p) /\ p[i + 1] = j
    BY <2>1, <1>1
  <2>3. j = b - Len(q) + i
    BY <2>1, <1>6
  <2>4. /\ i \in Nat /\ i > 0 /\ Len(q) \in Nat /\ Len(q) = Len(p) - 1
        /\ Len(p) \in Nat /\ b \in Nat /\ x = b - Len(p) + 1
    BY <1>1, <1>4, <1>5
  <2>5. x < j
    BY <2>3, <2>4
  <2> QED
    BY <2>2, <2>5 DEF In
<1>12. ASSUME NEW j \in 1..s PROVE In(j, r) \/ j \in sp \/ In(j, q)
  BY <1>9, <1>10 DEF ClientOK
<1>13. ASSUME NEW j \in Nat, In(j, q)
       PROVE  In(j, r) \/ j \in sp \/ \A i \in 1..Len(r) : r[i] < j
  <2>1. In(j, g) \/ j \in sp \/ \A i \in 1..Len(g) : g[i] < j
    BY <1>11, <1>13 DEF ClientOK
  <2>2. ASSUME \A i \in 1..Len(g) : g[i] < j, NEW i \in 1..Len(r) PROVE r[i] < j
    <3>1. CASE i = Len(g) + 1
      BY <3>1, <1>3, <1>11, <1>13
    <3>2. CASE i \in 1..Len(g)
      BY <3>2, <2>2, <1>3
    <3> QED
      BY <3>1, <3>2, <1>7
  <2> QED
    BY <2>1, <2>2, <1>9
<1>14. ClientOK(f, q, r, s, sp)
  <2>1. Len(q) <= b
    BY <1>1, <1>4
  <2> QED
    BY <2>1, <1>4, <1>6, <1>8, <1>12, <1>13 DEF ClientOK, b
<1>15. ASSUME KeeperOK(f, p, g) PROVE KeeperOK(f, q, r)
  <2>1. b = Len(g) + Len(p) /\ \A i \in 1..Len(g) : g[i] = i
    BY <1>4, <1>15 DEF KeeperOK, b
  <2>2. b = Len(r) + Len(q)
    BY <2>1, <1>1, <1>3
  <2>3. x = Len(g) + 1
    BY <2>1, <1>1, <1>3, <1>5
  <2>4. ASSUME NEW i \in 1..Len(r) PROVE r[i] = i
    <3>1. CASE i = Len(g) + 1
      BY <3>1, <2>3, <1>3
    <3>2. CASE i \in 1..Len(g)
      BY <3>2, <2>1, <1>3
    <3> QED
      BY <3>1, <3>2, <1>7
  <2> QED
    BY <2>2, <2>4 DEF KeeperOK, b
<1> QED
  BY <1>1, <1>3, <1>14, <1>15 DEF q, x, r

\* A lost connection: what was on the wire is spilled.
LEMMA ClosedOK ==
  ASSUME NEW f \in Feeds, NEW p \in Seq(Nat), NEW g \in Seq(Nat), NEW s \in Nat,
         NEW sp \in SUBSET Nat, ClientOK(f, p, g, s, sp), NEW all,
         all = sp \cup {p[i] : i \in DOMAIN p}
  PROVE  /\ all \in SUBSET Nat
         /\ ClientOK(Stream!Closed, <<>>, g, s, all)
         /\ KeeperOK(f, p, g) => KeeperOK(Stream!Closed, <<>>, g)
<1>1. DOMAIN p = 1..Len(p) /\ Len(p) \in Nat /\ \A i \in 1..Len(p) : p[i] \in Nat
  BY LenProperties, ElementOfSeq
<1>2. all \in SUBSET Nat
  BY <1>1
<1>3. ASSUME NEW j, In(j, p) \/ j \in sp PROVE j \in all
  BY <1>1, <1>3 DEF In
<1>4. Stream!Closed.at = "closed" /\ Len(<<>>) = 0 /\ 1..0 = {}
  BY EmptySeq DEF Stream!Closed
<1>5. ASSUME NEW j PROVE ~In(j, <<>>)
  BY <1>4 DEF In
<1>6. ClientOK(Stream!Closed, <<>>, g, s, all)
  BY <1>3, <1>4, <1>5 DEF ClientOK
<1> QED
  BY <1>2, <1>4, <1>6 DEF KeeperOK

\* A new connection starts at an offset that was written.
LEMMA ConnectOK ==
  ASSUME NEW f \in Feeds, NEW g \in Seq(Nat), NEW s \in Nat,
         NEW sp \in SUBSET Nat, ClientOK(f, <<>>, g, s, sp), NEW n \in Nat, n <= s
  PROVE  /\ [at |-> "poll", since |-> n] \in Feeds
         /\ ClientOK([at |-> "poll", since |-> n], <<>>, g, s, sp)
<1>1. Len(<<>>) = 0 /\ 1..0 = {}
  BY EmptySeq
<1>2. ASSUME NEW j PROVE ~In(j, <<>>)
  BY <1>1 DEF In
<1> DEFINE h == [at |-> "poll", since |-> n]
<1>3. h \in Feeds /\ h.at = "poll" /\ h.since = n
  BY DEF Feeds
<1> HIDE DEF h
<1>4. ClientOK(h, <<>>, g, s, sp)
  BY <1>1, <1>2, <1>3 DEF ClientOK
<1> QED
  BY <1>3, <1>4 DEF h

\* The cursor of a written page is journalled.
LEMMA PersistedOK ==
  ASSUME NEW f \in Feeds, NEW p, NEW g, NEW s, NEW sp, ClientOK(f, p, g, s, sp),
         f.at = "persist", NEW h, h = [f EXCEPT !.at = "poll"]
  PROVE  /\ h \in Feeds /\ ClientOK(h, p, g, s, sp)
         /\ KeeperOK(f, p, g) => KeeperOK(h, p, g)
<1>1. h \in Feeds /\ h.at = "poll" /\ h.since = f.since
  BY DEF Feeds
<1> QED
  BY <1>1 DEF ClientOK, KeeperOK

-----------------------------------------------------------------------------
(* The cursor journal.                                                     *)

\* A non-empty set of numbers up to n has a largest,
LEMMA HasLargest ==
  ASSUME NEW n \in Nat, NEW S, S \subseteq 1..n, S # {}
  PROVE  \E m \in S : \A i \in S : i <= m
<1> DEFINE R == OpToRel(<, Nat)
           T == {m \in Nat : \A i \in S : i <= m}
<1>1. IsWellFoundedOn(R, Nat)
  BY NatLessThanWellFounded, Zenon
<1>2. \A x, y \in Nat : x < y => <<x, y>> \in R
  BY DEF OpToRel
<1> HIDE DEF R
<1>3. T \subseteq Nat /\ n \in T
  OBVIOUS
<1>4. PICK m \in T : \A y \in T : ~(<<y, m>> \in R)
  BY <1>1, <1>3, WFMin
<1>5. m \in Nat /\ \A i \in S : i <= m
  BY <1>4
<1>6. m \in S
  <2> SUFFICES ASSUME m \notin S PROVE FALSE
    OBVIOUS
  <2>1. m # 0
    <3>1. PICK i \in S : i \in 1..n
      OBVIOUS
    <3> QED
      BY <3>1, <1>5
  <2>2. m - 1 \in Nat /\ m - 1 < m
    BY <1>5, <2>1
  <2>3. \A i \in S : i <= m - 1
    BY <1>5, <2>2
  <2>4. m - 1 \in T
    BY <2>2, <2>3
  <2> QED
    BY <2>2, <2>4, <1>2, <1>4, <1>5
<1> QED
  BY <1>5, <1>6

\* which is its Max.
LEMMA LargestNumber ==
  ASSUME NEW n \in Nat, NEW S, S \subseteq 1..n, S # {}
  PROVE  Stream!Max(S) \in S /\ \A i \in S : i <= Stream!Max(S)
<1>1. \E m \in S : \A i \in S : i <= m
  BY HasLargest
<1>2. S \subseteq Nat
  OBVIOUS
<1> QED
  BY <1>1, <1>2 DEF Stream!Max

\* A line behind a torn one makes a line that does not parse.
LEMMA AppendedOK ==
  ASSUME NEW s, Journal(lines, s), NEW line \in Lines, CursorOK(line, s)
  PROVE  Journal(Stream!Appended(line), s)
<1>1. lines \in Seq(Lines) /\ Len(lines) \in Nat /\ DOMAIN lines = 1..Len(lines)
  BY LenProperties DEF Journal
<1>2. CASE lines # <<>> /\ lines[Len(lines)].kind = "torn"
  <2> DEFINE x == [line EXCEPT !.kind = IF line.kind = "torn" THEN "torn" ELSE "garbled"]
             file == [lines EXCEPT ![Len(lines)] = x]
  <2>1. x \in Lines /\ x.kind # "record"
    BY DEF Lines
  <2>2. Stream!Appended(line) = file
    BY <1>2 DEF Stream!Appended
  <2> HIDE DEF x
  <2>3. Len(lines) \in 1..Len(lines)
    <3>1. Len(lines) # 0
      BY <1>1, <1>2, EmptySeq
    <3> QED
      BY <3>1, <1>1
  <2>4. /\ file \in Seq(Lines) /\ Len(file) = Len(lines)
        /\ \A i \in 1..Len(lines) : file[i] = IF i = Len(lines) THEN x ELSE lines[i]
    BY <1>1, <2>1, <2>3, ExceptSeq
  <2> HIDE DEF file
  <2>5. CursorOK(x, s)
    BY <2>1 DEF CursorOK
  <2>6. ASSUME NEW i \in 1..Len(file) PROVE CursorOK(file[i], s)
    BY <2>4, <2>5 DEF Journal
  <2> QED
    BY <2>2, <2>4, <2>6 DEF Journal
<1>3. CASE ~(lines # <<>> /\ lines[Len(lines)].kind = "torn")
  <2> DEFINE file == Append(lines, line)
  <2>1. Stream!Appended(line) = file
    BY <1>3 DEF Stream!Appended
  <2>2. /\ file \in Seq(Lines) /\ Len(file) = Len(lines) + 1
        /\ \A i \in 1..Len(lines) : file[i] = lines[i]
        /\ file[Len(lines) + 1] = line
    BY <1>1, AppendProperties
  <2> HIDE DEF file
  <2>3. ASSUME NEW i \in 1..Len(file) PROVE CursorOK(file[i], s)
    <3>1. i \in 1..Len(lines) \/ i = Len(lines) + 1
      BY <1>1, <2>2
    <3> QED
      BY <3>1, <2>2 DEF Journal
  <2> QED
    BY <2>1, <2>2, <2>3 DEF Journal
<1> QED
  BY <1>2, <1>3

LEMMA OpenedOK ==
  ASSUME NEW s, NEW file \in Seq(Lines),
         \A i \in 1..Len(file) : file[i].kind = "record" /\ CursorOK(file[i], s)
  PROVE  Memory(Stream!Opened(file), s)
<1>1. Stream!Opened(file) \in [ok : BOOLEAN, records : Seq(Lines)]
  BY DEF Stream!Opened
<1>2. Stream!Opened(file).records = file
  BY DEF Stream!Opened
<1> QED
  BY <1>1, <1>2 DEF Memory

LEMMA OpenJournalOK ==
  ASSUME NEW s, NEW file, Journal(file, s)
  PROVE  Memory(Stream!OpenJournal(file), s)
<1> DEFINE bad == {i \in DOMAIN file : ~Stream!Parses(file[i])}
<1>1. file \in Seq(Lines) /\ Len(file) \in Nat /\ DOMAIN file = 1..Len(file)
  BY LenProperties DEF Journal
<1>2. \A i \in 1..Len(file) : i \notin bad => file[i].kind = "record"
  BY <1>1 DEF Stream!Parses
<1>3. CASE \E i \in bad : i # Len(file)
  <2> DEFINE none == [ok |-> FALSE, records |-> <<>>]
  <2>1. Stream!OpenJournal(file) = none
    BY <1>3 DEF Stream!OpenJournal
  <2>2. none \in [ok : BOOLEAN, records : Seq(Lines)] /\ none.records = <<>>
    BY EmptySeq
  <2>3. Len(<<>>) = 0 /\ 1..0 = {}
    BY EmptySeq
  <2> QED
    BY <2>1, <2>2, <2>3 DEF Memory
<1>4. CASE bad = {}
  <2>1. Stream!OpenJournal(file) = Stream!Opened(file)
    BY <1>4 DEF Stream!OpenJournal
  <2> HIDE DEF bad
  <2>2. \A i \in 1..Len(file) : file[i].kind = "record" /\ CursorOK(file[i], s)
    BY <1>2, <1>4 DEF Journal
  <2> QED
    BY <2>1, <2>2, <1>1, OpenedOK
<1>5. CASE bad # {} /\ \A i \in bad : i = Len(file)
  <2> DEFINE less == SubSeq(file, 1, Len(file) - 1)
  <2>1. Stream!OpenJournal(file) = Stream!Opened(less)
    BY <1>5 DEF Stream!OpenJournal
  <2>2. Len(file) > 0
    BY <1>1, <1>5
  <2> HIDE DEF bad
  <2>3. less \in Seq(Lines) /\ Len(less) = Len(file) - 1
    BY <1>1, <2>2
  <2>4. \A i \in 1..(Len(file) - 1) : less[i] = file[i]
    BY <1>1, <2>2
  <2> HIDE DEF less
  <2>5. ASSUME NEW i \in 1..Len(less)
        PROVE  less[i].kind = "record" /\ CursorOK(less[i], s)
    <3> DEFINE k == Len(file)
    <3>0. i \in 1..(k - 1) /\ k \in Nat
      BY <1>1, <2>3
    <3>1. i \in 1..k /\ i # k /\ i \in 1..(k - 1)
      <4> HIDE DEF k
      <4> QED
        BY <3>0
    <3>2. less[i] = file[i] /\ file[i].kind = "record"
      BY <3>1, <2>4, <1>2, <1>5
    <3>3. CursorOK(file[i], s)
      BY <3>1 DEF Journal
    <3> QED
      BY <3>2, <3>3
  <2> QED
    BY <2>1, <2>3, <2>5, OpenedOK
<1> QED
  BY <1>3, <1>4, <1>5

\* A record more in memory.
LEMMA RememberedOK ==
  ASSUME NEW s, NEW m, Memory(m, s), NEW r \in Lines, r.kind = "record", CursorOK(r, s),
         NEW n, n = [m EXCEPT !.records = Append(@, r)]
  PROVE  Memory(n, s)
<1>1. /\ m.records \in Seq(Lines) /\ n \in [ok : BOOLEAN, records : Seq(Lines)]
      /\ n.records = Append(m.records, r)
  <2>1. m \in [ok : BOOLEAN, records : Seq(Lines)]
    BY DEF Memory
  <2>2. m.records \in Seq(Lines)
    BY <2>1
  <2>3. Append(m.records, r) \in Seq(Lines)
    BY <2>2, AppendProperties
  <2> QED
    BY <2>1, <2>2, <2>3
<1> DEFINE old == m.records
           new == n.records
<1>2. /\ new \in Seq(Lines) /\ Len(new) = Len(old) + 1 /\ Len(old) \in Nat
      /\ \A i \in 1..Len(old) : new[i] = old[i]
      /\ new[Len(old) + 1] = r
  BY <1>1, AppendProperties, LenProperties
<1>3. \A i \in 1..Len(old) : old[i].kind = "record" /\ CursorOK(old[i], s)
  BY DEF Memory
<1> HIDE DEF old, new
<1>4. ASSUME NEW i \in 1..Len(new) PROVE new[i].kind = "record" /\ CursorOK(new[i], s)
  <2>1. i \in 1..Len(old) \/ i = Len(old) + 1
    BY <1>2
  <2> QED
    BY <2>1, <1>2, <1>3
<1> QED
  BY <1>1, <1>4 DEF Memory, new

\* The journal stays right as more is written.
LEMMA MoreSent ==
  ASSUME NEW s \in [Subscribers -> Nat], NEW t \in [Subscribers -> Nat],
         \A c \in Subscribers : s[c] <= t[c]
  PROVE  /\ \A file : Journal(file, s) => Journal(file, t)
         /\ \A m : Memory(m, s) => Memory(m, t)
<1>1. ASSUME NEW l \in Lines, CursorOK(l, s) PROVE CursorOK(l, t)
  <2> SUFFICES ASSUME l.kind = "record" PROVE l.client \in Subscribers /\ l.offset <= t[l.client]
    BY DEF CursorOK
  <2>1. l.client \in Subscribers /\ l.offset <= s[l.client] /\ l.offset \in Nat
    BY <1>1 DEF CursorOK, Lines
  <2> DEFINE a == l.client
             o == l.offset
  <2>2. a \in Subscribers /\ o <= s[a] /\ o \in Nat
    BY <2>1
  <2> HIDE DEF a, o
  <2>3. o <= t[a]
    BY <2>2
  <2> QED
    BY <2>1, <2>3 DEF a, o
<1>2. ASSUME NEW file, Journal(file, s) PROVE Journal(file, t)
  BY <1>1, <1>2, ElementOfSeq DEF Journal
<1>3. ASSUME NEW m, Memory(m, s) PROVE Memory(m, t)
  <2>1. m.records \in Seq(Lines)
    BY <1>3 DEF Memory
  <2> QED
    BY <2>1, <1>1, <1>3, ElementOfSeq DEF Memory
<1> QED
  BY <1>2, <1>3

LEMMA CursorIsSent ==
  ASSUME NEW s \in [Subscribers -> Nat], Memory(mem, s), NEW c \in Subscribers
  PROVE  Stream!LastCursor(c) \in Nat /\ Stream!LastCursor(c) <= s[c]
<1> DEFINE recs == mem.records
           mine == {i \in DOMAIN recs : recs[i].client = c}
<1>1. recs \in Seq(Lines) /\ Len(recs) \in Nat /\ DOMAIN recs = 1..Len(recs)
  BY LenProperties DEF Memory
<1>2. \A i \in 1..Len(recs) : recs[i] \in Lines /\ recs[i].kind = "record" /\ CursorOK(recs[i], s)
  BY <1>1, ElementOfSeq DEF Memory
<1>3. CASE mem.ok /\ mine # {}
  <2>1. Stream!LastCursor(c) = recs[Stream!Max(mine)].offset
    BY <1>3 DEF Stream!LastCursor
  <2>2. mine \subseteq 1..Len(recs)
    BY <1>1
  <2>3. Stream!Max(mine) \in mine
    <3> HIDE DEF mine, recs
    <3> QED
      BY <2>2, <1>1, <1>3, LargestNumber
  <2>4. PICK k \in 1..Len(recs) : k = Stream!Max(mine) /\ recs[k].client = c
    BY <2>3, <2>2
  <2>5. recs[k].offset \in Nat /\ recs[k].offset <= s[c]
    <3> HIDE DEF recs
    <3>1. recs[k] \in Lines /\ recs[k].kind = "record" /\ CursorOK(recs[k], s)
      BY <1>2
    <3> QED
      BY <3>1, <2>4 DEF CursorOK, Lines
  <2> QED
    BY <2>1, <2>4, <2>5
<1>4. CASE ~(mem.ok /\ mine # {})
  <2>1. Stream!LastCursor(c) = 0
    BY <1>4 DEF Stream!LastCursor
  <2> QED
    BY <2>1
<1> QED
  BY <1>3, <1>4

-----------------------------------------------------------------------------
(* The steps.                                                              *)

\* What a step does to the client it is about, when it leaves the others alone.
LEMMA OneClient ==
  ASSUME StreamInv, NEW c \in Subscribers, StreamTypes',
         \A d \in Subscribers \ {c} : /\ feed'[d] = feed[d] /\ pipe'[d] = pipe[d]
                                      /\ read'[d] = read[d] /\ sent'[d] = sent[d]
                                      /\ spilled'[d] = spilled[d],
         ClientOK(feed'[c], pipe'[c], read'[c], sent'[c], spilled'[c]),
         KeeperOK(feed[c], pipe[c], read[c]) => KeeperOK(feed'[c], pipe'[c], read'[c])
  PROVE  /\ \A d \in Subscribers : ClientOK(feed'[d], pipe'[d], read'[d], sent'[d], spilled'[d])
         /\ \A d \in Keepers : KeeperOK(feed'[d], pipe'[d], read'[d])
<1>1. ASSUME NEW d \in Subscribers
      PROVE  ClientOK(feed'[d], pipe'[d], read'[d], sent'[d], spilled'[d])
  BY DEF StreamInv
<1>2. ASSUME NEW d \in Keepers PROVE KeeperOK(feed'[d], pipe'[d], read'[d])
  <2>1. KeeperOK(feed[d], pipe[d], read[d]) /\ d \in Subscribers
    BY DEF StreamInv, Subscribers
  <2> QED
    BY <2>1
<1> QED
  BY <1>1, <1>2

LEMMA CommitStep ==
  ASSUME StreamInv, Stream!Commit PROVE StreamInv'
BY DEF StreamInv, StreamTypes, Stream!Commit

LEMMA ConnectStep ==
  ASSUME StreamInv, NEW c \in Subscribers, Stream!Connect(c) PROVE StreamInv'
<1> DEFINE n == IF c \in Keepers THEN Stream!Last(c) ELSE Stream!LastCursor(c)
           h == [at |-> "poll", since |-> n]
<1>1. /\ feed' = [feed EXCEPT ![c] = h] /\ pipe[c] = <<>>
      /\ pipe' = pipe /\ read' = read /\ lines' = lines /\ mem' = mem /\ log' = log
      /\ sent' = sent /\ spilled' = spilled
  BY DEF Stream!Connect
<1>2. /\ feed[c] \in Feeds /\ read[c] \in Seq(Nat) /\ sent[c] \in Nat
      /\ spilled[c] \in SUBSET Nat /\ Len(read[c]) \in Nat
      /\ ClientOK(feed[c], <<>>, read[c], sent[c], spilled[c])
  BY <1>1, LenProperties DEF StreamInv, StreamTypes
<1>3. c \in Keepers => n = Len(read[c])
  <2> SUFFICES ASSUME c \in Keepers PROVE Stream!Last(c) = Len(read[c])
    OBVIOUS
  <2>1. \A i \in 1..Len(read[c]) : read[c][i] = i
    BY DEF StreamInv, KeeperOK
  <2>2. CASE read[c] = <<>>
    BY <2>2, EmptySeq DEF Stream!Last
  <2>3. CASE read[c] # <<>>
    <3>1. Len(read[c]) # 0
      BY <2>3, <1>2, EmptySeq
    <3>2. Len(read[c]) \in 1..Len(read[c])
      BY <3>1, <1>2
    <3> QED
      BY <3>2, <2>1, <2>3 DEF Stream!Last
  <2> QED
    BY <2>2, <2>3
<1>4. n \in Nat /\ n <= sent[c]
  <2>1. CASE c \in Keepers
    <3>1. CASE Len(read[c]) = 0
      BY <3>1, <2>1, <1>2, <1>3
    <3>2. CASE Len(read[c]) # 0
      <4> HIDE DEF n
      <4>1. Len(read[c]) \in 1..Len(read[c])
        BY <3>2, <1>2
      <4>2. read[c][Len(read[c])] \in 1..sent[c]
        BY <4>1, <1>2 DEF ClientOK
      <4>3. read[c][Len(read[c])] = Len(read[c])
        BY <4>1, <2>1 DEF StreamInv, KeeperOK
      <4> QED
        BY <4>2, <4>3, <2>1, <1>2, <1>3
    <3> QED
      BY <3>1, <3>2
  <2>2. CASE c \notin Keepers
    <3>1. sent \in [Subscribers -> Nat] /\ Memory(mem, sent)
      BY DEF StreamInv, StreamTypes
    <3> QED
      BY <3>1, <2>2, CursorIsSent
  <2> QED
    BY <2>1, <2>2
<1> HIDE DEF n
<1>5. h \in Feeds /\ ClientOK(h, <<>>, read[c], sent[c], spilled[c])
  BY <1>2, <1>4, ConnectOK
<1>6. ASSUME c \in Keepers, KeeperOK(feed[c], <<>>, read[c]) PROVE KeeperOK(h, <<>>, read[c])
  <2>1. h.since = n /\ Len(<<>>) = 0 /\ n = Len(read[c]) + 0
    BY <1>2, <1>3, <1>6, EmptySeq
  <2> HIDE DEF h
  <2> QED
    BY <2>1, <1>6 DEF KeeperOK
<1> HIDE DEF h
<1>7. feed' \in [Subscribers -> Feeds] /\ feed'[c] = h
      /\ \A d \in Subscribers \ {c} : feed'[d] = feed[d]
  BY <1>1, <1>5 DEF StreamInv, StreamTypes
<1>8. StreamTypes'
  BY <1>1, <1>7 DEF StreamInv, StreamTypes
<1>9. \A d \in Subscribers : ClientOK(feed'[d], pipe'[d], read'[d], sent'[d], spilled'[d])
  BY <1>1, <1>5, <1>7 DEF StreamInv
<1>10. \A d \in Keepers : KeeperOK(feed'[d], pipe'[d], read'[d])
  BY <1>1, <1>6, <1>7 DEF StreamInv, Subscribers
<1> QED
  BY <1>1, <1>8, <1>9, <1>10 DEF StreamInv

LEMMA PollStep ==
  ASSUME StreamAssumptions, StreamInv, NEW c \in Subscribers, Stream!Poll(c) PROVE StreamInv'
<1> DEFINE b == feed[c].since
           n == IF log < b + Batch THEN log ELSE b + Batch
           e == [i \in 1..(n - b) |-> b + i]
           q == pipe[c] \o e
           h == [at |-> "persist", since |-> n]
           t == IF n > sent[c] THEN n ELSE sent[c]
<1>1. /\ feed[c].at = "poll" /\ b < log
      /\ read' = read /\ lines' = lines /\ mem' = mem /\ log' = log /\ spilled' = spilled
  BY DEF Stream!Poll
<1>2. Stream!EventsSince(b) = [events |-> e, offset |-> n]
  BY DEF Stream!EventsSince
<1>3. /\ pipe' = [pipe EXCEPT ![c] = q] /\ feed' = [feed EXCEPT ![c] = h]
      /\ sent' = [sent EXCEPT ![c] = t]
  <2>1. Stream!EventsSince(b).events = e /\ Stream!EventsSince(b).offset = n
    BY <1>2
  <2> HIDE DEF e, n
  <2> QED
    BY <2>1 DEF Stream!Poll
<1>4. /\ feed[c] \in Feeds /\ pipe[c] \in Seq(Nat) /\ read[c] \in Seq(Nat) /\ sent[c] \in Nat
      /\ spilled[c] \in SUBSET Nat /\ log \in Nat /\ b \in Nat
      /\ ClientOK(feed[c], pipe[c], read[c], sent[c], spilled[c])
  BY DEF StreamInv, StreamTypes, Feeds
<1>5. n \in Nat /\ b <= n
  <2> HIDE DEF b
  <2> QED
    BY <1>1, <1>4 DEF StreamAssumptions
<1> HIDE DEF n
<1>6. /\ q \in Seq(Nat) /\ h \in Feeds /\ Len(q) = Len(pipe[c]) + n - b
      /\ ClientOK(h, q, read[c], t, spilled[c])
  BY <1>1, <1>4, <1>5, PolledOK
<1> HIDE DEF q, e
<1>7. h.at = "persist" /\ h.since = n
  OBVIOUS
<1>8. t \in Nat /\ sent[c] <= t
  BY <1>4, <1>5
<1> HIDE DEF h, t
<1>9. ASSUME KeeperOK(feed[c], pipe[c], read[c]) PROVE KeeperOK(h, q, read[c])
  <2>1. b = Len(read[c]) + Len(pipe[c]) /\ Len(read[c]) \in Nat /\ Len(pipe[c]) \in Nat
    BY <1>1, <1>4, <1>9, LenProperties DEF KeeperOK
  <2>2. n = Len(read[c]) + Len(q)
    <3> DEFINE x == Len(read[c])
               y == Len(pipe[c])
               z == Len(q)
    <3>1. b = x + y /\ x \in Nat /\ y \in Nat /\ n \in Nat /\ z = y + n - b
      BY <2>1, <1>5, <1>6
    <3> HIDE DEF b, x, y, z
    <3>2. n = x + z
      BY <3>1
    <3> QED
      BY <3>2 DEF x, z
  <2> QED
    BY <2>2, <1>7, <1>9 DEF KeeperOK
<1>10. /\ feed' \in [Subscribers -> Feeds] /\ pipe' \in [Subscribers -> Seq(Nat)]
       /\ sent' \in [Subscribers -> Nat]
       /\ feed'[c] = h /\ pipe'[c] = q /\ sent'[c] = t
       /\ \A d \in Subscribers \ {c} : /\ feed'[d] = feed[d] /\ pipe'[d] = pipe[d]
                                       /\ sent'[d] = sent[d]
  <2> HIDE DEF b
  <2> QED
    BY <1>3, <1>6, <1>8 DEF StreamInv, StreamTypes
<1>11. StreamTypes'
  BY <1>1, <1>10 DEF StreamInv, StreamTypes
<1>12. /\ \A d \in Subscribers : ClientOK(feed'[d], pipe'[d], read'[d], sent'[d], spilled'[d])
       /\ \A d \in Keepers : KeeperOK(feed'[d], pipe'[d], read'[d])
  <2> HIDE DEF b
  <2> QED
    BY <1>1, <1>6, <1>9, <1>10, <1>11, OneClient
<1>13. Journal(lines, sent') /\ Memory(mem, sent')
  <2>1. sent \in [Subscribers -> Nat]
    BY DEF StreamInv, StreamTypes
  <2>2. \A d \in Subscribers : sent[d] <= sent'[d]
    <3> HIDE DEF b
    <3>1. ASSUME NEW d \in Subscribers PROVE sent[d] <= sent'[d]
      <4>1. CASE d = c
        BY <4>1, <1>8, <1>10
      <4>2. CASE d # c
        BY <4>2, <1>10, <2>1
      <4> QED
        BY <4>1, <4>2
    <3> QED
      BY <3>1
  <2> QED
    BY <2>1, <2>2, <1>10, MoreSent DEF StreamInv
<1> QED
  BY <1>1, <1>11, <1>12, <1>13 DEF StreamInv

LEMMA PersistStep ==
  ASSUME StreamInv, NEW c \in Subscribers, NEW works \in BOOLEAN, Stream!Persist(c, works)
  PROVE  StreamInv'
<1> DEFINE h == [feed[c] EXCEPT !.at = "poll"]
           r == [kind |-> "record", client |-> c, offset |-> feed[c].since]
<1>1. /\ feed[c].at = "persist" /\ feed' = [feed EXCEPT ![c] = h]
      /\ read' = read /\ pipe' = pipe /\ log' = log /\ spilled' = spilled /\ sent' = sent
  <2>1. feed' = [feed EXCEPT ![c].at = "poll"]
    BY DEF Stream!Persist
  <2>2. feed' = [feed EXCEPT ![c] = h]
    BY <2>1
  <2> QED
    BY <2>2 DEF Stream!Persist
<1>2. \/ lines' = Stream!Appended(r) /\ mem' = [mem EXCEPT !.records = Append(@, r)]
      \/ lines' = lines /\ mem' = mem
  BY DEF Stream!Persist
<1>3. /\ feed[c] \in Feeds /\ feed[c].since \in Nat /\ sent[c] \in Nat
      /\ ClientOK(feed[c], pipe[c], read[c], sent[c], spilled[c])
  BY DEF StreamInv, StreamTypes, Feeds
<1>4. /\ h \in Feeds /\ ClientOK(h, pipe[c], read[c], sent[c], spilled[c])
      /\ KeeperOK(feed[c], pipe[c], read[c]) => KeeperOK(h, pipe[c], read[c])
  BY <1>1, <1>3, PersistedOK
<1> HIDE DEF h
<1>5. /\ feed' \in [Subscribers -> Feeds] /\ feed'[c] = h
      /\ \A d \in Subscribers \ {c} : feed'[d] = feed[d]
  BY <1>1, <1>4 DEF StreamInv, StreamTypes
<1>6. StreamTypes'
  BY <1>1, <1>5 DEF StreamInv, StreamTypes
<1>7. /\ \A d \in Subscribers : ClientOK(feed'[d], pipe'[d], read'[d], sent'[d], spilled'[d])
      /\ \A d \in Keepers : KeeperOK(feed'[d], pipe'[d], read'[d])
  BY <1>1, <1>4, <1>5, <1>6, OneClient
<1>8. r \in Lines /\ r.kind = "record" /\ CursorOK(r, sent)
  <2>1. feed[c].since <= sent[c]
    BY <1>1, <1>3 DEF ClientOK
  <2> QED
    BY <2>1, <1>3 DEF Lines, CursorOK
<1> HIDE DEF r
<1>9. Journal(lines', sent) /\ Memory(mem', sent)
  <2>1. Journal(lines, sent) /\ Memory(mem, sent)
    BY DEF StreamInv
  <2>2. Journal(Stream!Appended(r), sent)
    BY <2>1, <1>8, AppendedOK
  <2>3. Memory([mem EXCEPT !.records = Append(@, r)], sent)
    BY <2>1, <1>8, RememberedOK
  <2> QED
    BY <2>1, <2>2, <2>3, <1>2
<1> QED
  BY <1>1, <1>6, <1>7, <1>9 DEF StreamInv

LEMMA ReadStep ==
  ASSUME StreamInv, NEW c \in Subscribers, Stream!Read(c) PROVE StreamInv'
<1> DEFINE q == Tail(pipe[c])
           g == Append(read[c], Head(pipe[c]))
<1>1. /\ pipe[c] # <<>> /\ read' = [read EXCEPT ![c] = g] /\ pipe' = [pipe EXCEPT ![c] = q]
      /\ feed' = feed /\ lines' = lines /\ mem' = mem /\ log' = log /\ spilled' = spilled
      /\ sent' = sent
  BY DEF Stream!Read
<1>2. /\ feed[c] \in Feeds /\ pipe[c] \in Seq(Nat) /\ read[c] \in Seq(Nat) /\ sent[c] \in Nat
      /\ spilled[c] \in SUBSET Nat
      /\ ClientOK(feed[c], pipe[c], read[c], sent[c], spilled[c])
  BY DEF StreamInv, StreamTypes
<1>3. /\ q \in Seq(Nat) /\ g \in Seq(Nat)
      /\ ClientOK(feed[c], q, g, sent[c], spilled[c])
      /\ KeeperOK(feed[c], pipe[c], read[c]) => KeeperOK(feed[c], q, g)
  BY <1>1, <1>2, ReadOK
<1> HIDE DEF q, g
<1>4. /\ read' \in [Subscribers -> Seq(Nat)] /\ pipe' \in [Subscribers -> Seq(Nat)]
      /\ read'[c] = g /\ pipe'[c] = q
      /\ \A d \in Subscribers \ {c} : read'[d] = read[d] /\ pipe'[d] = pipe[d]
  BY <1>1, <1>3 DEF StreamInv, StreamTypes
<1>5. StreamTypes'
  BY <1>1, <1>4 DEF StreamInv, StreamTypes
<1>6. /\ \A d \in Subscribers : ClientOK(feed'[d], pipe'[d], read'[d], sent'[d], spilled'[d])
      /\ \A d \in Keepers : KeeperOK(feed'[d], pipe'[d], read'[d])
  BY <1>1, <1>3, <1>4, <1>5, OneClient
<1> QED
  BY <1>1, <1>5, <1>6 DEF StreamInv

\* Connections are lost: of one client when a connection drops, of all when the core dies.
LEMMA SpillStep ==
  ASSUME StreamInv, NEW cs \in SUBSET Subscribers, Stream!Spill(cs),
         feed' = [c \in Subscribers |-> IF c \in cs THEN Stream!Closed ELSE feed[c]],
         UNCHANGED <<log, read, sent>>
  PROVE  /\ StreamTypes'
         /\ \A d \in Subscribers : ClientOK(feed'[d], pipe'[d], read'[d], sent'[d], spilled'[d])
         /\ \A d \in Keepers : KeeperOK(feed'[d], pipe'[d], read'[d])
<1> DEFINE all(d) == spilled[d] \cup {pipe[d][i] : i \in DOMAIN pipe[d]}
<1>1. Stream!Clients = Subscribers
  BY DEF Stream!Clients, Subscribers
<1>2. /\ pipe' = [c \in Subscribers |-> IF c \in cs THEN <<>> ELSE pipe[c]]
      /\ spilled' = [c \in Subscribers |-> IF c \in cs THEN all(c) ELSE spilled[c]]
  BY <1>1 DEF Stream!Spill
<1>3. ASSUME NEW d \in Subscribers
      PROVE  /\ all(d) \in SUBSET Nat
             /\ ClientOK(Stream!Closed, <<>>, read[d], sent[d], all(d))
             /\ KeeperOK(feed[d], pipe[d], read[d]) => KeeperOK(Stream!Closed, <<>>, read[d])
  <2>1. /\ feed[d] \in Feeds /\ pipe[d] \in Seq(Nat) /\ read[d] \in Seq(Nat)
        /\ sent[d] \in Nat /\ spilled[d] \in SUBSET Nat
        /\ ClientOK(feed[d], pipe[d], read[d], sent[d], spilled[d])
    BY DEF StreamInv, StreamTypes
  <2> QED
    BY <2>1, ClosedOK
<1> HIDE DEF all
<1>4. Stream!Closed \in Feeds /\ <<>> \in Seq(Nat)
  BY EmptySeq DEF Stream!Closed, Feeds
<1>5. StreamTypes'
  BY <1>2, <1>3, <1>4 DEF StreamInv, StreamTypes
<1>6. ASSUME NEW d \in Subscribers
      PROVE  ClientOK(feed'[d], pipe'[d], read'[d], sent'[d], spilled'[d])
  <2>1. CASE d \in cs
    BY <2>1, <1>2, <1>3
  <2>2. CASE d \notin cs
    BY <2>2, <1>2 DEF StreamInv
  <2> QED
    BY <2>1, <2>2
<1>7. ASSUME NEW d \in Keepers PROVE KeeperOK(feed'[d], pipe'[d], read'[d])
  <2>1. d \in Subscribers /\ KeeperOK(feed[d], pipe[d], read[d])
    BY DEF Subscribers, StreamInv
  <2>2. CASE d \in cs
    BY <2>1, <2>2, <1>2, <1>3
  <2>3. CASE d \notin cs
    BY <2>1, <2>3, <1>2
  <2> QED
    BY <2>2, <2>3
<1> QED
  BY <1>5, <1>6, <1>7

LEMMA DropStep ==
  ASSUME StreamInv, NEW c \in Subscribers, Stream!Drop(c) PROVE StreamInv'
<1>1. /\ feed' = [feed EXCEPT ![c] = Stream!Closed] /\ Stream!Spill({c})
      /\ UNCHANGED <<log, read, sent>> /\ lines' = lines /\ mem' = mem
  BY DEF Stream!Drop
<1>2. feed' = [d \in Subscribers |-> IF d \in {c} THEN Stream!Closed ELSE feed[d]]
  BY <1>1 DEF StreamInv, StreamTypes
<1>3. /\ StreamTypes'
      /\ \A d \in Subscribers : ClientOK(feed'[d], pipe'[d], read'[d], sent'[d], spilled'[d])
      /\ \A d \in Keepers : KeeperOK(feed'[d], pipe'[d], read'[d])
  BY <1>1, <1>2, SpillStep
<1> QED
  BY <1>1, <1>3 DEF StreamInv

LEMMA StopStep ==
  ASSUME StreamInv, NEW torn \in BOOLEAN, Stream!Stop(torn) PROVE StreamInv'
<1> DEFINE x == [kind |-> "torn", client |-> "", offset |-> 0]
           file == IF torn THEN Stream!Appended(x) ELSE lines
<1>1. Stream!Clients = Subscribers
  BY DEF Stream!Clients, Subscribers
<1>2. /\ feed' = [d \in Subscribers |-> Stream!Closed] /\ Stream!Spill(Subscribers)
      /\ UNCHANGED <<log, read, sent>>
      /\ lines' = file /\ mem' = Stream!OpenJournal(file)
  BY <1>1 DEF Stream!Stop
<1>3. feed' = [d \in Subscribers |-> IF d \in Subscribers THEN Stream!Closed ELSE feed[d]]
  BY <1>2
<1>4. /\ StreamTypes'
      /\ \A d \in Subscribers : ClientOK(feed'[d], pipe'[d], read'[d], sent'[d], spilled'[d])
      /\ \A d \in Keepers : KeeperOK(feed'[d], pipe'[d], read'[d])
  BY <1>2, <1>3, SpillStep
<1>5. x \in Lines /\ CursorOK(x, sent)
  BY DEF Lines, CursorOK
<1> HIDE DEF x
<1>6. Journal(file, sent)
  <2>1. Journal(lines, sent)
    BY DEF StreamInv
  <2>2. Journal(Stream!Appended(x), sent)
    BY <2>1, <1>5, AppendedOK
  <2> QED
    BY <2>1, <2>2
<1> HIDE DEF file
<1>7. Memory(Stream!OpenJournal(file), sent)
  BY <1>6, OpenJournalOK
<1> QED
  BY <1>2, <1>4, <1>6, <1>7 DEF StreamInv

LEMMA StreamStart == Stream!Init => StreamInv
<1> SUFFICES ASSUME Stream!Init PROVE StreamInv
  OBVIOUS
<1>1. Stream!Clients = Subscribers
  BY DEF Stream!Clients, Subscribers
<1>2. /\ log = 0 /\ feed = [c \in Subscribers |-> Stream!Closed]
      /\ pipe = [c \in Subscribers |-> <<>>] /\ read = [c \in Subscribers |-> <<>>]
      /\ sent = [c \in Subscribers |-> 0] /\ spilled = [c \in Subscribers |-> {}]
      /\ lines = <<>> /\ mem = Stream!Opened(<<>>)
  BY <1>1 DEF Stream!Init
<1>3. /\ Stream!Closed \in Feeds /\ Stream!Closed.at = "closed" /\ <<>> \in Seq(Nat)
      /\ <<>> \in Seq(Lines) /\ Len(<<>>) = 0 /\ 1..0 = {}
  BY EmptySeq DEF Stream!Closed, Feeds
<1>4. ASSUME NEW j PROVE ~In(j, <<>>)
  BY <1>3 DEF In
<1>5. ClientOK(Stream!Closed, <<>>, <<>>, 0, {}) /\ KeeperOK(Stream!Closed, <<>>, <<>>)
  BY <1>3, <1>4 DEF ClientOK, KeeperOK
<1>6. Journal(<<>>, sent)
  BY <1>3 DEF Journal
<1>7. Memory(Stream!Opened(<<>>), sent)
  BY <1>3, OpenedOK
<1>8. StreamTypes
  BY <1>2, <1>3 DEF StreamTypes
<1>9. /\ \A d \in Subscribers : ClientOK(feed[d], pipe[d], read[d], sent[d], spilled[d])
      /\ \A d \in Keepers : KeeperOK(feed[d], pipe[d], read[d])
  BY <1>2, <1>5 DEF Subscribers
<1> QED
  BY <1>2, <1>6, <1>7, <1>8, <1>9 DEF StreamInv

LEMMA StreamStep ==
  ASSUME StreamAssumptions, StreamInv, [Stream!Next]_(Stream!daemonVars) PROVE StreamInv'
<1>1. Stream!Clients = Subscribers
  BY DEF Stream!Clients, Subscribers
<1>2. CASE Stream!Commit
  BY <1>2, CommitStep
<1>3. ASSUME NEW c \in Subscribers, Stream!Connect(c) \/ Stream!Poll(c) \/ Stream!Read(c) \/ Stream!Drop(c)
      PROVE  StreamInv'
  BY <1>3, ConnectStep, PollStep, ReadStep, DropStep
<1>4. ASSUME NEW c \in Subscribers, NEW works \in BOOLEAN, Stream!Persist(c, works)
      PROVE  StreamInv'
  BY <1>4, PersistStep
<1>5. ASSUME NEW torn \in BOOLEAN, Stream!Stop(torn) PROVE StreamInv'
  BY <1>5, StopStep
<1>6. CASE UNCHANGED Stream!daemonVars
  BY <1>6 DEF Stream!daemonVars, StreamInv, StreamTypes
<1> QED
  BY <1>1, <1>2, <1>3, <1>4, <1>5, <1>6 DEF Stream!Next

LEMMA StreamInvImplies ==
  ASSUME StreamInv PROVE Stream!StreamAccounted
<1>1. ASSUME NEW c \in Keepers, NEW i \in DOMAIN read[c] PROVE read[c][i] = i
  <2>1. DOMAIN read[c] = 1..Len(read[c])
    BY LenProperties DEF StreamInv, StreamTypes, Subscribers
  <2> QED
    BY <2>1 DEF StreamInv, KeeperOK
<1>2. ASSUME NEW c \in Named PROVE Stream!LastCursor(c) <= sent[c]
  <2>1. c \in Subscribers /\ sent \in [Subscribers -> Nat] /\ Memory(mem, sent)
    BY DEF StreamInv, StreamTypes, Subscribers
  <2> QED
    BY <2>1, CursorIsSent
<1>3. ASSUME NEW c \in Named, NEW seen, seen = {read[c][i] : i \in DOMAIN read[c]}, seen # {},
             NEW j \in (1..Stream!Max(seen)) \ seen
      PROVE  j \in spilled[c]
  <2>1. /\ c \in Subscribers /\ read[c] \in Seq(Nat) /\ sent[c] \in Nat
        /\ ClientOK(feed[c], pipe[c], read[c], sent[c], spilled[c])
    BY DEF StreamInv, StreamTypes, Subscribers
  <2>2. DOMAIN read[c] = 1..Len(read[c])
    BY <2>1, LenProperties
  <2>3. seen \subseteq 1..sent[c]
    BY <2>1, <2>2, <1>3 DEF ClientOK
  <2>4. Stream!Max(seen) \in seen
    BY <2>1, <2>3, <1>3, LargestNumber
  <2>5. Stream!Max(seen) \in 1..sent[c] /\ j \in 1..sent[c] /\ j <= Stream!Max(seen) /\ j \in Nat
    <3> DEFINE m == Stream!Max(seen)
    <3>1. m \in 1..sent[c] /\ j \in 1..m
      BY <2>3, <2>4
    <3> HIDE DEF m
    <3>2. j \in 1..sent[c] /\ j <= m /\ j \in Nat
      BY <3>1, <2>1
    <3> QED
      BY <3>1, <3>2 DEF m
  <2>6. ~In(j, read[c])
    BY <2>2, <1>3 DEF In
  <2>7. ~(\A i \in 1..Len(read[c]) : read[c][i] < j)
    <3>1. PICK i \in 1..Len(read[c]) : read[c][i] = Stream!Max(seen)
      BY <2>2, <2>4, <1>3
    <3> QED
      BY <3>1, <2>1, <2>5
  <2> QED
    BY <2>1, <2>5, <2>6, <2>7 DEF ClientOK
<1>4. Stream!KeepersGetAll
  BY <1>1 DEF Stream!KeepersGetAll
<1>5. Stream!NamedMissOnlySpilled
  BY <1>2, <1>3 DEF Stream!NamedMissOnlySpilled
<1> QED
  BY <1>4, <1>5 DEF Stream!StreamAccounted

\* sse_stream (daemon.rs), for any clients and any number of events, lost connections
\* and crashes: a client that passes its own offset gets every event once and in order; a
\* client that leaves the cursor to the daemon misses, below the newest event it has,
\* only events that were on the wire of a connection it lost; and the cursor journal
\* (ProtocolStateStore), torn or garbled, never yields a cursor beyond what was written.
THEOREM StreamIsAccounted ==
  ASSUME StreamAssumptions PROVE Stream!DaemonSpec => []Stream!StreamAccounted
<1>1. Stream!Init => StreamInv
  BY StreamStart
<1>2. StreamInv /\ [Stream!Next]_(Stream!daemonVars) => StreamInv'
  BY StreamStep
<1>3. StreamInv => Stream!StreamAccounted
  BY StreamInvImplies
<1> QED
  BY <1>1, <1>2, <1>3, PTL DEF Stream!DaemonSpec

-----------------------------------------------------------------------------
(***************************************************************************)
(* Automations (AutomationClock), for any number of cores that tick over   *)
(* one store, rows, minutes, events, crashes and failed writes, and for    *)
(* any meaning of a cron field.                                            *)
(***************************************************************************)
CONSTANTS Engines, Requests, Fires(_, _), MaxRows, MaxMinute, MaxEvents, MaxSlips

VARIABLES minute, events, autos, eng, tasks, slips, excused

Clock == INSTANCE AutomationClock

Kinds == {"session_created", "task_created", "task_completed"}
Rows == [cron : {r.cron : r \in Requests}, event : {r.event : r \in Requests},
         enabled : BOOLEAN, key : Nat]
Spawned == [row : Nat, cause : Nat, queued : BOOLEAN]
Reads == [row : Nat, enabled : BOOLEAN, key : Nat]
Ticks == [at : {"idle", "next", "queue", "record"}, todo : Seq(Reads), key : Nat,
          task : Nat, cause : Nat]

\* Task t was queued for cause k of row i.
IsQueued(ts, t, i, k) ==
  t \in 1..Len(ts) /\ ts[t].row = i /\ ts[t].cause = k /\ ts[t].queued = TRUE

InFlight(x) == x.at = "queue" \/ x.at = "record"
FlightOf(x, i, k) == Head(x.todo).row = i /\ x.cause = k

\* A tick has read rows of the table, at a minute not before what it read of a cron row,
\* and its task is the one of the row and the cause it works on.
TickOK(x, a, ts, m) ==
  /\ x.key <= m
  /\ \A p \in 1..Len(x.todo) :
       /\ x.todo[p].row \in 1..Len(a)
       /\ a[x.todo[p].row].event = "" => x.todo[p].key <= x.key
  /\ InFlight(x) =>
       /\ x.todo # <<>>
       /\ x.task \in 1..Len(ts)
       /\ x.cause # 0
       /\ ts[x.task].row = Head(x.todo).row
       /\ ts[x.task].cause = x.cause
       /\ ts[x.task].queued = (x.at = "record")
       /\ a[Head(x.todo).row].event = "" => x.cause <= x.key

\* A recorded fire was queued.
KeysReal(a, ts) == \A i \in 1..Len(a) : a[i].key # 0 => \E t : IsQueued(ts, t, i, a[i].key)

\* A pair that is not excused is queued once,
OneFire(ts, ex) ==
  \A t, u, i, k : IsQueued(ts, t, i, k) /\ IsQueued(ts, u, i, k) => t = u \/ <<i, k>> \in ex

\* and then is recorded, or about to be;
FiresRecorded(a, e, ts, ex) ==
  \A t, i, k : IsQueued(ts, t, i, k) =>
    \/ k <= a[i].key
    \/ <<i, k>> \in ex
    \/ \E c \in Engines : e[c].at = "record" /\ FlightOf(e[c], i, k)

\* an engine about to queue a task is the first to do so,
FirstToQueue(e, ts, ex) ==
  \A c \in Engines : \A t, i, k :
    e[c].at = "queue" /\ FlightOf(e[c], i, k) /\ IsQueued(ts, t, i, k) => <<i, k>> \in ex

\* and no two engines are at one task, or at one pair.
AloneAtPair(e, ex) ==
  \A c, d \in Engines : c # d /\ InFlight(e[c]) /\ InFlight(e[d]) =>
    /\ e[c].task # e[d].task
    /\ \A i, k : FlightOf(e[c], i, k) /\ FlightOf(e[d], i, k) => <<i, k>> \in ex

FiringOK(a, e, ts, ex) ==
  /\ KeysReal(a, ts) /\ OneFire(ts, ex) /\ FiresRecorded(a, e, ts, ex)
  /\ FirstToQueue(e, ts, ex) /\ AloneAtPair(e, ex)

ClockTypes ==
  /\ minute \in Nat
  /\ events \in Seq(Kinds)
  /\ autos \in Seq(Rows)
  /\ tasks \in Seq(Spawned)
  /\ eng \in [Engines -> Ticks]

ClockInv ==
  /\ ClockTypes
  /\ \A i \in 1..Len(autos) : autos[i].event = "" => autos[i].key <= minute
  /\ \A t \in 1..Len(tasks) : tasks[t].row \in 1..Len(autos)
  /\ \A c \in Engines : TickOK(eng[c], autos, tasks, minute)
  /\ FiringOK(autos, eng, tasks, excused)

-----------------------------------------------------------------------------
(* What is kept of a tick when the tables grow.                            *)

LEMMA TickKept ==
  ASSUME NEW x \in Ticks, NEW a \in Seq(Rows), NEW b \in Seq(Rows),
         NEW ts \in Seq(Spawned), NEW us \in Seq(Spawned), NEW m \in Nat, NEW n \in Nat,
         TickOK(x, a, ts, m), m <= n, Len(a) <= Len(b), Len(ts) <= Len(us),
         \A i \in 1..Len(a) : b[i].event = a[i].event,
         InFlight(x) => us[x.task] = ts[x.task]
  PROVE  TickOK(x, b, us, n)
<1>1. x.key \in Nat /\ x.todo \in Seq(Reads) /\ Len(x.todo) \in Nat
  BY DEF Ticks
<1>2. x.key <= n
  <2> DEFINE key == x.key
  <2>1. key \in Nat /\ key <= m
    BY <1>1 DEF TickOK
  <2> HIDE DEF key
  <2>2. key <= n
    BY <2>1
  <2> QED
    BY <2>2 DEF key
<1>3. ASSUME NEW p \in 1..Len(x.todo)
      PROVE  /\ x.todo[p].row \in 1..Len(b)
             /\ b[x.todo[p].row].event = "" => x.todo[p].key <= x.key
  <2>1. x.todo[p].row \in 1..Len(a)
    BY DEF TickOK
  <2>2. x.todo[p].row \in 1..Len(b)
    BY <2>1
  <2> QED
    BY <2>1, <2>2 DEF TickOK
<1>4. ASSUME InFlight(x)
      PROVE  /\ x.todo # <<>> /\ x.task \in 1..Len(us) /\ x.cause # 0
             /\ us[x.task] = ts[x.task]
             /\ b[Head(x.todo).row].event = a[Head(x.todo).row].event
  <2>1. x.todo # <<>> /\ x.task \in 1..Len(ts) /\ x.cause # 0
    BY <1>4 DEF TickOK
  <2>2. 1 \in 1..Len(x.todo) /\ Head(x.todo) = x.todo[1]
    BY <2>1, <1>1
  <2>3. Head(x.todo).row \in 1..Len(a)
    BY <2>2 DEF TickOK
  <2>4. x.task \in 1..Len(us)
    BY <2>1
  <2> QED
    BY <2>1, <2>3, <2>4, <1>4
<1> QED
  BY <1>2, <1>3, <1>4 DEF TickOK

SameTriggers(a, b) == Len(a) = Len(b) /\ \A i \in 1..Len(a) : b[i].event = a[i].event

LEMMA TickKeptByRows ==
  ASSUME NEW x \in Ticks, NEW a \in Seq(Rows), NEW b \in Seq(Rows), NEW ts \in Seq(Spawned),
         NEW m \in Nat, TickOK(x, a, ts, m), SameTriggers(a, b)
  PROVE  TickOK(x, b, ts, m)
<1>1. m <= m /\ Len(a) <= Len(b) /\ Len(ts) <= Len(ts)
  BY DEF SameTriggers
<1> QED
  BY <1>1, TickKept DEF SameTriggers

\* Without a task, a tick that goes on with what it has read, or with the rest of it.
LEMMA TickGoesOn ==
  ASSUME NEW x \in Ticks, NEW y \in Ticks, NEW a, NEW ts, NEW m, TickOK(x, a, ts, m),
         y.key = x.key, ~InFlight(y),
         y.todo = x.todo \/ (x.todo # <<>> /\ y.todo = Tail(x.todo))
  PROVE  TickOK(y, a, ts, m)
<1>1. x.todo \in Seq(Reads) /\ Len(x.todo) \in Nat
  BY DEF Ticks
<1>2. ASSUME NEW p \in 1..Len(y.todo) PROVE \E q \in 1..Len(x.todo) : y.todo[p] = x.todo[q]
  <2>1. CASE y.todo = x.todo
    BY <2>1
  <2>2. CASE x.todo # <<>> /\ y.todo = Tail(x.todo)
    <3>1. Len(y.todo) = Len(x.todo) - 1 /\ y.todo[p] = x.todo[p + 1]
      BY <2>2, <1>1
    <3> QED
      BY <3>1, <1>1
  <2> QED
    BY <2>1, <2>2
<1> QED
  BY <1>2 DEF TickOK

-----------------------------------------------------------------------------
(* The steps that leave the tables alone.                                  *)

\* An engine stops working on a task: one that was queued is then excused.
LEMMA FlightEnds ==
  ASSUME NEW a, NEW e, NEW ts, NEW ex, NEW f, NEW fx, NEW c \in Engines,
         FiringOK(a, e, ts, ex), ~InFlight(f[c]),
         \A d \in Engines : d # c => f[d] = e[d],
         ex \subseteq fx,
         e[c].at = "record" => <<Head(e[c].todo).row, e[c].cause>> \in fx
  PROVE  FiringOK(a, f, ts, fx)
<1>1. KeysReal(a, ts) /\ OneFire(ts, fx)
  BY DEF FiringOK, OneFire
<1>2. FiresRecorded(a, f, ts, fx)
  <2> SUFFICES ASSUME NEW t, NEW i, NEW k, IsQueued(ts, t, i, k)
               PROVE  \/ k <= a[i].key
                      \/ <<i, k>> \in fx
                      \/ \E d \in Engines : f[d].at = "record" /\ FlightOf(f[d], i, k)
    BY DEF FiresRecorded
  <2>1. \/ k <= a[i].key
        \/ <<i, k>> \in ex
        \/ \E d \in Engines : e[d].at = "record" /\ FlightOf(e[d], i, k)
    BY DEF FiringOK, FiresRecorded
  <2>2. ASSUME NEW d \in Engines, e[d].at = "record", FlightOf(e[d], i, k)
        PROVE  <<i, k>> \in fx \/ (f[d].at = "record" /\ FlightOf(f[d], i, k))
    <3>1. CASE d = c
      BY <3>1, <2>2 DEF FlightOf
    <3>2. CASE d # c
      BY <3>2, <2>2
    <3> QED
      BY <3>1, <3>2
  <2> QED
    BY <2>1, <2>2
<1>3. \A d \in Engines : InFlight(f[d]) => d # c /\ f[d] = e[d]
  OBVIOUS
<1>4. FirstToQueue(f, ts, fx)
  <2>1. \A d \in Engines : f[d].at = "queue" => f[d] = e[d]
    BY <1>3 DEF InFlight
  <2> QED
    BY <2>1 DEF FiringOK, FirstToQueue
<1>5. AloneAtPair(f, fx)
  BY <1>3 DEF FiringOK, AloneAtPair
<1> QED
  BY <1>1, <1>2, <1>4, <1>5 DEF FiringOK

-----------------------------------------------------------------------------
(* Creating, queueing and recording, as steps of the tables.               *)

\* What record_fire writes, and which fires are forgotten by it.
FireIsWritten(a, b, i, k, ex, fx) ==
  /\ b = [a EXCEPT ![i].key = k]
  /\ fx = ex \cup {<<i, j>> : j \in (k + 1)..a[i].key}

Recording(a, b, e, f, ts, ex, fx, c, i, k) ==
  /\ FiringOK(a, e, ts, ex) /\ \A t \in 1..Len(ts) : ts[t].row \in 1..Len(a)
  /\ e[c].at = "record" /\ FlightOf(e[c], i, k) /\ IsQueued(ts, e[c].task, i, k)
  /\ ~InFlight(f[c]) /\ \A d \in Engines : d # c => f[d] = e[d]
  /\ FireIsWritten(a, b, i, k, ex, fx)

LEMMA FireRecorded ==
  ASSUME NEW a \in Seq(Rows), NEW b, NEW e, NEW ts \in Seq(Spawned), NEW ex, NEW f, NEW fx,
         NEW c \in Engines, NEW i \in 1..Len(a), NEW k \in Nat,
         Recording(a, b, e, f, ts, ex, fx, c, i, k)
  PROVE  FiringOK(b, f, ts, fx)
<1> SUFFICES ASSUME FiringOK(a, e, ts, ex), \A t \in 1..Len(ts) : ts[t].row \in 1..Len(a),
                    e[c].at = "record", FlightOf(e[c], i, k), IsQueued(ts, e[c].task, i, k),
                    ~InFlight(f[c]), \A d \in Engines : d # c => f[d] = e[d],
                    FireIsWritten(a, b, i, k, ex, fx)
             PROVE  FiringOK(b, f, ts, fx)
  BY DEF Recording
<1>1. /\ Len(b) = Len(a) /\ b[i].key = k
      /\ \A j \in 1..Len(a) : j # i => b[j] = a[j]
  BY DEF Rows, FireIsWritten
<1>2. KeysReal(b, ts)
  <2> SUFFICES ASSUME NEW j \in 1..Len(a), b[j].key # 0
               PROVE  \E t : IsQueued(ts, t, j, b[j].key)
    BY <1>1 DEF KeysReal
  <2>1. CASE j = i
    BY <2>1, <1>1
  <2>2. CASE j # i
    BY <2>2, <1>1 DEF FiringOK, KeysReal
  <2> QED
    BY <2>1, <2>2
<1>0. ex \subseteq fx
  BY DEF FireIsWritten
<1>3. OneFire(ts, fx)
  BY <1>0 DEF FiringOK, OneFire
<1>4. FiresRecorded(b, f, ts, fx)
  <2> SUFFICES ASSUME NEW t, NEW j, NEW l, IsQueued(ts, t, j, l)
               PROVE  \/ l <= b[j].key
                      \/ <<j, l>> \in fx
                      \/ \E d \in Engines : f[d].at = "record" /\ FlightOf(f[d], j, l)
    BY DEF FiresRecorded
  <2>1. j \in 1..Len(a) /\ l \in Nat
    <3>1. t \in 1..Len(ts) /\ ts[t] \in Spawned /\ ts[t].row = j /\ ts[t].cause = l
      BY DEF IsQueued
    <3>2. ts[t].cause \in Nat
      BY <3>1 DEF Spawned
    <3> QED
      BY <3>1, <3>2
  <2>2. \/ l <= a[j].key
        \/ <<j, l>> \in ex
        \/ \E d \in Engines : e[d].at = "record" /\ FlightOf(e[d], j, l)
    BY DEF FiringOK, FiresRecorded
  <2>3. CASE l <= a[j].key
    <3>1. CASE j = i
      <4> DEFINE top == a[i].key
      <4>1. top \in Nat /\ l <= top
        <5>1. a[i] \in Rows
          OBVIOUS
        <5> QED
          BY <5>1, <2>3, <3>1 DEF Rows
      <4>2. fx = ex \cup {<<i, h>> : h \in (k + 1)..top}
        BY DEF FireIsWritten
      <4> HIDE DEF top
      <4>3. l <= k \/ l \in (k + 1)..top
        BY <4>1, <2>1
      <4> QED
        BY <4>2, <4>3, <3>1, <1>1
    <3>2. CASE j # i
      BY <3>2, <2>3, <2>1, <1>1
    <3> QED
      BY <3>1, <3>2
  <2>4. CASE <<j, l>> \in ex
    BY <2>4, <1>0
  <2>5. ASSUME NEW d \in Engines, e[d].at = "record", FlightOf(e[d], j, l)
        PROVE  \/ l <= b[j].key
               \/ f[d].at = "record" /\ FlightOf(f[d], j, l)
    <3>1. CASE d = c
      <4>1. j = i /\ l = k
        BY <2>5, <3>1 DEF FlightOf
      <4> QED
        BY <4>1, <1>1, <2>1
    <3>2. CASE d # c
      BY <3>2, <2>5
    <3> QED
      BY <3>1, <3>2
  <2> QED
    BY <2>2, <2>3, <2>4, <2>5
<1>5. \A d \in Engines : InFlight(f[d]) => d # c /\ f[d] = e[d]
  OBVIOUS
<1>6. FirstToQueue(f, ts, fx)
  <2>1. \A d \in Engines : f[d].at = "queue" => f[d] = e[d]
    BY <1>5 DEF InFlight
  <2> QED
    BY <2>1, <1>0 DEF FiringOK, FirstToQueue
<1>7. AloneAtPair(f, fx)
  BY <1>5, <1>0 DEF FiringOK, AloneAtPair
<1> QED
  BY <1>2, <1>3, <1>4, <1>6, <1>7 DEF FiringOK

RowIsWritten(a, b, i, k) ==
  /\ b \in Seq(Rows) /\ Len(b) = Len(a) /\ b[i].key = k
  /\ \A j \in 1..Len(a) : b[j].event = a[j].event
  /\ \A j \in 1..Len(a) : j # i => b[j].key = a[j].key

LEMMA RowsWritten ==
  ASSUME NEW a \in Seq(Rows), NEW b, NEW ex, NEW fx, NEW i \in 1..Len(a), NEW k \in Nat,
         FireIsWritten(a, b, i, k, ex, fx)
  PROVE  RowIsWritten(a, b, i, k)
<1> DEFINE x == [a[i] EXCEPT !.key = k]
<1>1. a[i] \in Rows
  OBVIOUS
<1>2. x \in Rows /\ x.key = k /\ x.event = a[i].event
  BY <1>1 DEF Rows
<1>3. b = [a EXCEPT ![i] = x]
  BY DEF FireIsWritten
<1> HIDE DEF x
<1> QED
  BY <1>2, <1>3 DEF RowIsWritten

\* An engine begins on a pair: unless it is excused, it is newer than what is recorded,
\* and nobody else is at the row.
Creating(a, e, f, ts, us, ex, fx, c, i, k) ==
  /\ FiringOK(a, e, ts, ex)
  /\ \A d \in Engines : InFlight(e[d]) => e[d].task \in 1..Len(ts)
  /\ ~InFlight(e[c])
  /\ f[c].at = "queue" /\ FlightOf(f[c], i, k) /\ f[c].task = Len(ts) + 1
  /\ \A d \in Engines : d # c => f[d] = e[d]
  /\ us = Append(ts, [row |-> i, cause |-> k, queued |-> FALSE])
  /\ ex \subseteq fx
  /\ \/ <<i, k>> \in fx
     \/ /\ ~(k <= a[i].key)
        /\ \A d \in Engines : d # c /\ InFlight(e[d]) => Head(e[d].todo).row # i

LEMMA TaskCreated ==
  ASSUME NEW a \in Seq(Rows), NEW e, NEW ts \in Seq(Spawned), NEW ex, NEW f, NEW us, NEW fx,
         NEW c \in Engines, NEW i \in 1..Len(a), NEW k \in Nat,
         Creating(a, e, f, ts, us, ex, fx, c, i, k)
  PROVE  FiringOK(a, f, us, fx)
<1> SUFFICES ASSUME FiringOK(a, e, ts, ex),
                    \A d \in Engines : InFlight(e[d]) => e[d].task \in 1..Len(ts),
                    ~InFlight(e[c]), f[c].at = "queue", FlightOf(f[c], i, k), f[c].task = Len(ts) + 1,
                    \A d \in Engines : d # c => f[d] = e[d],
                    us = Append(ts, [row |-> i, cause |-> k, queued |-> FALSE]),
                    ex \subseteq fx,
                    \/ <<i, k>> \in fx
                    \/ /\ ~(k <= a[i].key)
                       /\ \A d \in Engines : d # c /\ InFlight(e[d]) => Head(e[d].todo).row # i
             PROVE  FiringOK(a, f, us, fx)
  BY DEF Creating
<1>1. \A t, j, l : IsQueued(us, t, j, l) <=> IsQueued(ts, t, j, l)
  <2> TAKE t, j, l
  <2>1. Len(us) = Len(ts) + 1 /\ \A u \in 1..Len(ts) : us[u] = ts[u]
    OBVIOUS
  <2>2. us[Len(ts) + 1] = [row |-> i, cause |-> k, queued |-> FALSE]
    OBVIOUS
  <2>3. us[Len(ts) + 1].queued = FALSE
    BY <2>2
  <2>4. 1..Len(us) = 1..Len(ts) \cup {Len(ts) + 1}
    BY <2>1
  <2> QED
    BY <2>1, <2>3, <2>4 DEF IsQueued
<1>2. KeysReal(a, us) /\ OneFire(us, fx)
  BY <1>1 DEF FiringOK, KeysReal, OneFire
<1>3. FiresRecorded(a, f, us, fx)
  <2> SUFFICES ASSUME NEW t, NEW j, NEW l, IsQueued(ts, t, j, l)
               PROVE  \/ l <= a[j].key
                      \/ <<j, l>> \in fx
                      \/ \E d \in Engines : f[d].at = "record" /\ FlightOf(f[d], j, l)
    BY <1>1 DEF FiresRecorded
  <2>1. \A d \in Engines : e[d].at = "record" => f[d] = e[d]
    BY DEF InFlight
  <2> QED
    BY <2>1 DEF FiringOK, FiresRecorded
<1>4. FirstToQueue(f, us, fx)
  <2> SUFFICES ASSUME NEW d \in Engines, NEW t, NEW j, NEW l,
                      f[d].at = "queue", FlightOf(f[d], j, l), IsQueued(ts, t, j, l),
                      <<j, l>> \notin fx
               PROVE  FALSE
    BY <1>1 DEF FirstToQueue
  <2>1. CASE d # c
    <3>1. e[d].at = "queue" /\ FlightOf(e[d], j, l)
      BY <2>1
    <3> QED
      BY <3>1 DEF FiringOK, FirstToQueue
  <2>2. CASE d = c
    <3>1. j = i /\ l = k
      BY <2>2 DEF FlightOf
    <3>2. PICK h \in Engines : e[h].at = "record" /\ FlightOf(e[h], i, k)
      BY <3>1 DEF FiringOK, FiresRecorded
    <3>3. h # c /\ InFlight(e[h]) /\ Head(e[h].todo).row = i
      BY <3>2 DEF InFlight, FlightOf
    <3> QED
      BY <3>1, <3>3
  <2> QED
    BY <2>1, <2>2
<1>5. AloneAtPair(f, fx)
  <2>1. ASSUME NEW d \in Engines, d # c, InFlight(f[d])
        PROVE  /\ f[d].task # f[c].task
               /\ \A j, l : FlightOf(f[c], j, l) /\ FlightOf(f[d], j, l) => <<j, l>> \in fx
    <3>1. InFlight(e[d]) /\ f[d] = e[d]
      BY <2>1
    <3>2. f[d].task # f[c].task
      BY <3>1
    <3>3. ASSUME NEW j, NEW l, FlightOf(f[c], j, l), FlightOf(f[d], j, l)
          PROVE  <<j, l>> \in fx
      <4>1. j = i /\ l = k /\ Head(e[d].todo).row = i
        BY <3>1, <3>3 DEF FlightOf
      <4> QED
        BY <4>1, <3>1, <2>1
    <3> QED
      BY <3>2, <3>3
  <2>2. ASSUME NEW d \in Engines, NEW h \in Engines, d # h, d # c, h # c, InFlight(f[d]), InFlight(f[h])
        PROVE  /\ f[d].task # f[h].task
               /\ \A j, l : FlightOf(f[d], j, l) /\ FlightOf(f[h], j, l) => <<j, l>> \in fx
    BY <2>2 DEF FiringOK, AloneAtPair
  <2> QED
    BY <2>1, <2>2 DEF AloneAtPair
<1> QED
  BY <1>2, <1>3, <1>4, <1>5 DEF FiringOK

Queueing(a, e, f, ts, us, ex, c, i, k) ==
  /\ FiringOK(a, e, ts, ex)
  /\ e[c].at = "queue" /\ FlightOf(e[c], i, k)
  /\ ts[e[c].task].row = i /\ ts[e[c].task].cause = k
  /\ f[c].at = "record" /\ FlightOf(f[c], i, k) /\ f[c].task = e[c].task
  /\ \A d \in Engines : d # c => f[d] = e[d]
  /\ us = [ts EXCEPT ![e[c].task].queued = TRUE]

LEMMA TaskQueued ==
  ASSUME NEW a, NEW e, NEW ts \in Seq(Spawned), NEW ex, NEW f, NEW us,
         NEW c \in Engines, NEW i, NEW k, NEW t0 \in 1..Len(ts), t0 = e[c].task,
         Queueing(a, e, f, ts, us, ex, c, i, k)
  PROVE  FiringOK(a, f, us, ex)
<1> SUFFICES ASSUME FiringOK(a, e, ts, ex),
                    e[c].at = "queue", FlightOf(e[c], i, k), e[c].task = t0,
                    ts[t0].row = i, ts[t0].cause = k,
                    f[c].at = "record", FlightOf(f[c], i, k), f[c].task = t0,
                    \A d \in Engines : d # c => f[d] = e[d],
                    us = [ts EXCEPT ![t0].queued = TRUE]
             PROVE  FiringOK(a, f, us, ex)
  BY DEF Queueing
<1>1. \A t, j, l : IsQueued(us, t, j, l) <=> IsQueued(ts, t, j, l) \/ (t = t0 /\ j = i /\ l = k)
  <2> TAKE t, j, l
  <2>1. Len(us) = Len(ts) /\ \A u \in 1..Len(ts) : u # t0 => us[u] = ts[u]
    OBVIOUS
  <2>2. us[t0].row = i /\ us[t0].cause = k /\ us[t0].queued = TRUE
    BY DEF Spawned
  <2> QED
    BY <2>1, <2>2 DEF IsQueued
<1>2. KeysReal(a, us)
  BY <1>1 DEF FiringOK, KeysReal
<1>3. \A t : IsQueued(ts, t, i, k) => <<i, k>> \in ex
  BY DEF FiringOK, FirstToQueue
<1>4. OneFire(us, ex)
  <2> SUFFICES ASSUME NEW t, NEW u, NEW j, NEW l, IsQueued(us, t, j, l), IsQueued(us, u, j, l),
                      t # u
               PROVE  <<j, l>> \in ex
    BY DEF OneFire
  <2>1. CASE IsQueued(ts, t, j, l) /\ IsQueued(ts, u, j, l)
    BY <2>1 DEF FiringOK, OneFire
  <2>2. CASE j = i /\ l = k
    <3>1. IsQueued(ts, t, j, l) \/ t = t0
      BY <1>1
    <3>2. IsQueued(ts, u, j, l) \/ u = t0
      BY <1>1
    <3> QED
      BY <3>1, <3>2, <2>2, <1>3
  <2> QED
    BY <2>1, <2>2, <1>1
<1>5. FiresRecorded(a, f, us, ex)
  <2> SUFFICES ASSUME NEW t, NEW j, NEW l, IsQueued(us, t, j, l)
               PROVE  \/ l <= a[j].key
                      \/ <<j, l>> \in ex
                      \/ \E d \in Engines : f[d].at = "record" /\ FlightOf(f[d], j, l)
    BY DEF FiresRecorded
  <2>1. CASE IsQueued(ts, t, j, l)
    <3>1. \A d \in Engines : e[d].at = "record" => f[d] = e[d]
      OBVIOUS
    <3> QED
      BY <3>1, <2>1 DEF FiringOK, FiresRecorded
  <2>2. CASE j = i /\ l = k
    BY <2>2
  <2> QED
    BY <1>1, <2>1, <2>2
<1>6. FirstToQueue(f, us, ex)
  <2> SUFFICES ASSUME NEW d \in Engines, NEW t, NEW j, NEW l,
                      f[d].at = "queue", FlightOf(f[d], j, l), IsQueued(us, t, j, l)
               PROVE  <<j, l>> \in ex
    BY DEF FirstToQueue
  <2>1. d # c /\ e[d].at = "queue" /\ FlightOf(e[d], j, l)
    <3>1. d # c
      OBVIOUS
    <3> QED
      BY <3>1
  <2>2. CASE IsQueued(ts, t, j, l)
    BY <2>1, <2>2 DEF FiringOK, FirstToQueue
  <2>3. CASE j = i /\ l = k
    BY <2>1, <2>3 DEF FiringOK, AloneAtPair, InFlight
  <2> QED
    BY <1>1, <2>2, <2>3
<1>7. AloneAtPair(f, ex)
  <2>1. \A d \in Engines : d # c => f[d] = e[d]
    OBVIOUS
  <2>2. \A j, l : FlightOf(f[c], j, l) <=> FlightOf(e[c], j, l)
    BY DEF FlightOf
  <2>3. \A d \in Engines : /\ InFlight(f[d]) <=> InFlight(e[d])
                           /\ f[d].task = e[d].task
                           /\ \A j, l : FlightOf(f[d], j, l) <=> FlightOf(e[d], j, l)
    BY <2>1, <2>2 DEF InFlight
  <2> QED
    BY <2>3 DEF FiringOK, AloneAtPair
<1> QED
  BY <1>2, <1>4, <1>5, <1>6, <1>7 DEF FiringOK

-----------------------------------------------------------------------------
(* The actions of AutomationClock.                                         *)

\* A row that is added, or switched on or off, has fired for nothing new.
LEMMA TableKept ==
  ASSUME NEW a \in Seq(Rows), NEW b \in Seq(Rows), NEW e, NEW ts, NEW ex,
         FiringOK(a, e, ts, ex), \A t \in 1..Len(ts) : ts[t].row \in 1..Len(a),
         Len(a) <= Len(b), \A i \in 1..Len(a) : b[i].key = a[i].key,
         \A i \in 1..Len(b) : i \in 1..Len(a) \/ b[i].key = 0
  PROVE  FiringOK(b, e, ts, ex)
<1>1. KeysReal(b, ts)
  BY DEF FiringOK, KeysReal
<1>2. \A t, i, k : IsQueued(ts, t, i, k) => i \in 1..Len(a)
  BY DEF IsQueued
<1>3. FiresRecorded(b, e, ts, ex)
  <2> SUFFICES ASSUME NEW t, NEW i, NEW k, IsQueued(ts, t, i, k)
               PROVE  \/ k <= b[i].key
                      \/ <<i, k>> \in ex
                      \/ \E c \in Engines : e[c].at = "record" /\ FlightOf(e[c], i, k)
    BY DEF FiresRecorded
  <2>1. b[i].key = a[i].key
    BY <1>2
  <2> QED
    BY <2>1 DEF FiringOK, FiresRecorded
<1> QED
  BY <1>1, <1>3 DEF FiringOK

LEMMA RowStep ==
  ASSUME ClockInv, UNCHANGED <<minute, events, eng, tasks, excused>>, autos' \in Seq(Rows),
         Len(autos) <= Len(autos'),
         \A i \in 1..Len(autos) : autos'[i].key = autos[i].key /\ autos'[i].event = autos[i].event,
         \A i \in 1..Len(autos') : i \in 1..Len(autos) \/ autos'[i].key = 0
  PROVE  ClockInv'
<1>1. ClockTypes'
  BY DEF ClockInv, ClockTypes
<1>2. /\ autos \in Seq(Rows) /\ tasks \in Seq(Spawned) /\ minute \in Nat
      /\ \A t \in 1..Len(tasks) : tasks[t].row \in 1..Len(autos)
      /\ FiringOK(autos, eng, tasks, excused)
      /\ Len(autos) \in Nat /\ Len(autos') \in Nat
  <2>1. /\ autos \in Seq(Rows) /\ tasks \in Seq(Spawned) /\ minute \in Nat
        /\ \A t \in 1..Len(tasks) : tasks[t].row \in 1..Len(autos)
        /\ FiringOK(autos, eng, tasks, excused)
    BY DEF ClockInv, ClockTypes
  <2>2. Len(autos) \in Nat /\ Len(autos') \in Nat
    BY <2>1
  <2> QED
    BY <2>1, <2>2
<1>3. FiringOK(autos', eng', tasks', excused')
  BY <1>2, TableKept
<1>4. \A c \in Engines : TickOK(eng'[c], autos', tasks', minute')
  <2> TAKE c \in Engines
  <2>1. eng[c] \in Ticks /\ TickOK(eng[c], autos, tasks, minute)
    BY DEF ClockInv, ClockTypes
  <2>2. minute <= minute /\ Len(tasks) <= Len(tasks)
    BY <1>2
  <2> QED
    BY <1>2, <2>1, <2>2, TickKept
<1>5. \A t \in 1..Len(tasks') : tasks'[t].row \in 1..Len(autos')
  <2> TAKE t \in 1..Len(tasks')
  <2>1. tasks[t].row \in 1..Len(autos)
    BY <1>2
  <2> QED
    BY <2>1, <1>2
<1>6. \A i \in 1..Len(autos') : autos'[i].event = "" => autos'[i].key <= minute'
  <2> TAKE i \in 1..Len(autos')
  <2>1. CASE i \in 1..Len(autos)
    BY <2>1 DEF ClockInv
  <2>2. CASE autos'[i].key = 0
    <3>1. 0 <= minute'
      BY <1>2
    <3> QED
      BY <3>1, <2>2, Zenon
  <2> QED
    BY <2>1, <2>2
<1> QED
  BY <1>1, <1>3, <1>4, <1>5, <1>6 DEF ClockInv

LEMMA CreateStep ==
  ASSUME ClockInv, NEW r \in Requests, Clock!CreateAutomation(r) PROVE ClockInv'
<1> DEFINE x == [cron |-> r.cron, event |-> r.event, enabled |-> TRUE, key |-> 0]
<1>1. /\ autos' = Append(autos, x)
      /\ UNCHANGED <<minute, events, eng, tasks, excused>>
  BY DEF Clock!CreateAutomation, Clock!None
<1>2. x \in Rows /\ x.key = 0
  BY DEF Rows
<1>3. autos \in Seq(Rows)
  BY DEF ClockInv, ClockTypes
<1> HIDE DEF x
<1>4. /\ autos' \in Seq(Rows) /\ Len(autos') = Len(autos) + 1 /\ Len(autos) \in Nat
      /\ \A i \in 1..Len(autos) : autos'[i] = autos[i]
      /\ autos'[Len(autos) + 1] = x
  BY <1>1, <1>2, <1>3
<1>5. \A i \in 1..Len(autos') : i \in 1..Len(autos) \/ autos'[i].key = 0
  BY <1>4, <1>2
<1> QED
  BY <1>1, <1>4, <1>5, RowStep

LEMMA EnableStep ==
  ASSUME ClockInv, NEW i \in DOMAIN autos, NEW on \in BOOLEAN, Clock!SetEnabled(i, on)
  PROVE  ClockInv'
<1>1. autos \in Seq(Rows)
  BY DEF ClockInv, ClockTypes
<1>2. /\ autos' = [autos EXCEPT ![i].enabled = on]
      /\ UNCHANGED <<minute, events, eng, tasks, excused>>
  BY DEF Clock!SetEnabled
<1> DEFINE x == [autos[i] EXCEPT !.enabled = on]
<1>3. autos[i] \in Rows /\ i \in 1..Len(autos)
  BY <1>1
<1>4. x \in Rows /\ x.key = autos[i].key /\ x.event = autos[i].event
  BY <1>3 DEF Rows
<1>5. autos' = [autos EXCEPT ![i] = x]
  BY <1>2
<1> HIDE DEF x
<1>6. /\ autos' \in Seq(Rows) /\ Len(autos') = Len(autos) /\ Len(autos) \in Nat
      /\ \A j \in 1..Len(autos) : autos'[j].key = autos[j].key /\ autos'[j].event = autos[j].event
  BY <1>1, <1>3, <1>4, <1>5
<1> QED
  BY <1>2, <1>6, RowStep

\* The steps of an engine that leave the tables alone and end without a task.
LEMMA EngineStep ==
  ASSUME ClockInv, UNCHANGED <<minute, events, autos, tasks>>, NEW c \in Engines, NEW y \in Ticks,
         eng' = [eng EXCEPT ![c] = y], ~InFlight(y), TickOK(y, autos, tasks, minute),
         excused \subseteq excused',
         eng[c].at = "record" => <<Head(eng[c].todo).row, eng[c].cause>> \in excused'
  PROVE  ClockInv'
<1>1. ClockTypes'
  BY DEF ClockInv, ClockTypes
<1>2. eng'[c] = y /\ \A d \in Engines : d # c => eng'[d] = eng[d]
  BY DEF ClockInv, ClockTypes
<1>3. FiringOK(autos, eng, tasks, excused)
  BY DEF ClockInv
<1>4. FiringOK(autos', eng', tasks', excused')
  BY <1>2, <1>3, FlightEnds
<1>5. \A d \in Engines : TickOK(eng'[d], autos', tasks', minute')
  BY <1>2 DEF ClockInv
<1> QED
  BY <1>1, <1>4, <1>5 DEF ClockInv

LEMMA IdleOK ==
  ASSUME NEW a, NEW ts, NEW m \in Nat
  PROVE  Clock!IdleEngine \in Ticks /\ ~InFlight(Clock!IdleEngine) /\ TickOK(Clock!IdleEngine, a, ts, m)
<1> DEFINE x == Clock!IdleEngine
<1>1. x \in Ticks /\ x.at = "idle" /\ x.key = 0 /\ x.todo = <<>>
  BY DEF Clock!IdleEngine, Ticks
<1>2. 1..Len(x.todo) = {}
  BY <1>1
<1> HIDE DEF x
<1>3. ~InFlight(x)
  BY <1>1 DEF InFlight
<1>4. TickOK(x, a, ts, m)
  BY <1>1, <1>2, <1>3 DEF TickOK
<1> QED
  BY <1>1, <1>3, <1>4 DEF x

LEMMA TickStep ==
  ASSUME ClockInv, NEW c \in Engines, Clock!Tick(c) PROVE ClockInv'
<1> DEFINE y == [Clock!IdleEngine EXCEPT !.at = "next", !.key = minute, !.todo = Clock!Listed]
<1>1. /\ eng' = [eng EXCEPT ![c] = y] /\ eng[c].at = "idle"
      /\ UNCHANGED <<minute, events, autos, tasks, excused>>
  BY DEF Clock!Tick
<1>2. autos \in Seq(Rows) /\ minute \in Nat /\ Len(autos) \in Nat
  <2>1. autos \in Seq(Rows) /\ minute \in Nat
    BY DEF ClockInv, ClockTypes
  <2> QED
    BY <2>1
<1>3. Clock!Listed = [i \in 1..Len(autos) |->
                        [row |-> i, enabled |-> autos[i].enabled, key |-> autos[i].key]]
  BY <1>2 DEF Clock!Listed
<1>4. Clock!Listed \in Seq(Reads) /\ Len(Clock!Listed) = Len(autos)
  <2>1. ASSUME NEW i \in 1..Len(autos)
        PROVE  [row |-> i, enabled |-> autos[i].enabled, key |-> autos[i].key] \in Reads
    <3>1. autos[i] \in Rows /\ i \in Nat
      BY <1>2
    <3> QED
      BY <3>1 DEF Rows, Reads
  <2>2. Clock!Listed \in [1..Len(autos) -> Reads]
    BY <1>3, <2>1
  <2> QED
    BY <2>2, <1>2
<1>5. y \in Ticks /\ y.at = "next" /\ y.key = minute /\ y.todo = Clock!Listed
  <2>1. Clock!IdleEngine \in Ticks
    BY <1>2, IdleOK
  <2> QED
    BY <2>1, <1>2, <1>4 DEF Ticks
<1> HIDE DEF y
<1>6. ~InFlight(y)
  BY <1>5 DEF InFlight
<1>7. TickOK(y, autos, tasks, minute)
  <2>1. y.key <= minute
    BY <1>2, <1>5
  <2>2. ASSUME NEW p \in 1..Len(y.todo)
        PROVE  /\ y.todo[p].row \in 1..Len(autos)
               /\ autos[y.todo[p].row].event = "" => y.todo[p].key <= y.key
    <3>1. p \in 1..Len(autos) /\ y.todo[p].row = p /\ y.todo[p].key = autos[p].key /\ y.key = minute
      BY <1>3, <1>4, <1>5
    <3> QED
      BY <3>1 DEF ClockInv
  <2> QED
    BY <2>1, <2>2, <1>6 DEF TickOK
<1> QED
  BY <1>1, <1>5, <1>6, <1>7, EngineStep

\* An engine drops the row it was at and goes on.
LEMMA RestOK ==
  ASSUME ClockInv, NEW c \in Engines, eng[c].todo # <<>>
  PROVE  \E y \in Ticks : /\ Clock!Rest(c) = [eng EXCEPT ![c] = y]
                          /\ ~InFlight(y) /\ TickOK(y, autos, tasks, minute)
<1> DEFINE y == [eng[c] EXCEPT !.todo = Tail(eng[c].todo), !.at = "next"]
<1>1. eng \in [Engines -> Ticks] /\ eng[c] \in Ticks /\ TickOK(eng[c], autos, tasks, minute)
  BY DEF ClockInv, ClockTypes
<1>2. Clock!Rest(c) = [eng EXCEPT ![c] = y]
  BY <1>1 DEF Clock!Rest
<1>3. Tail(eng[c].todo) \in Seq(Reads)
  <2>1. eng[c].todo \in Seq(Reads)
    BY <1>1 DEF Ticks
  <2> QED
    BY <2>1
<1>4. /\ y \in Ticks /\ y.at = "next" /\ y.key = eng[c].key
      /\ y.todo = Tail(eng[c].todo)
  BY <1>1, <1>3 DEF Ticks
<1> HIDE DEF y
<1>5. ~InFlight(y)
  BY <1>4 DEF InFlight
<1>6. TickOK(y, autos, tasks, minute)
  BY <1>1, <1>4, <1>5, TickGoesOn
<1> QED
  BY <1>2, <1>4, <1>5, <1>6

LEMMA FlightHasRow ==
  ASSUME ClockInv, NEW c \in Engines, InFlight(eng[c])
  PROVE  /\ eng[c].todo # <<>> /\ eng[c].cause \in Nat
         /\ Head(eng[c].todo).row \in 1..Len(autos)
         /\ eng[c].task \in 1..Len(tasks)
         /\ tasks[eng[c].task].row = Head(eng[c].todo).row
         /\ tasks[eng[c].task].cause = eng[c].cause
         /\ tasks[eng[c].task].queued = (eng[c].at = "record")
<1>1. eng[c] \in Ticks /\ TickOK(eng[c], autos, tasks, minute)
  BY DEF ClockInv, ClockTypes
<1>2. eng[c].todo \in Seq(Reads) /\ eng[c].todo # <<>> /\ eng[c].cause \in Nat
  BY <1>1 DEF TickOK, Ticks
<1>3. 1 \in 1..Len(eng[c].todo) /\ Head(eng[c].todo) = eng[c].todo[1]
  BY <1>2
<1>4. Head(eng[c].todo).row \in 1..Len(autos)
  BY <1>1, <1>3 DEF TickOK
<1> QED
  BY <1>1, <1>2, <1>4 DEF TickOK

LEMMA PassStep ==
  ASSUME ClockInv, NEW c \in Engines, Clock!PassOver(c) PROVE ClockInv'
<1>1. /\ eng[c].at = "next" /\ UNCHANGED <<minute, events, autos, tasks, excused>>
  BY DEF Clock!PassOver
<1>2. minute \in Nat
  BY DEF ClockInv, ClockTypes
<1>3. CASE eng[c].todo = <<>>
  <2>1. eng' = [eng EXCEPT ![c] = Clock!IdleEngine]
    BY <1>3 DEF Clock!PassOver
  <2> QED
    BY <2>1, <1>1, <1>2, IdleOK, EngineStep
<1>4. CASE eng[c].todo # <<>>
  <2>1. eng' = Clock!Rest(c)
    BY <1>4 DEF Clock!PassOver
  <2>2. PICK y \in Ticks : /\ Clock!Rest(c) = [eng EXCEPT ![c] = y]
                           /\ ~InFlight(y) /\ TickOK(y, autos, tasks, minute)
    BY <1>4, RestOK
  <2> QED
    BY <2>1, <2>2, <1>1, EngineStep
<1> QED
  BY <1>3, <1>4

LEMMA FailStep ==
  ASSUME ClockInv, NEW c \in Engines, NEW works \in BOOLEAN, ~works,
         Clock!SpawnFails(c) \/ Clock!RecordFire(c, works)
  PROVE  ClockInv'
<1>1. /\ InFlight(eng[c]) /\ eng' = Clock!Rest(c) /\ UNCHANGED <<minute, events, autos, tasks>>
      /\ excused \subseteq excused'
      /\ eng[c].at = "record" => <<Head(eng[c].todo).row, eng[c].cause>> \in excused'
  BY DEF Clock!SpawnFails, Clock!RecordFire, InFlight
<1>2. PICK y \in Ticks : /\ Clock!Rest(c) = [eng EXCEPT ![c] = y]
                         /\ ~InFlight(y) /\ TickOK(y, autos, tasks, minute)
  BY <1>1, FlightHasRow, RestOK
<1> QED
  BY <1>1, <1>2, EngineStep

LEMMA DieStep ==
  ASSUME ClockInv, NEW c \in Engines, Clock!Crash(c) PROVE ClockInv'
<1>1. /\ eng' = [eng EXCEPT ![c] = Clock!IdleEngine]
      /\ UNCHANGED <<minute, events, autos, tasks>>
      /\ excused \subseteq excused'
      /\ eng[c].at = "record" => <<Head(eng[c].todo).row, eng[c].cause>> \in excused'
  BY DEF Clock!Crash
<1>2. minute \in Nat
  BY DEF ClockInv, ClockTypes
<1> QED
  BY <1>1, <1>2, IdleOK, EngineStep

LEMMA NotLater == ASSUME NEW p \in Nat, NEW q \in Nat, NEW r \in Nat, p <= q, q <= r PROVE p <= r
OBVIOUS

LEMMA WrittenStep ==
  ASSUME ClockInv, NEW c \in Engines, NEW i, NEW k, i = Head(eng[c].todo).row, k = eng[c].cause,
         eng[c].at = "record", eng' = Clock!Rest(c), UNCHANGED <<minute, events, tasks>>,
         FireIsWritten(autos, autos', i, k, excused, excused')
  PROVE  ClockInv'
<1>1. /\ eng[c].at = "record" /\ eng' = Clock!Rest(c) /\ UNCHANGED <<minute, events, tasks>>
      /\ autos' = [autos EXCEPT ![i].key = k]
  BY DEF FireIsWritten
<1>2. /\ autos \in Seq(Rows) /\ tasks \in Seq(Spawned) /\ minute \in Nat
      /\ eng \in [Engines -> Ticks]
      /\ \A t \in 1..Len(tasks) : tasks[t].row \in 1..Len(autos)
      /\ FiringOK(autos, eng, tasks, excused)
      /\ TickOK(eng[c], autos, tasks, minute)
  BY DEF ClockInv, ClockTypes
<1>3. InFlight(eng[c])
  BY <1>1 DEF InFlight
<1>4. /\ eng[c].todo # <<>> /\ k \in Nat /\ i \in 1..Len(autos)
      /\ eng[c].task \in 1..Len(tasks)
      /\ tasks[eng[c].task].row = i
      /\ tasks[eng[c].task].cause = k
      /\ tasks[eng[c].task].queued = (eng[c].at = "record")
  BY <1>3, FlightHasRow
<1>5. IsQueued(tasks, eng[c].task, i, k) /\ FlightOf(eng[c], i, k)
  BY <1>1, <1>4 DEF IsQueued, FlightOf
<1>6. PICK y \in Ticks : /\ Clock!Rest(c) = [eng EXCEPT ![c] = y]
                         /\ ~InFlight(y) /\ TickOK(y, autos, tasks, minute)
  BY <1>4, RestOK
<1>7. eng'[c] = y /\ (\A d \in Engines : d # c => eng'[d] = eng[d]) /\ eng' \in [Engines -> Ticks]
  BY <1>1, <1>2, <1>6
<1>8. autos[i].event = "" => k <= minute
  <2>1. eng[c].key \in Nat /\ eng[c].key <= minute /\ (autos[i].event = "" => k <= eng[c].key)
    BY <1>2, <1>3 DEF TickOK, Ticks
  <2>2. k \in Nat /\ minute \in Nat
    BY <1>2, <1>4
  <2> QED
    BY <2>1, <2>2, NotLater, Zenon
<1>9. /\ autos' \in Seq(Rows) /\ Len(autos') = Len(autos) /\ autos'[i].key = k
      /\ \A j \in 1..Len(autos) : autos'[j].event = autos[j].event
      /\ \A j \in 1..Len(autos) : j # i => autos'[j].key = autos[j].key
  <2>1. i \in 1..Len(autos) /\ k \in Nat
    BY <1>4
  <2>2. RowIsWritten(autos, autos', i, k)
    BY <1>2, <2>1, RowsWritten
  <2> QED
    BY <2>2 DEF RowIsWritten
<1>10. FiringOK(autos', eng', tasks, excused')
  <2>1. Recording(autos, autos', eng, eng', tasks, excused, excused', c, i, k)
    BY <1>2, <1>5, <1>6, <1>7 DEF Recording
  <2>2. i \in 1..Len(autos) /\ k \in Nat
    BY <1>4
  <2> QED
    BY <1>2, <2>1, <2>2, FireRecorded
<1>11. \A d \in Engines : TickOK(eng'[d], autos', tasks', minute')
  <2> TAKE d \in Engines
  <2>1. eng'[d] \in Ticks /\ TickOK(eng'[d], autos, tasks, minute)
    BY <1>6, <1>7 DEF ClockInv
  <2>2. SameTriggers(autos, autos')
    BY <1>9 DEF SameTriggers
  <2>3. TickOK(eng'[d], autos', tasks, minute)
    BY <1>2, <1>9, <2>1, <2>2, TickKeptByRows
  <2> QED
    BY <2>3, <1>1
<1>12. \A j \in 1..Len(autos') : autos'[j].event = "" => autos'[j].key <= minute'
  <2> TAKE j \in 1..Len(autos')
  <2>1. CASE j = i
    BY <2>1, <1>8, <1>9, <1>1, <1>4, Zenon
  <2>2. CASE j # i
    BY <2>2, <1>1, <1>9 DEF ClockInv
  <2> QED
    BY <2>1, <2>2
<1>13. ClockTypes'
  BY <1>1, <1>7, <1>9 DEF ClockInv, ClockTypes
<1> QED
  BY <1>1, <1>2, <1>9, <1>10, <1>11, <1>12, <1>13 DEF ClockInv

LEMMA RecordStep ==
  ASSUME ClockInv, NEW c \in Engines, NEW works \in BOOLEAN, works, Clock!RecordFire(c, works)
  PROVE  ClockInv'
<1>1. /\ eng[c].at = "record" /\ eng' = Clock!Rest(c) /\ UNCHANGED <<minute, events, tasks>>
      /\ FireIsWritten(autos, autos', Head(eng[c].todo).row, eng[c].cause, excused, excused')
  BY DEF Clock!RecordFire, FireIsWritten
<1> QED
  BY <1>1, WrittenStep

\* What a row is due for is newer than what was read of it.
LEMMA DueIsNew ==
  ASSUME ClockInv, NEW c \in Engines, eng[c].todo # <<>>, NEW a, a = Head(eng[c].todo),
         NEW k, k = Clock!Due(c, a), k # 0
  PROVE  /\ a.row \in 1..Len(autos) /\ a.row \in Nat /\ k \in Nat /\ ~(k <= a.key)
         /\ autos[a.row].event = "" => k <= eng[c].key
<1>1. eng[c] \in Ticks /\ TickOK(eng[c], autos, tasks, minute) /\ events \in Seq(Kinds)
  BY DEF ClockInv, ClockTypes
<1>2. eng[c].todo \in Seq(Reads) /\ eng[c].key \in Nat
  BY <1>1 DEF Ticks
<1>3. 1 \in 1..Len(eng[c].todo) /\ a = eng[c].todo[1]
  BY <1>2
<1>4. a \in Reads
  BY <1>2, <1>3
<1>5. /\ a.row \in 1..Len(autos) /\ a.row \in Nat /\ a.key \in Nat
      /\ autos[a.row].event = "" => a.key <= eng[c].key
  BY <1>1, <1>3, <1>4 DEF TickOK, Reads
<1>6. CASE autos[a.row].event = ""
  <2>1. k = eng[c].key /\ a.key # eng[c].key
    BY <1>6 DEF Clock!Due, Clock!None
  <2>2. \A p, q \in Nat : p # q /\ p <= q => ~(q <= p) /\ q <= q
    OBVIOUS
  <2> QED
    BY <1>2, <1>5, <1>6, <2>1, <2>2, Zenon
<1>7. CASE autos[a.row].event # ""
  <2> DEFINE new == {i \in DOMAIN events : events[i] = autos[a.row].event /\ i > a.key}
  <2>1. new # {} /\ k = CHOOSE i \in new : \A j \in new : j <= i
    BY <1>7 DEF Clock!Due, Clock!None
  <2>2. new \subseteq 1..Len(events) /\ Len(events) \in Nat
    BY <1>1
  <2>3. \E i \in new : \A j \in new : j <= i
    <3> HIDE DEF new
    <3> QED
      BY <2>1, <2>2, HasLargest
  <2>4. k \in new
    <3> HIDE DEF new
    <3> QED
      BY <2>1, <2>3
  <2>5. k \in Nat /\ k > a.key
    BY <2>4, <2>2
  <2>6. \A p, q \in Nat : p > q => ~(p <= q)
    OBVIOUS
  <2> QED
    BY <1>5, <1>7, <2>5, <2>6, Zenon
<1> QED
  BY <1>6, <1>7

LEMMA TickKeptByTasks ==
  ASSUME NEW x \in Ticks, NEW a \in Seq(Rows), NEW ts \in Seq(Spawned), NEW us \in Seq(Spawned),
         NEW m \in Nat, TickOK(x, a, ts, m), Len(ts) <= Len(us),
         InFlight(x) => us[x.task] = ts[x.task]
  PROVE  TickOK(x, a, us, m)
<1>1. m <= m /\ Len(a) <= Len(a)
  OBVIOUS
<1> QED
  BY <1>1, TickKept

\* The tick that has just created its task, and the table with that task.
AtTask(x, y, n, k) ==
  y.at = "queue" /\ y.task = n /\ y.cause = k /\ y.todo = x.todo /\ y.key = x.key

LEMMA AtTaskOK ==
  ASSUME NEW x \in Ticks, NEW n \in Nat, NEW k \in Nat
  PROVE  \E y \in Ticks : /\ y = [x EXCEPT !.at = "queue", !.task = n, !.cause = k]
                         /\ AtTask(x, y, n, k)
<1> DEFINE y == [x EXCEPT !.at = "queue", !.task = n, !.cause = k]
<1>1. y \in Ticks
  BY DEF Ticks
<1>2. AtTask(x, y, n, k)
  BY DEF AtTask, Ticks
<1> QED
  BY <1>1, <1>2

HasNewTask(ts, us, n, i, k) ==
  /\ us \in Seq(Spawned) /\ n = Len(ts) + 1 /\ Len(us) = n /\ n \in 1..Len(us)
  /\ Len(ts) <= Len(us) /\ 1..Len(us) = 1..Len(ts) \cup {n}
  /\ us[n].row = i /\ us[n].cause = k /\ us[n].queued = FALSE
  /\ \A t \in 1..Len(ts) : us[t] = ts[t]

LEMMA NewTask ==
  ASSUME NEW ts \in Seq(Spawned), NEW i \in Nat, NEW k \in Nat
  PROVE  \E n \in Nat :
           HasNewTask(ts, Append(ts, [row |-> i, cause |-> k, queued |-> FALSE]), n, i, k)
<1> DEFINE z == [row |-> i, cause |-> k, queued |-> FALSE]
           us == Append(ts, z)
<1>1. z \in Spawned /\ z.row = i /\ z.cause = k /\ z.queued = FALSE
  BY DEF Spawned
<1>2. PICK n \in Nat : n = Len(ts) + 1
  OBVIOUS
<1> HIDE DEF z
<1>3. /\ us \in Seq(Spawned) /\ Len(us) = n /\ us[n] = z
      /\ \A t \in 1..Len(ts) : us[t] = ts[t]
  BY <1>1, <1>2
<1>4. n \in 1..Len(us) /\ Len(ts) <= Len(us) /\ 1..Len(us) = 1..Len(ts) \cup {n}
  BY <1>2, <1>3
<1>5. us[n].row = i /\ us[n].cause = k /\ us[n].queued = FALSE
  BY <1>1, <1>3
<1> HIDE DEF us
<1>6. HasNewTask(ts, us, n, i, k)
  BY <1>2, <1>3, <1>4, <1>5 DEF HasNewTask
<1> QED
  BY <1>6 DEF us, z

LEMMA NewTickOK ==
  ASSUME NEW x, NEW y, NEW a, NEW ts, NEW us, NEW m, NEW n, NEW k,
         TickOK(x, a, ts, m), x.todo # <<>>, k # 0, AtTask(x, y, n, k),
         HasNewTask(ts, us, n, Head(x.todo).row, k),
         a[Head(x.todo).row].event = "" => k <= x.key
  PROVE  TickOK(y, a, us, m)
<1>1. us[y.task].queued = (y.at = "record")
  <2>1. (y.at = "record") = FALSE
    BY DEF AtTask
  <2> QED
    BY <2>1 DEF AtTask, HasNewTask
<1>2. /\ y.todo # <<>> /\ y.task \in 1..Len(us) /\ y.cause # 0
      /\ us[y.task].row = Head(y.todo).row /\ us[y.task].cause = y.cause
      /\ a[Head(y.todo).row].event = "" => y.cause <= y.key
  BY Zenon DEF AtTask, HasNewTask
<1>3. /\ y.key <= m
      /\ \A p \in 1..Len(y.todo) : /\ y.todo[p].row \in 1..Len(a)
                                   /\ a[y.todo[p].row].event = "" => y.todo[p].key <= y.key
  BY Zenon DEF TickOK, AtTask
<1> QED
  BY <1>1, <1>2, <1>3, Zenon DEF TickOK

LEMMA EventAdded ==
  ASSUME NEW es \in Seq(Kinds), NEW w \in Kinds PROVE Append(es, w) \in Seq(Kinds)
OBVIOUS

LEMMA SpawnStep ==
  ASSUME ClockInv, NEW c \in Engines, Clock!SpawnCreates(c) PROVE ClockInv'
<1>1. PICK a : a = Head(eng[c].todo)
  OBVIOUS
<1>2. PICK k : k = Clock!Due(c, a)
  OBVIOUS
<1>3. /\ eng[c].at = "next" /\ eng[c].todo # <<>> /\ k # 0
      /\ tasks' = Append(tasks, [row |-> a.row, cause |-> k, queued |-> FALSE])
      /\ eng' = [eng EXCEPT ![c].at = "queue", ![c].task = Len(tasks) + 1, ![c].cause = k]
      /\ excused' = excused \cup (IF Clock!Stale(c, a) THEN {<<a.row, k>>} ELSE {})
      /\ events' = Append(events, "task_created")
      /\ UNCHANGED <<minute, autos>>
  BY <1>1, <1>2, Zenon DEF Clock!SpawnCreates, Clock!None
<1>4. /\ a.row \in 1..Len(autos) /\ a.row \in Nat /\ k \in Nat /\ ~(k <= a.key)
      /\ autos[a.row].event = "" => k <= eng[c].key
  BY <1>1, <1>2, <1>3, DueIsNew
<1>5. /\ autos \in Seq(Rows) /\ tasks \in Seq(Spawned) /\ minute \in Nat /\ events \in Seq(Kinds)
      /\ eng \in [Engines -> Ticks] /\ eng[c] \in Ticks
      /\ TickOK(eng[c], autos, tasks, minute)
      /\ FiringOK(autos, eng, tasks, excused)
  BY DEF ClockInv, ClockTypes
<1>6. PICK n \in Nat : HasNewTask(tasks, tasks', n, a.row, k)
  BY <1>3, <1>4, <1>5, NewTask
<1>7. PICK y \in Ticks : /\ y = [eng[c] EXCEPT !.at = "queue", !.task = n, !.cause = k]
                         /\ AtTask(eng[c], y, n, k)
  BY <1>4, <1>5, AtTaskOK
<1>8. eng' = [eng EXCEPT ![c] = y]
  <2>1. n = Len(tasks) + 1
    BY <1>6 DEF HasNewTask
  <2> QED
    BY <2>1, <1>3, <1>5, <1>7
<1>9. eng'[c] = y /\ (\A d \in Engines : d # c => eng'[d] = eng[d]) /\ eng' \in [Engines -> Ticks]
  BY <1>5, <1>8
<1>10. TickOK(y, autos, tasks', minute)
  BY <1>1, <1>3, <1>4, <1>5, <1>6, <1>7, NewTickOK
<1>11. \A d \in Engines : InFlight(eng[d]) => eng[d].task \in 1..Len(tasks)
  BY FlightHasRow
<1>12. \A d \in Engines : TickOK(eng'[d], autos', tasks', minute')
  <2> TAKE d \in Engines
  <2>1. CASE d = c
    BY <2>1, <1>3, <1>9, <1>10
  <2>2. CASE d # c
    <3>1. eng[d] \in Ticks /\ TickOK(eng[d], autos, tasks, minute)
      BY <1>5 DEF ClockInv
    <3>2. /\ tasks' \in Seq(Spawned) /\ Len(tasks) <= Len(tasks')
          /\ InFlight(eng[d]) => tasks'[eng[d].task] = tasks[eng[d].task]
      BY <1>6, <1>11 DEF HasNewTask
    <3>3. TickOK(eng[d], autos, tasks', minute)
      BY <3>1, <3>2, <1>5, TickKeptByTasks
    <3> QED
      BY <3>3, <2>2, <1>3, <1>9
  <2> QED
    BY <2>1, <2>2
<1>13. \/ <<a.row, k>> \in excused'
       \/ /\ ~(k <= autos[a.row].key)
          /\ \A d \in Engines : d # c /\ InFlight(eng[d]) => Head(eng[d].todo).row # a.row
  <2>1. CASE Clock!Stale(c, a)
    BY <2>1, <1>3
  <2>2. CASE ~Clock!Stale(c, a)
    BY <2>2, <1>4 DEF Clock!Stale, Clock!Firing, InFlight
  <2> QED
    BY <2>1, <2>2
<1>14. Creating(autos, eng, eng', tasks, tasks', excused, excused', c, a.row, k)
  <2>1. ~InFlight(eng[c])
    BY <1>3 DEF InFlight
  <2>2. eng'[c].at = "queue" /\ eng'[c].task = Len(tasks) + 1 /\ FlightOf(eng'[c], a.row, k)
    BY <1>1, <1>6, <1>7, <1>9, Zenon DEF AtTask, FlightOf, HasNewTask
  <2>3. excused \subseteq excused' /\ tasks' = Append(tasks, [row |-> a.row, cause |-> k, queued |-> FALSE])
    BY <1>3
  <2> QED
    BY <2>1, <2>2, <2>3, <1>5, <1>9, <1>11, <1>13, Zenon DEF Creating
<1>15. FiringOK(autos', eng', tasks', excused')
  <2>1. FiringOK(autos, eng', tasks', excused')
    BY <1>4, <1>5, <1>14, TaskCreated
  <2> QED
    BY <2>1, <1>3
<1>16. ClockTypes'
  <2>1. events' \in Seq(Kinds)
    <3>1. "task_created" \in Kinds
      BY DEF Kinds
    <3> QED
      BY <3>1, <1>3, <1>5, EventAdded
  <2> QED
    BY <2>1, <1>3, <1>5, <1>6, <1>9, Zenon DEF ClockTypes, HasNewTask
<1>17. \A t \in 1..Len(tasks') : tasks'[t].row \in 1..Len(autos')
  <2> TAKE t \in 1..Len(tasks')
  <2>1. t \in 1..Len(tasks) \/ t = n
    BY <1>6 DEF HasNewTask
  <2>2. CASE t \in 1..Len(tasks)
    <3>1. tasks'[t] = tasks[t] /\ tasks[t].row \in 1..Len(autos)
      BY <1>6, <2>2 DEF HasNewTask, ClockInv
    <3> QED
      BY <3>1, <1>3
  <2>3. CASE t = n
    BY <2>3, <1>3, <1>4, <1>6, Zenon DEF HasNewTask
  <2> QED
    BY <2>1, <2>2, <2>3
<1>18. \A i \in 1..Len(autos') : autos'[i].event = "" => autos'[i].key <= minute'
  <2>1. autos' = autos /\ minute' = minute
    BY <1>3
  <2> QED
    BY <2>1 DEF ClockInv
<1> QED
  BY <1>12, <1>15, <1>16, <1>17, <1>18, Zenon DEF ClockInv

\* The tick and the table once its task is queued.
AtRecord(x, y) ==
  y.at = "record" /\ y.task = x.task /\ y.cause = x.cause /\ y.todo = x.todo /\ y.key = x.key

LEMMA AtRecordOK ==
  ASSUME NEW x \in Ticks
  PROVE  \E y \in Ticks : y = [x EXCEPT !.at = "record"] /\ AtRecord(x, y)
<1> DEFINE y == [x EXCEPT !.at = "record"]
<1>1. y \in Ticks
  BY DEF Ticks
<1>2. AtRecord(x, y)
  BY DEF AtRecord, Ticks
<1> QED
  BY <1>1, <1>2

IsMarked(ts, us, n) ==
  /\ us \in Seq(Spawned) /\ Len(us) = Len(ts) /\ Len(ts) <= Len(us)
  /\ us[n].row = ts[n].row /\ us[n].cause = ts[n].cause /\ us[n].queued = TRUE
  /\ \A t \in 1..Len(ts) : t # n => us[t] = ts[t]

LEMMA MarkedOK ==
  ASSUME NEW ts \in Seq(Spawned), NEW n \in 1..Len(ts)
  PROVE  IsMarked(ts, [ts EXCEPT ![n].queued = TRUE], n)
<1> DEFINE z == [ts[n] EXCEPT !.queued = TRUE]
           us == [ts EXCEPT ![n] = z]
<1>1. ts[n] \in Spawned
  OBVIOUS
<1>2. z \in Spawned /\ z.row = ts[n].row /\ z.cause = ts[n].cause /\ z.queued = TRUE
  BY <1>1 DEF Spawned
<1> HIDE DEF z
<1>3. us \in Seq(Spawned) /\ Len(us) = Len(ts) /\ us[n] = z /\ Len(ts) \in Nat
  BY <1>2
<1>4. \A t \in 1..Len(ts) : t # n => us[t] = ts[t]
  OBVIOUS
<1> HIDE DEF us
<1>5. IsMarked(ts, us, n)
  BY <1>2, <1>3, <1>4 DEF IsMarked
<1> QED
  BY <1>5 DEF us, z

LEMMA MarkedTickOK ==
  ASSUME NEW x, NEW y, NEW a, NEW ts, NEW us, NEW m, TickOK(x, a, ts, m), x.at = "queue",
         AtRecord(x, y), IsMarked(ts, us, x.task)
  PROVE  TickOK(y, a, us, m)
<1>1. InFlight(x)
  BY DEF InFlight
<1>2. us[y.task].queued = (y.at = "record")
  <2>1. (y.at = "record") = TRUE
    BY DEF AtRecord
  <2> QED
    BY <2>1 DEF AtRecord, IsMarked
<1>3. /\ y.todo # <<>> /\ y.task \in 1..Len(us) /\ y.cause # 0
      /\ us[y.task].row = Head(y.todo).row /\ us[y.task].cause = y.cause
      /\ a[Head(y.todo).row].event = "" => y.cause <= y.key
  BY <1>1, Zenon DEF TickOK, AtRecord, IsMarked
<1>4. /\ y.key <= m
      /\ \A p \in 1..Len(y.todo) : /\ y.todo[p].row \in 1..Len(a)
                                   /\ a[y.todo[p].row].event = "" => y.todo[p].key <= y.key
  BY Zenon DEF TickOK, AtRecord
<1> QED
  BY <1>2, <1>3, <1>4, Zenon DEF TickOK

LEMMA QueueStep ==
  ASSUME ClockInv, NEW c \in Engines, Clock!SpawnQueues(c) PROVE ClockInv'
<1>1. /\ eng[c].at = "queue"
      /\ tasks' = [tasks EXCEPT ![eng[c].task].queued = TRUE]
      /\ eng' = [eng EXCEPT ![c].at = "record"]
      /\ UNCHANGED <<minute, events, autos, excused>>
  BY DEF Clock!SpawnQueues
<1>2. InFlight(eng[c])
  BY <1>1 DEF InFlight
<1>3. /\ eng[c].task \in 1..Len(tasks)
      /\ tasks[eng[c].task].row = Head(eng[c].todo).row
      /\ tasks[eng[c].task].cause = eng[c].cause
  BY <1>2, FlightHasRow
<1>4. /\ autos \in Seq(Rows) /\ tasks \in Seq(Spawned) /\ minute \in Nat
      /\ eng \in [Engines -> Ticks] /\ eng[c] \in Ticks
      /\ TickOK(eng[c], autos, tasks, minute)
      /\ FiringOK(autos, eng, tasks, excused)
  BY DEF ClockInv, ClockTypes
<1>5. IsMarked(tasks, tasks', eng[c].task)
  BY <1>1, <1>3, <1>4, MarkedOK
<1>6. PICK y \in Ticks : y = [eng[c] EXCEPT !.at = "record"] /\ AtRecord(eng[c], y)
  BY <1>4, AtRecordOK
<1>7. eng'[c] = y /\ (\A d \in Engines : d # c => eng'[d] = eng[d]) /\ eng' \in [Engines -> Ticks]
  BY <1>1, <1>4, <1>6
<1>8. \A d \in Engines : TickOK(eng'[d], autos', tasks', minute')
  <2> TAKE d \in Engines
  <2>1. CASE d = c
    <3>1. TickOK(y, autos, tasks', minute)
      BY <1>1, <1>4, <1>5, <1>6, MarkedTickOK
    <3> QED
      BY <3>1, <2>1, <1>1, <1>7
  <2>2. CASE d # c
    <3>1. eng[d] \in Ticks /\ TickOK(eng[d], autos, tasks, minute)
      BY <1>4 DEF ClockInv
    <3>2. ASSUME InFlight(eng[d]) PROVE tasks'[eng[d].task] = tasks[eng[d].task]
      <4>1. eng[d].task \in 1..Len(tasks)
        BY <3>2, FlightHasRow
      <4>2. eng[d].task # eng[c].task
        BY <3>2, <2>2, <1>2, <1>4 DEF FiringOK, AloneAtPair
      <4> QED
        BY <4>1, <4>2, <1>5 DEF IsMarked
    <3>3. tasks' \in Seq(Spawned) /\ Len(tasks) <= Len(tasks')
      BY <1>5 DEF IsMarked
    <3>4. TickOK(eng[d], autos, tasks', minute)
      BY <3>1, <3>2, <3>3, <1>4, TickKeptByTasks
    <3> QED
      BY <3>4, <2>2, <1>1, <1>7
  <2> QED
    BY <2>1, <2>2
<1>9. FiringOK(autos', eng', tasks', excused')
  <2>1. PICK i : i = Head(eng[c].todo).row
    OBVIOUS
  <2>2. PICK k : k = eng[c].cause
    OBVIOUS
  <2>3. Queueing(autos, eng, eng', tasks, tasks', excused, c, i, k)
    <3>1. /\ eng'[c].at = "record" /\ eng'[c].task = eng[c].task
          /\ FlightOf(eng'[c], i, k) /\ FlightOf(eng[c], i, k)
      BY <2>1, <2>2, <1>6, <1>7, Zenon DEF AtRecord, FlightOf
    <3> QED
      BY <3>1, <2>1, <2>2, <1>1, <1>3, <1>4, <1>7, Zenon DEF Queueing
  <2>4. FiringOK(autos, eng', tasks', excused)
    BY <2>3, <1>3, <1>4, TaskQueued
  <2> QED
    BY <2>4, <1>1
<1>10. ClockTypes'
  BY <1>1, <1>5, <1>7, Zenon DEF ClockInv, ClockTypes, IsMarked
<1>11. \A t \in 1..Len(tasks') : tasks'[t].row \in 1..Len(autos')
  <2> TAKE t \in 1..Len(tasks')
  <2>1. t \in 1..Len(tasks) /\ tasks'[t].row = tasks[t].row
    <3>1. t \in 1..Len(tasks)
      BY <1>5 DEF IsMarked
    <3> QED
      BY <3>1, <1>5, Zenon DEF IsMarked
  <2> QED
    BY <2>1, <1>1 DEF ClockInv
<1>12. \A i \in 1..Len(autos') : autos'[i].event = "" => autos'[i].key <= minute'
  <2>1. autos' = autos /\ minute' = minute
    BY <1>1
  <2> QED
    BY <2>1 DEF ClockInv
<1> QED
  BY <1>8, <1>9, <1>10, <1>11, <1>12, Zenon DEF ClockInv

\* A minute passes, or something happens that some row may wait for.
LEMMA WorldStep ==
  ASSUME ClockInv, UNCHANGED <<autos, eng, tasks, excused>>,
         NEW m \in Nat, minute' = m, minute <= m, events' \in Seq(Kinds)
  PROVE  ClockInv'
<1>1. /\ autos \in Seq(Rows) /\ tasks \in Seq(Spawned) /\ minute \in Nat
      /\ eng \in [Engines -> Ticks]
  BY DEF ClockInv, ClockTypes
<1>2. ASSUME NEW d \in Engines PROVE TickOK(eng[d], autos, tasks, m)
  <2>1. eng[d] \in Ticks /\ TickOK(eng[d], autos, tasks, minute)
    BY <1>1 DEF ClockInv
  <2>2. Len(autos) <= Len(autos) /\ Len(tasks) <= Len(tasks)
    BY <1>1
  <2> QED
    BY <1>1, <2>1, <2>2, TickKept
<1>3. ASSUME NEW i \in 1..Len(autos), autos[i].event = "" PROVE autos[i].key <= m
  <2>1. autos[i].key <= minute
    BY <1>3 DEF ClockInv
  <2>2. autos[i] \in Rows
    BY <1>1
  <2>3. autos[i].key \in Nat
    BY <2>2 DEF Rows
  <2> QED
    BY <2>1, <2>3, <1>1, NotLater, Zenon
<1>4. ClockTypes'
  BY <1>1 DEF ClockTypes
<1> QED
  BY <1>2, <1>3, <1>4 DEF ClockInv

LEMMA ClockStart == Clock!Init => ClockInv
<1> SUFFICES ASSUME Clock!Init PROVE ClockInv
  OBVIOUS
<1>1. /\ minute = 1 /\ events = <<"session_created">> /\ autos = <<>> /\ tasks = <<>>
      /\ eng = [c \in Engines |-> Clock!IdleEngine]
  BY DEF Clock!Init
<1>2. minute \in Nat /\ 1..Len(autos) = {} /\ 1..Len(tasks) = {}
  BY <1>1
<1>3. ASSUME NEW c \in Engines
      PROVE  eng[c] \in Ticks /\ ~InFlight(eng[c]) /\ TickOK(eng[c], autos, tasks, minute)
  <2>1. eng[c] = Clock!IdleEngine
    BY <1>1
  <2> QED
    BY <2>1, <1>2, IdleOK
<1>4. events \in Seq(Kinds)
  BY <1>1 DEF Kinds
<1>5. autos \in Seq(Rows) /\ tasks \in Seq(Spawned)
  BY <1>1
<1>6. ClockTypes
  BY <1>1, <1>2, <1>3, <1>4, <1>5 DEF ClockTypes
<1>7. \A t, i, k : ~IsQueued(tasks, t, i, k)
  BY <1>2 DEF IsQueued
<1>8. FiringOK(autos, eng, tasks, excused)
  BY <1>2, <1>3, <1>7 DEF FiringOK, KeysReal, OneFire, FiresRecorded, FirstToQueue, AloneAtPair
<1> QED
  BY <1>2, <1>3, <1>6, <1>8 DEF ClockInv

LEMMA ClockNow ==
  ASSUME ClockInv PROVE minute \in Nat /\ minute <= minute /\ events \in Seq(Kinds)
<1>1. minute \in Nat /\ events \in Seq(Kinds)
  BY DEF ClockInv, ClockTypes
<1> QED
  BY <1>1

LEMMA ClockStep == ASSUME ClockInv, [Clock!Next]_Clock!clockVars PROVE ClockInv'
<1>1. CASE UNCHANGED Clock!clockVars
  <2>1. UNCHANGED <<minute, events, autos, eng, tasks, excused>>
    BY <1>1 DEF Clock!clockVars
  <2>2. minute \in Nat /\ minute <= minute /\ events \in Seq(Kinds)
    BY ClockNow
  <2> QED
    BY <2>1, <2>2, WorldStep
<1>2. CASE Clock!MinutePasses
  <2>1. minute \in Nat /\ events \in Seq(Kinds)
    BY DEF ClockInv, ClockTypes
  <2>2. minute' \in Nat /\ minute <= minute' /\ events' = events
        /\ UNCHANGED <<autos, eng, tasks, excused>>
    BY <1>2, <2>1 DEF Clock!MinutePasses
  <2> QED
    BY <2>1, <2>2, WorldStep
<1>3. CASE Clock!Happens("task_completed")
  <2>1. minute \in Nat /\ minute <= minute /\ events \in Seq(Kinds)
    BY ClockNow
  <2>2. events' = Append(events, "task_completed") /\ UNCHANGED <<minute, autos, eng, tasks, excused>>
    BY <1>3 DEF Clock!Happens
  <2>3. "task_completed" \in Kinds
    BY DEF Kinds
  <2>4. events' \in Seq(Kinds)
    BY <2>1, <2>2, <2>3, EventAdded
  <2> QED
    BY <2>1, <2>2, <2>4, WorldStep
<1>4. ASSUME NEW r \in Requests, Clock!CreateAutomation(r) PROVE ClockInv'
  BY <1>4, CreateStep
<1>5. ASSUME NEW i \in DOMAIN autos, NEW on \in BOOLEAN, Clock!SetEnabled(i, on) PROVE ClockInv'
  BY <1>5, EnableStep
<1>6. ASSUME NEW c \in Engines,
             \/ Clock!Tick(c) \/ Clock!PassOver(c) \/ Clock!SpawnCreates(c)
             \/ Clock!SpawnQueues(c) \/ Clock!Crash(c)
      PROVE  ClockInv'
  BY <1>6, TickStep, PassStep, SpawnStep, QueueStep, DieStep
<1>7. ASSUME NEW c \in Engines, Clock!SpawnFails(c) PROVE ClockInv'
  <2>1. PICK works \in BOOLEAN : ~works
    OBVIOUS
  <2> QED
    BY <1>7, <2>1, FailStep
<1>8. ASSUME NEW c \in Engines, NEW works \in BOOLEAN, Clock!RecordFire(c, works) PROVE ClockInv'
  <2>1. CASE works
    BY <2>1, <1>8, RecordStep
  <2>2. CASE ~works
    BY <2>2, <1>8, FailStep
  <2> QED
    BY <2>1, <2>2
<1> QED
  BY <1>1, <1>2, <1>3, <1>4, <1>5, <1>6, <1>7, <1>8 DEF Clock!Next

LEMMA SpawnedFields ==
  ASSUME NEW z \in Spawned, NEW i, NEW k
  PROVE  z = [row |-> i, cause |-> k, queued |-> TRUE]
           <=> z.row = i /\ z.cause = k /\ z.queued = TRUE
<1>1. z = [row |-> i, cause |-> k, queued |-> TRUE]
        => z.row = i /\ z.cause = k /\ z.queued = TRUE
  OBVIOUS
<1>2. z = [row |-> z.row, cause |-> z.cause, queued |-> z.queued]
  BY DEF Spawned
<1>3. ASSUME z.row = i, z.cause = k, z.queued = TRUE
      PROVE  z = [row |-> i, cause |-> k, queued |-> TRUE]
  BY <1>2, <1>3, Zenon
<1> QED
  BY <1>1, <1>3

LEMMA ClockInvImplies == ClockInv => Clock!AutomationsSound
<1> SUFFICES ASSUME ClockInv PROVE Clock!AutomationsSound
  OBVIOUS
<1>1. /\ autos \in Seq(Rows) /\ tasks \in Seq(Spawned) /\ FiringOK(autos, eng, tasks, excused)
  BY DEF ClockInv, ClockTypes
<1>2. DOMAIN autos = 1..Len(autos) /\ DOMAIN tasks = 1..Len(tasks)
  BY <1>1
<1>3. ASSUME NEW t, NEW i, NEW k PROVE t \in Clock!Queued(i, k) <=> IsQueued(tasks, t, i, k)
  <2>1. ASSUME t \in 1..Len(tasks)
        PROVE  tasks[t] = [row |-> i, cause |-> k, queued |-> TRUE]
                 <=> tasks[t].row = i /\ tasks[t].cause = k /\ tasks[t].queued = TRUE
    <3>1. tasks[t] \in Spawned
      BY <2>1, <1>1
    <3> QED
      BY <3>1, SpawnedFields
  <2> QED
    BY <2>1, <1>2 DEF Clock!Queued, IsQueued
<1>4. Clock!FiresAreReal
  <2> SUFFICES ASSUME NEW i \in 1..Len(autos)
               PROVE  /\ autos[i].event = "" /\ autos[i].key # 0 => Clock!Queued(i, autos[i].key) # {}
                      /\ autos[i].event # "" => \A e \in 1..autos[i].key :
                           events[e] = autos[i].event =>
                             \E k \in e..autos[i].key : Clock!Queued(i, k) # {}
    BY <1>2 DEF Clock!FiresAreReal, Clock!None
  <2>1. autos[i].key # 0 => Clock!Queued(i, autos[i].key) # {}
    BY <1>1, <1>3 DEF FiringOK, KeysReal
  <2>2. PICK k : k = autos[i].key
    OBVIOUS
  <2>3. k \in Nat
    <3>1. autos[i] \in Rows
      BY <1>1
    <3> QED
      BY <3>1, <2>2 DEF Rows
  <2>4. \A e \in 1..k : k # 0 /\ k \in e..k
    BY <2>3
  <2> QED
    BY <2>1, <2>2, <2>4, Zenon
<1>5. Clock!FiresOnceUnlessInterrupted
  <2> SUFFICES ASSUME NEW i \in DOMAIN autos, NEW t \in DOMAIN tasks, NEW u \in DOMAIN tasks,
                      t # u, tasks[t] = tasks[u], t \in Clock!Queued(i, tasks[t].cause)
               PROVE  <<i, tasks[t].cause>> \in excused
    BY DEF Clock!FiresOnceUnlessInterrupted
  <2>1. IsQueued(tasks, t, i, tasks[t].cause)
    BY <1>3
  <2>2. IsQueued(tasks, u, i, tasks[t].cause)
    BY <2>1, <1>2, Zenon DEF IsQueued
  <2> QED
    BY <2>1, <2>2, <1>1 DEF FiringOK, OneFire
<1> QED
  BY <1>4, <1>5 DEF Clock!AutomationsSound

\* Automations, for any number of cores that tick over one store, whatever is crashed,
\* lost or raced.  A row says it has fired for a minute or an event only if a task was
\* queued for it (automation.rs: record_fire after spawn_task).  And a row fires once for
\* a cause, unless an engine died or failed between the two, fired by a row that another
\* had fired since, or an older fire was recorded over it.
THEOREM AutomationsAreSound == Clock!ClockSpec => []Clock!AutomationsSound
<1>1. Clock!Init => ClockInv
  BY ClockStart
<1>2. ClockInv /\ [Clock!Next]_Clock!clockVars => ClockInv'
  BY ClockStep
<1>3. ClockInv => Clock!AutomationsSound
  BY ClockInvImplies
<1> QED
  BY <1>1, <1>2, <1>3, PTL DEF Clock!ClockSpec

-----------------------------------------------------------------------------
(***************************************************************************)
(* The local transport of the surface protocol.  A connection is followed  *)
(* from the handshake on: what waits in the socket is what the client      *)
(* asked last, its numbers are above every request of the client handled   *)
(* so far, and what was answered, what is on its way back and what is at   *)
(* the thread make up all it asked.                                        *)
(***************************************************************************)
CONSTANTS Clients, Major, ServerMajor, Pinned, Sizes, MaxFrame, MaxBoots, MaxCalls, MaxConns

VARIABLES core, path, boot, conn, asked, answered, calls, done, nonces

Wire == INSTANCE SurfaceTransport WITH got <- answered

\* A request is named by its client and its number.
Asks == Clients \X Nat

\* One connection has these fields, whatever they hold.
IsLink(x) ==
  x = [at |-> x.at, to |-> x.to, nonce |-> x.nonce, in |-> x.in, out |-> x.out,
       thread |-> x.thread, due |-> x.due, held |-> x.held, readonly |-> x.readonly]

Answered(k, D) == \E d \in D : d.call = k

\* What a client has read on its connection answers what it asked, in order.
AnswersOK(as, gt, D) ==
  /\ as \in Seq(Asks) /\ gt \in Seq(Asks) /\ Len(gt) <= Len(as)
  /\ \A i \in 1..Len(gt) : gt[i] = as[i] /\ Answered(gt[i], D)

\* Answers on their way back follow the ones that were read.
BackOK(out, as, gt, D) ==
  /\ out \in Seq(Asks) /\ Len(gt) + Len(out) <= Len(as)
  /\ \A i \in 1..Len(out) : out[i] = as[Len(gt) + i] /\ Answered(out[i], D)

\* Requests in the socket are the last ones asked, and none of them was handled.
WaitOK(c, in, as, n, D) ==
  /\ Len(in) \in Nat /\ in \in Seq([call : Asks]) /\ Len(in) <= n /\ Len(in) <= Len(as)
  /\ \A i \in 1..Len(in) : /\ in[i].call = as[(Len(as) - Len(in)) + i]
                           /\ in[i].call[1] = c /\ in[i].call[2] = (n - Len(in)) + i
  /\ \A d \in D : d.call[1] = c => d.call[2] <= n - Len(in)

ProvedOK(x) == x.held = Wire!Secret(x.to)

\* The thread between two requests, and with an answer to write.
ReadingOK(c, x, as, gt, n, D) ==
  x.thread = "read" =>
    /\ ProvedOK(x) /\ WaitOK(c, x.in, as, n, D)
    /\ (Len(gt) + Len(x.out)) + Len(x.in) = Len(as)

WritingOK(c, x, as, gt, n, D) ==
  x.thread = "write" =>
    /\ ProvedOK(x) /\ WaitOK(c, x.in, as, n, D)
    /\ ((Len(gt) + Len(x.out)) + 1) + Len(x.in) = Len(as)
    /\ x.due[1] = as[(Len(gt) + Len(x.out)) + 1] /\ Answered(x.due[1], D)

\* The phases of a connection.
NoLinkOK(x) ==
  x.at = "none" => x.thread = "none" /\ x.to = 0

GreetedOK(x, as, gt) ==
  x.at = "hello" =>
    /\ x.thread \in {"challenged", "closed"} /\ x.in = <<>> /\ x.out = <<>>
    /\ as = <<>> /\ gt = <<>>

ProvingOK(c, x, as, gt) ==
  x.at = "auth" =>
    /\ as = <<>> /\ gt = <<>>
    /\ \/ /\ x.thread = "challenged" /\ x.out = <<>>
          /\ x.in = <<Wire!Proof(x.held, x.nonce, Major[c])>>
       \/ x.thread = "read" /\ x.in = <<>> /\ (\E r : x.out = <<r>>) /\ ProvedOK(x)
       \/ x.thread = "closed" /\ (x.out = <<>> \/ \E r : x.out = <<r>>)

OpenOK(c, x, as, gt, n, D) ==
  x.at \in {"up", "left"} =>
    /\ x.thread \in {"read", "write", "closed"}
    /\ BackOK(x.out, as, gt, D)
    /\ ReadingOK(c, x, as, gt, n, D) /\ WritingOK(c, x, as, gt, n, D)

LinkOK(c, x, as, gt, n, D) ==
  /\ IsLink(x) /\ x.at \in {"none", "hello", "auth", "up", "left"} /\ n \in Nat
  /\ AnswersOK(as, gt, D)
  /\ NoLinkOK(x) /\ GreetedOK(x, as, gt) /\ ProvingOK(c, x, as, gt)
  /\ OpenOK(c, x, as, gt, n, D)

DoneOK(D, ns) ==
  /\ \A d \in D : d.call \in Asks /\ d.call[2] <= ns[d.call[1]] /\ d.held = Wire!Secret(d.to)
  /\ \A d, e \in D : d.call = e.call => d = e

WireInv ==
  /\ DOMAIN conn = Clients /\ conn = [c \in Clients |-> conn[c]]
  /\ DOMAIN asked = Clients /\ asked = [c \in Clients |-> asked[c]]
  /\ DOMAIN answered = Clients /\ answered = [c \in Clients |-> answered[c]]
  /\ calls \in [Clients -> Nat]
  /\ DoneOK(done, calls)
  /\ \A c \in Clients : LinkOK(c, conn[c], asked[c], answered[c], calls[c], done)

\* Two connections hold the same, but for the fields that are named.
SameLink(x, y, but) ==
  /\ IsLink(y)
  /\ \/ "at" \in but \/ y.at = x.at
  /\ \/ "in" \in but \/ y.in = x.in
  /\ \/ "out" \in but \/ y.out = x.out
  /\ \/ "thread" \in but \/ y.thread = x.thread
  /\ \/ "due" \in but \/ y.due = x.due
  /\ \/ "held" \in but \/ y.held = x.held
  /\ y.to = x.to /\ y.nonce = x.nonce

\* One client's link changes, the others stay.
OneLink(f, g, c) ==
  /\ DOMAIN g = Clients /\ g = [k \in Clients |-> g[k]]
  /\ \A k \in Clients : k # c => g[k] = f[k]

LEMMA LinkWritten ==
  ASSUME NEW f, DOMAIN f = Clients, f = [k \in Clients |-> f[k]], NEW c \in Clients, NEW y
  PROVE  /\ OneLink(f, [f EXCEPT ![c] = y], c)
         /\ [f EXCEPT ![c] = y][c] = y
  BY DEF OneLink

LEMMA HelloLink ==
  ASSUME WireInv, NEW c \in Clients, Wire!Hello(c)
  PROVE  /\ OneLink(conn, conn', c)
         /\ SameLink(conn[c], conn'[c], {"at", "held", "in"})
         /\ conn'[c].at = "auth"
         /\ conn'[c].in = <<Wire!Proof(conn'[c].held, conn[c].nonce, Major[c])>>
<1>1. IsLink(conn[c])
  BY DEF WireInv, LinkOK
<1> QED
  BY <1>1 DEF WireInv, Wire!Hello, OneLink, SameLink, IsLink

LEMMA VerifyLink ==
  ASSUME WireInv, NEW c \in Clients, Wire!Verify(c)
  PROVE  /\ OneLink(conn, conn', c)
         /\ SameLink(conn[c], conn'[c], {"in", "out", "thread"})
         /\ conn'[c].in = Tail(conn[c].in)
         /\ \E r : conn'[c].out = <<r>>
         /\ \/ conn'[c].thread = "closed"
            \/ conn'[c].thread = "read" /\ Wire!Verified(c, Head(conn[c].in))
<1>1. IsLink(conn[c])
  BY DEF WireInv, LinkOK
<1>2. PICK r, th :
        /\ conn' = [conn EXCEPT ![c].in = Tail(conn[c].in), ![c].out = <<r>>, ![c].thread = th]
        /\ (th = "closed" \/ (th = "read" /\ Wire!Verified(c, Head(conn[c].in))))
  BY Zenon DEF Wire!Verify
<1> QED
  BY <1>1, <1>2 DEF WireInv, OneLink, SameLink, IsLink

LEMMA AuthLink ==
  ASSUME WireInv, NEW c \in Clients, Wire!AuthResult(c)
  PROVE  /\ OneLink(conn, conn', c)
         /\ \/ conn'[c] = Wire!NoConn
            \/ /\ SameLink(conn[c], conn'[c], {"at", "out"})
               /\ conn'[c].at = "up" /\ conn'[c].out = Tail(conn[c].out)
<1>1. IsLink(conn[c])
  BY DEF WireInv, LinkOK
<1>2. CASE conn' = [conn EXCEPT ![c] = Wire!NoConn]
  BY <1>2, LinkWritten DEF WireInv
<1>3. CASE \E ro : conn' = [conn EXCEPT ![c].at = "up", ![c].out = Tail(conn[c].out),
                                        ![c].readonly = ro]
  <2>1. PICK ro : conn' = [conn EXCEPT ![c].at = "up", ![c].out = Tail(conn[c].out),
                                       ![c].readonly = ro]
    BY <1>3
  <2> QED
    BY <1>1, <2>1 DEF WireInv, OneLink, SameLink, IsLink
<1> QED
  BY <1>2, <1>3, Zenon DEF Wire!AuthResult

LEMMA SendLink ==
  ASSUME WireInv, NEW c \in Clients, NEW s \in Sizes, Wire!Send(c, s)
  PROVE  /\ OneLink(conn, conn', c)
         /\ SameLink(conn[c], conn'[c], {"in"})
         /\ conn'[c].in = Append(conn[c].in, [call |-> <<c, calls[c] + 1>>])
<1>1. IsLink(conn[c])
  BY DEF WireInv, LinkOK
<1> QED
  BY <1>1 DEF WireInv, Wire!Send, OneLink, SameLink, IsLink

LEMMA HandleLink ==
  ASSUME WireInv, NEW c \in Clients, NEW s \in Sizes, Wire!Handle(c, s)
  PROVE  /\ OneLink(conn, conn', c)
         /\ SameLink(conn[c], conn'[c], {"in", "thread", "due"})
         /\ conn'[c].in = Tail(conn[c].in) /\ conn'[c].thread = "write"
         /\ conn'[c].due[1] = Head(conn[c].in).call
<1>1. IsLink(conn[c])
  BY DEF WireInv, LinkOK
<1> QED
  BY <1>1 DEF WireInv, Wire!Handle, OneLink, SameLink, IsLink

LEMMA WriteLink ==
  ASSUME WireInv, NEW c \in Clients, Wire!Write(c)
  PROVE  /\ OneLink(conn, conn', c)
         /\ SameLink(conn[c], conn'[c], {"thread", "out"})
         /\ \/ conn'[c].thread = "closed" /\ conn'[c].out = conn[c].out
            \/ /\ conn'[c].thread = "read"
               /\ conn'[c].out = Append(conn[c].out, conn[c].due[1])
<1>1. IsLink(conn[c])
  BY DEF WireInv, LinkOK
<1> QED
  BY <1>1 DEF WireInv, Wire!Write, OneLink, SameLink, IsLink

LEMMA ReceiveLink ==
  ASSUME WireInv, NEW c \in Clients, Wire!Receive(c)
  PROVE  /\ OneLink(conn, conn', c)
         /\ SameLink(conn[c], conn'[c], {"out"}) /\ conn'[c].out = Tail(conn[c].out)
<1>1. IsLink(conn[c])
  BY DEF WireInv, LinkOK
<1> QED
  BY <1>1 DEF WireInv, Wire!Receive, OneLink, SameLink, IsLink

LEMMA LeaveLink ==
  ASSUME WireInv, NEW c \in Clients, Wire!Leave(c)
  PROVE  /\ OneLink(conn, conn', c)
         /\ SameLink(conn[c], conn'[c], {"at"}) /\ conn'[c].at = "left"
<1>1. IsLink(conn[c])
  BY DEF WireInv, LinkOK
<1> QED
  BY <1>1 DEF WireInv, Wire!Leave, OneLink, SameLink, IsLink

LEMMA ConnectLink ==
  ASSUME WireInv, NEW c \in Clients, Wire!Connect(c)
  PROVE  /\ OneLink(conn, conn', c)
         /\ IsLink(conn'[c]) /\ conn'[c].at = "hello" /\ conn'[c].thread = "challenged"
         /\ conn'[c].in = <<>> /\ conn'[c].out = <<>>
  BY DEF WireInv, Wire!Connect, OneLink, IsLink, Wire!NoConn

\* A kill closes the thread of every connection to the core.
LEMMA KillLink ==
  ASSUME WireInv, NEW b \in Wire!Boots, Wire!Kill(b), NEW c \in Clients, conn'[c] # conn[c]
  PROVE  /\ SameLink(conn[c], conn'[c], {"thread"})
         /\ conn'[c].thread = "closed" /\ conn[c].to = b
<1>1. IsLink(conn[c])
  BY DEF WireInv, LinkOK
<1> QED
  BY <1>1 DEF WireInv, Wire!Kill, SameLink, IsLink

\* Requests of other clients may be handled meanwhile.
LEMMA OthersHandled ==
  ASSUME NEW c \in Clients, NEW x, NEW as, NEW gt, NEW n, NEW D, NEW E,
         LinkOK(c, x, as, gt, n, D), D \subseteq E, \A e \in E \ D : e.call[1] # c
  PROVE  LinkOK(c, x, as, gt, n, E)
<1>1. \A k : Answered(k, D) => Answered(k, E)
  BY DEF Answered
<1>2. ASSUME NEW in, WaitOK(c, in, as, n, D) PROVE WaitOK(c, in, as, n, E)
  BY <1>2 DEF WaitOK
<1>3. AnswersOK(as, gt, E)
  BY <1>1 DEF LinkOK, AnswersOK
<1>4. OpenOK(c, x, as, gt, n, E)
  <2>1. BackOK(x.out, as, gt, D) => BackOK(x.out, as, gt, E)
    BY <1>1 DEF BackOK
  <2>2. ReadingOK(c, x, as, gt, n, D) => ReadingOK(c, x, as, gt, n, E)
    BY <1>2 DEF ReadingOK
  <2>3. WritingOK(c, x, as, gt, n, D) => WritingOK(c, x, as, gt, n, E)
    BY <1>1, <1>2 DEF WritingOK
  <2> QED
    BY <2>1, <2>2, <2>3 DEF LinkOK, OpenOK
<1> QED
  BY <1>3, <1>4 DEF LinkOK

LEMMA HelloOK ==
  ASSUME NEW c \in Clients, NEW x, NEW y, NEW as, NEW gt, NEW n, NEW D,
         LinkOK(c, x, as, gt, n, D), x.at = "hello", x.thread = "challenged",
         SameLink(x, y, {"at", "held", "in"}), y.at = "auth",
         y.in = <<Wire!Proof(y.held, x.nonce, Major[c])>>
  PROVE  LinkOK(c, y, as, gt, n, D)
  BY DEF LinkOK, SameLink, NoLinkOK, GreetedOK, ProvingOK, OpenOK

LEMMA VerifyOK ==
  ASSUME NEW c \in Clients, NEW x, NEW y, NEW as, NEW gt, NEW n, NEW D,
         LinkOK(c, x, as, gt, n, D), x.thread = "challenged", x.in # <<>>,
         SameLink(x, y, {"in", "out", "thread"}), y.in = Tail(x.in), \E r : y.out = <<r>>,
         \/ y.thread = "closed"
         \/ /\ y.thread = "read"
            /\ Head(x.in) = Wire!Proof(Wire!Secret(x.to), x.nonce, Head(x.in).major)
  PROVE  LinkOK(c, y, as, gt, n, D)
<1>1. x.at = "auth"
  BY DEF LinkOK, NoLinkOK, GreetedOK, OpenOK
<1>2. x.in = <<Wire!Proof(x.held, x.nonce, Major[c])>> /\ as = <<>> /\ gt = <<>>
  BY <1>1 DEF LinkOK, ProvingOK
<1>3. Head(x.in) = Wire!Proof(x.held, x.nonce, Major[c]) /\ y.in = <<>>
  BY <1>2
<1>4. y.thread = "read" => ProvedOK(y)
  BY <1>3 DEF ProvedOK, Wire!Proof, SameLink
<1>5. y.at = "auth" /\ IsLink(y)
  BY <1>1 DEF SameLink
<1> QED
  BY <1>1, <1>2, <1>3, <1>4, <1>5 DEF LinkOK, NoLinkOK, GreetedOK, ProvingOK, OpenOK

LEMMA AuthOK ==
  ASSUME NEW c \in Clients, NEW x, NEW y, NEW as, NEW gt, NEW n, NEW D,
         LinkOK(c, x, as, gt, n, D), x.at = "auth", x.out # <<>>,
         \A d \in D : d.call[1] = c => d.call[2] \in Nat /\ d.call[2] <= n,
         SameLink(x, y, {"at", "out"}), y.at = "up", y.out = Tail(x.out)
  PROVE  LinkOK(c, y, as, gt, n, D)
<1>1. as = <<>> /\ gt = <<>> /\ \E r : x.out = <<r>>
  BY DEF LinkOK, ProvingOK
<1>2. y.out = <<>> /\ y.thread \in {"read", "closed"} /\ IsLink(y)
  BY <1>1 DEF LinkOK, ProvingOK, SameLink
<1>3. y.thread = "read" => y.in = <<>> /\ ProvedOK(y)
  BY <1>1 DEF LinkOK, ProvingOK, SameLink, ProvedOK
<1>4. WaitOK(c, <<>>, as, n, D)
  BY <1>1 DEF WaitOK, LinkOK
<1>5. BackOK(<<>>, as, gt, D)
  BY <1>1 DEF BackOK
<1>6. OpenOK(c, y, as, gt, n, D)
  BY <1>1, <1>2, <1>3, <1>4, <1>5 DEF OpenOK, ReadingOK, WritingOK
<1> QED
  BY <1>2, <1>6 DEF LinkOK, NoLinkOK, GreetedOK, ProvingOK

\* What Append and Tail do to a sequence.
IsAppended(s, t, v) ==
  /\ Len(s) \in Nat /\ Len(t) = Len(s) + 1 /\ t[Len(s) + 1] = v
  /\ \A i \in 1..Len(s) : t[i] = s[i]

LEMMA AppendedIs ==
  ASSUME NEW S, NEW s \in Seq(S), NEW v \in S
  PROVE  Append(s, v) \in Seq(S) /\ IsAppended(s, Append(s, v), v)
  BY DEF IsAppended

IsTail(s, t) ==
  /\ Len(t) \in Nat /\ Len(s) = Len(t) + 1
  /\ \A i \in 1..Len(t) : t[i] = s[i + 1]

LEMMA TailIs ==
  ASSUME NEW S, NEW s \in Seq(S), s # <<>>
  PROVE  Tail(s) \in Seq(S) /\ IsTail(s, Tail(s)) /\ Head(s) = s[1] /\ 1 \in 1..Len(s)
<1>1. Tail(s) \in Seq(S) /\ Len(Tail(s)) = Len(s) - 1 /\ Len(s) \in Nat \ {0} /\ Head(s) = s[1]
  BY EmptySeq
<1>2. Len(Tail(s)) \in Nat
  BY <1>1
<1>3. ASSUME NEW i \in 1..Len(Tail(s)) PROVE Tail(s)[i] = s[i + 1]
  BY <1>1
<1> QED
  BY <1>1, <1>2, <1>3 DEF IsTail

\* A request enters the socket and the list of what the client asked.
LEMMA WaitSent ==
  ASSUME NEW c \in Clients, NEW in, NEW jn, NEW as, NEW bs, NEW n \in Nat, NEW D,
         WaitOK(c, in, as, n, D), NEW f, f.call[1] = c, f.call[2] = n + 1,
         jn \in Seq([call : Asks]), IsAppended(in, jn, f), IsAppended(as, bs, f.call)
  PROVE  WaitOK(c, jn, bs, n + 1, D)
<1>1. PICK l : l = Len(in)
  OBVIOUS
<1>2. PICK m : m = Len(as)
  OBVIOUS
<1>3. l \in Nat /\ m \in Nat /\ l <= n /\ l <= m /\ Len(jn) = l + 1 /\ Len(bs) = m + 1
  BY <1>1, <1>2 DEF WaitOK, IsAppended
<1>4. ASSUME NEW i \in 1..(l + 1)
      PROVE  /\ jn[i].call = bs[((m + 1) - (l + 1)) + i]
             /\ jn[i].call[1] = c /\ jn[i].call[2] = ((n + 1) - (l + 1)) + i
  <2>1. CASE i = l + 1
    <3>1. jn[i] = f /\ bs[m + 1] = f.call
      BY <2>1, <1>1, <1>2 DEF IsAppended
    <3>2. ((m + 1) - (l + 1)) + i = m + 1 /\ ((n + 1) - (l + 1)) + i = n + 1
      BY <2>1, <1>3
    <3> QED
      BY <3>1, <3>2
  <2>2. CASE i # l + 1
    <3>1. i \in 1..l /\ (m - l) + i \in 1..m
      BY <2>2, <1>3
    <3>2. jn[i] = in[i] /\ bs[(m - l) + i] = as[(m - l) + i]
      BY <3>1, <1>1, <1>2 DEF IsAppended
    <3>3. ((m + 1) - (l + 1)) + i = (m - l) + i /\ ((n + 1) - (l + 1)) + i = (n - l) + i
      BY <1>3
    <3>4. in[i].call = as[(m - l) + i] /\ in[i].call[1] = c /\ in[i].call[2] = (n - l) + i
      BY <3>1, <1>1, <1>2 DEF WaitOK
    <3> QED
      BY <3>2, <3>3, <3>4
  <2> QED
    BY <2>1, <2>2
<1>5. (n + 1) - (l + 1) = n - l
  BY <1>3
<1>7. l + 1 \in Nat /\ l + 1 <= n + 1
  BY <1>3
<1>8. l + 1 <= m + 1
  BY <1>3
<1>6. \A d \in D : d.call[1] = c => d.call[2] <= (n + 1) - (l + 1)
  BY <1>1, <1>5 DEF WaitOK
<1> QED
  BY <1>3, <1>4, <1>6, <1>7, <1>8 DEF WaitOK

\* The thread takes the first request from the socket.
LEMMA WaitTaken ==
  ASSUME NEW c \in Clients, NEW in, NEW jn, NEW as, NEW n \in Nat, NEW D, NEW E,
         WaitOK(c, in, as, n, D), jn \in Seq([call : Asks]), IsTail(in, jn), Len(as) \in Nat,
         \A e \in E : e \in D \/ e.call = in[1].call, 
         \A d \in D : d.call[1] = c => d.call[2] \in Nat
  PROVE  WaitOK(c, jn, as, n, E)
<1>1. PICK l : l = Len(jn)
  OBVIOUS
<1>2. PICK m : m = Len(as)
  OBVIOUS
<1>3. l \in Nat /\ m \in Nat /\ l + 1 <= n /\ l + 1 <= m /\ Len(in) = l + 1
  BY <1>1, <1>2 DEF WaitOK, IsTail
<1>4. ASSUME NEW i \in 1..l
      PROVE  /\ jn[i].call = as[(m - l) + i]
             /\ jn[i].call[1] = c /\ jn[i].call[2] = (n - l) + i
  <2>1. i + 1 \in 1..(l + 1) /\ (m - (l + 1)) + (i + 1) = (m - l) + i
        /\ (n - (l + 1)) + (i + 1) = (n - l) + i
    BY <1>3
  <2>2. jn[i] = in[i + 1]
    BY <1>1 DEF IsTail
  <2>3. /\ in[i + 1].call = as[(m - (l + 1)) + (i + 1)] /\ in[i + 1].call[1] = c
        /\ in[i + 1].call[2] = (n - (l + 1)) + (i + 1)
    BY <2>1, <1>2, <1>3 DEF WaitOK
  <2> QED
    BY <2>1, <2>2, <2>3
<1>5. ASSUME NEW e \in E, e.call[1] = c PROVE e.call[2] <= n - l
  <2>1. CASE e \in D
    <3>1. e.call[2] <= n - (l + 1) /\ e.call[2] \in Nat
      BY <2>1, <1>3, <1>5 DEF WaitOK
    <3> QED
      BY <3>1, <1>3
  <2>2. CASE e.call = in[1].call
    <3>1. 1 \in 1..(l + 1) /\ (n - (l + 1)) + 1 = n - l
      BY <1>3
    <3>2. in[1].call[2] = (n - (l + 1)) + 1
      BY <3>1, <1>3 DEF WaitOK
    <3>3. n - l \in Nat
      BY <1>3
    <3> QED
      BY <3>1, <3>2, <3>3, <2>2
  <2> QED
    BY <2>1, <2>2
<1>6. l <= n /\ l <= m
  BY <1>3
<1> QED
  BY <1>1, <1>2, <1>3, <1>4, <1>5, <1>6 DEF WaitOK

LEMMA AnswersLen ==
  ASSUME NEW as, NEW gt, NEW D, AnswersOK(as, gt, D), NEW out
  PROVE  /\ Len(as) \in Nat /\ Len(gt) \in Nat /\ Len(gt) <= Len(as)
         /\ BackOK(out, as, gt, D) => Len(out) \in Nat /\ Len(gt) + Len(out) <= Len(as)
<1>1. as \in Seq(Asks) /\ gt \in Seq(Asks) /\ Len(gt) <= Len(as)
  BY DEF AnswersOK
<1>2. Len(as) \in Nat
  BY <1>1, LenProperties, Zenon
<1>3. Len(gt) \in Nat
  BY <1>1, LenProperties, Zenon
<1>4. ASSUME BackOK(out, as, gt, D) PROVE Len(out) \in Nat /\ Len(gt) + Len(out) <= Len(as)
  <2>1. out \in Seq(Asks) /\ Len(gt) + Len(out) <= Len(as)
    BY <1>4 DEF BackOK
  <2>2. Len(out) \in Nat
    BY <2>1
  <2> QED
    BY <2>1, <2>2
<1> QED
  BY <1>1, <1>2, <1>3, <1>4

\* A client sends: its answers and those on their way stay the ones of what it asked.
LEMMA AskedMore ==
  ASSUME NEW as, NEW bs \in Seq(Asks), NEW gt, NEW D, NEW k, IsAppended(as, bs, k),
         AnswersOK(as, gt, D), NEW out
  PROVE  /\ AnswersOK(bs, gt, D)
         /\ BackOK(out, as, gt, D) => BackOK(out, bs, gt, D)
<1>1. PICK m : m = Len(as)
  OBVIOUS
<1>2. PICK g : g = Len(gt)
  OBVIOUS
<1>3. m \in Nat /\ g \in Nat /\ g <= m /\ Len(bs) = m + 1
  BY <1>1, <1>2, AnswersLen DEF IsAppended
<1>4. g <= m + 1 /\ 1..g \subseteq 1..m
  BY <1>3
<1>5. AnswersOK(bs, gt, D)
  BY <1>1, <1>2, <1>3, <1>4 DEF AnswersOK, IsAppended
<1>6. ASSUME BackOK(out, as, gt, D) PROVE BackOK(out, bs, gt, D)
  <2>1. PICK o : o = Len(out)
    OBVIOUS
  <2>2. o \in Nat /\ g + o <= m
    BY <2>1, <1>1, <1>2, <1>6, AnswersLen
  <2>3. g + o <= m + 1 /\ \A i \in 1..o : g + i \in 1..m
    BY <2>2, <1>3
  <2> QED
    BY <2>1, <2>3, <1>1, <1>2, <1>3, <1>6 DEF BackOK, IsAppended
<1> QED
  BY <1>5, <1>6

LEMMA SentOK ==
  ASSUME NEW c \in Clients, NEW x, NEW y, NEW as, NEW bs \in Seq(Asks), NEW gt, NEW n, NEW D,
         LinkOK(c, x, as, gt, n, D), x.at = "up", x.thread # "closed",
         SameLink(x, y, {"in"}), NEW f, f.call[1] = c, f.call[2] = n + 1,
         y.in \in Seq([call : Asks]), IsAppended(x.in, y.in, f), IsAppended(as, bs, f.call)
  PROVE  LinkOK(c, y, bs, gt, n + 1, D)
<1>1. /\ AnswersOK(as, gt, D) /\ BackOK(x.out, as, gt, D) /\ n \in Nat
      /\ ReadingOK(c, x, as, gt, n, D) /\ WritingOK(c, x, as, gt, n, D)
      /\ x.thread \in {"read", "write"}
  BY DEF LinkOK, OpenOK
<1>2. WaitOK(c, x.in, as, n, D) /\ ProvedOK(x)
  BY <1>1 DEF ReadingOK, WritingOK
<1>3. WaitOK(c, y.in, bs, n + 1, D)
  BY <1>1, <1>2, WaitSent
<1>4. AnswersOK(bs, gt, D) /\ BackOK(x.out, bs, gt, D)
  BY <1>1, AskedMore
<1>5. /\ IsLink(y) /\ y.at = "up" /\ y.out = x.out /\ y.thread = x.thread /\ y.due = x.due
      /\ y.held = x.held /\ y.to = x.to
  BY DEF SameLink
<1>6. PICK l, m, g, o : l = Len(x.in) /\ m = Len(as) /\ g = Len(gt) /\ o = Len(x.out)
  OBVIOUS
<1>7. /\ l \in Nat /\ m \in Nat /\ g \in Nat /\ o \in Nat
      /\ Len(y.in) = l + 1 /\ Len(bs) = m + 1
  BY <1>1, <1>6, AnswersLen DEF IsAppended
<1>8. ASSUME x.thread = "read" PROVE (g + o) + (l + 1) = m + 1
  <2>1. (g + o) + l = m
    BY <1>1, <1>6, <1>8 DEF ReadingOK
  <2> QED
    BY <2>1, <1>7
<1>9. ASSUME x.thread = "write"
      PROVE  /\ ((g + o) + 1) + (l + 1) = m + 1 /\ x.due[1] = bs[(g + o) + 1]
             /\ Answered(x.due[1], D)
  <2>1. ((g + o) + 1) + l = m /\ x.due[1] = as[(g + o) + 1] /\ Answered(x.due[1], D)
    BY <1>1, <1>6, <1>9 DEF WritingOK
  <2>2. (g + o) + 1 \in 1..m
    BY <2>1, <1>7
  <2>3. ((g + o) + 1) + (l + 1) = m + 1
    BY <2>1, <1>7
  <2>4. bs[(g + o) + 1] = as[(g + o) + 1]
    BY <2>2, <1>6 DEF IsAppended
  <2> QED
    BY <2>1, <2>3, <2>4
<1>10. ProvedOK(y)
  BY <1>2, <1>5 DEF ProvedOK
<1>11. ReadingOK(c, y, bs, gt, n + 1, D)
  BY <1>3, <1>5, <1>6, <1>7, <1>8, <1>10 DEF ReadingOK
<1>12. WritingOK(c, y, bs, gt, n + 1, D)
  BY <1>3, <1>5, <1>6, <1>7, <1>9, <1>10 DEF WritingOK
<1>13. n + 1 \in Nat
  BY <1>1
<1> QED
  BY <1>1, <1>4, <1>5, <1>11, <1>12, <1>13 DEF LinkOK, OpenOK, NoLinkOK, GreetedOK, ProvingOK

\* A request is handled: it was at the head of the socket, and its answer is due.
LEMMA HandledOK ==
  ASSUME NEW c \in Clients, NEW x, NEW y, NEW as, NEW gt, NEW n, NEW D, NEW E,
         LinkOK(c, x, as, gt, n, D), x.at \in {"up", "left"}, x.thread = "read",
         SameLink(x, y, {"in", "thread", "due"}), y.thread = "write", y.due[1] = x.in[1].call,
         y.in \in Seq([call : Asks]), IsTail(x.in, y.in), D \subseteq E,
         \A e \in E : e \in D \/ e.call = x.in[1].call, Answered(x.in[1].call, E),
         \A d \in D : d.call[1] = c => d.call[2] \in Nat
  PROVE  LinkOK(c, y, as, gt, n, E)
<1>1. /\ AnswersOK(as, gt, D) /\ BackOK(x.out, as, gt, D) /\ n \in Nat
      /\ ReadingOK(c, x, as, gt, n, D)
  BY DEF LinkOK, OpenOK
<1>2. WaitOK(c, x.in, as, n, D) /\ ProvedOK(x)
  BY <1>1 DEF ReadingOK
<1>3. PICK l, m, g, o : l = Len(y.in) /\ m = Len(as) /\ g = Len(gt) /\ o = Len(x.out)
  OBVIOUS
<1>4. l \in Nat /\ m \in Nat /\ g \in Nat /\ o \in Nat /\ Len(x.in) = l + 1
  BY <1>1, <1>3, AnswersLen DEF IsTail
<1>5. WaitOK(c, y.in, as, n, E)
  BY <1>1, <1>2, <1>3, <1>4, WaitTaken
<1>6. \A k : Answered(k, D) => Answered(k, E)
  BY DEF Answered
<1>7. AnswersOK(as, gt, E) /\ BackOK(x.out, as, gt, E)
  BY <1>1, <1>6 DEF AnswersOK, BackOK
<1>8. /\ IsLink(y) /\ y.at = x.at /\ y.out = x.out /\ y.held = x.held /\ y.to = x.to
  BY DEF SameLink
<1>9. (g + o) + (l + 1) = m
  BY <1>1, <1>3, <1>4 DEF ReadingOK
<1>10. ((g + o) + 1) + l = m
  BY <1>9, <1>4
<1>11. x.in[1].call = as[(g + o) + 1]
  <2>1. 1 \in 1..(l + 1) /\ (m - (l + 1)) + 1 = (g + o) + 1
    BY <1>9, <1>4
  <2>2. x.in[1].call = as[(m - (l + 1)) + 1]
    BY <2>1, <1>2, <1>3, <1>4 DEF WaitOK
  <2> QED
    BY <2>1, <2>2
<1>12. ProvedOK(y)
  BY <1>2, <1>8 DEF ProvedOK
<1>13. WritingOK(c, y, as, gt, n, E)
  BY <1>3, <1>5, <1>8, <1>10, <1>11, <1>12 DEF WritingOK
<1> QED
  BY <1>1, <1>7, <1>8, <1>13 DEF LinkOK, OpenOK, NoLinkOK, GreetedOK, ProvingOK, ReadingOK

\* The answer that is due is written.
LEMMA AnswerWritten ==
  ASSUME NEW c \in Clients, NEW x, NEW y, NEW as, NEW gt, NEW n, NEW D,
         LinkOK(c, x, as, gt, n, D), x.at \in {"up", "left"}, x.thread = "write",
         SameLink(x, y, {"thread", "out"}), y.thread = "read",
         y.out \in Seq(Asks), IsAppended(x.out, y.out, x.due[1])
  PROVE  LinkOK(c, y, as, gt, n, D)
<1>1. /\ AnswersOK(as, gt, D) /\ BackOK(x.out, as, gt, D) /\ n \in Nat
      /\ WritingOK(c, x, as, gt, n, D)
  BY DEF LinkOK, OpenOK
<1>2. PICK l, m, g, o : l = Len(x.in) /\ m = Len(as) /\ g = Len(gt) /\ o = Len(x.out)
  OBVIOUS
<1>3. /\ WaitOK(c, x.in, as, n, D) /\ ProvedOK(x) /\ ((g + o) + 1) + l = m
      /\ x.due[1] = as[(g + o) + 1] /\ Answered(x.due[1], D)
  BY <1>1, <1>2 DEF WritingOK
<1>4. l \in Nat /\ m \in Nat /\ g \in Nat /\ o \in Nat /\ Len(y.out) = o + 1
  BY <1>1, <1>2, <1>3, AnswersLen DEF IsAppended, WaitOK
<1>5. /\ IsLink(y) /\ y.at = x.at /\ y.in = x.in /\ y.held = x.held /\ y.to = x.to
  BY DEF SameLink
<1>6. (g + (o + 1)) + l = m /\ g + (o + 1) <= m /\ (g + o) + 1 = g + (o + 1)
  BY <1>3, <1>4
<1>7. ASSUME NEW i \in 1..(o + 1) PROVE y.out[i] = as[g + i] /\ Answered(y.out[i], D)
  <2>1. CASE i = o + 1
    <3>1. y.out[i] = x.due[1] /\ g + i = (g + o) + 1
      BY <2>1, <1>2, <1>6 DEF IsAppended
    <3> QED
      BY <3>1, <1>3
  <2>2. CASE i # o + 1
    <3>1. i \in 1..o
      BY <2>2, <1>4
    <3> QED
      BY <3>1, <1>1, <1>2 DEF BackOK, IsAppended
  <2> QED
    BY <2>1, <2>2
<1>8. BackOK(y.out, as, gt, D)
  BY <1>2, <1>4, <1>6, <1>7 DEF BackOK
<1>9. ProvedOK(y)
  BY <1>3, <1>5 DEF ProvedOK
<1>10. ReadingOK(c, y, as, gt, n, D)
  BY <1>2, <1>3, <1>4, <1>5, <1>6, <1>9 DEF ReadingOK
<1> QED
  BY <1>1, <1>5, <1>8, <1>10 DEF LinkOK, OpenOK, NoLinkOK, GreetedOK, ProvingOK, WritingOK

\* The client reads the next answer.
LEMMA AnswerRead ==
  ASSUME NEW c \in Clients, NEW x, NEW y, NEW as, NEW gt, NEW ht \in Seq(Asks), NEW n, NEW D,
         LinkOK(c, x, as, gt, n, D), x.at = "up", SameLink(x, y, {"out"}),
         y.out \in Seq(Asks), IsTail(x.out, y.out), IsAppended(gt, ht, x.out[1])
  PROVE  LinkOK(c, y, as, ht, n, D)
<1>1. /\ AnswersOK(as, gt, D) /\ BackOK(x.out, as, gt, D) /\ n \in Nat
      /\ ReadingOK(c, x, as, gt, n, D) /\ WritingOK(c, x, as, gt, n, D)
      /\ x.thread \in {"read", "write", "closed"}
  BY DEF LinkOK, OpenOK
<1>2. PICK m, g, o : m = Len(as) /\ g = Len(gt) /\ o = Len(y.out)
  OBVIOUS
<1>3. /\ m \in Nat /\ g \in Nat /\ o \in Nat /\ Len(x.out) = o + 1 /\ Len(ht) = g + 1
      /\ g + (o + 1) <= m
  BY <1>1, <1>2, AnswersLen DEF IsAppended, IsTail
<1>4. /\ IsLink(y) /\ y.at = x.at /\ y.in = x.in /\ y.held = x.held /\ y.to = x.to
      /\ y.thread = x.thread /\ y.due = x.due
  BY DEF SameLink
<1>5. g + 1 <= m /\ (g + 1) + o <= m /\ (g + 1) + o = g + (o + 1)
  BY <1>3
<1>6. AnswersOK(as, ht, D)
  <2>1. ASSUME NEW i \in 1..(g + 1) PROVE ht[i] = as[i] /\ Answered(ht[i], D)
    <3>1. CASE i = g + 1
      <4>1. 1 \in 1..(o + 1) /\ ht[i] = x.out[1]
        BY <3>1, <1>2, <1>3 DEF IsAppended
      <4> QED
        BY <4>1, <3>1, <1>1, <1>2, <1>3 DEF BackOK
    <3>2. CASE i # g + 1
      <4>1. i \in 1..g
        BY <3>2, <1>3
      <4> QED
        BY <4>1, <1>1, <1>2 DEF AnswersOK, IsAppended
    <3> QED
      BY <3>1, <3>2
  <2>2. as \in Seq(Asks)
    BY <1>1 DEF AnswersOK
  <2> QED
    BY <2>1, <2>2, <1>2, <1>3, <1>5 DEF AnswersOK
<1>7. BackOK(y.out, as, ht, D)
  <2>1. ASSUME NEW i \in 1..o PROVE y.out[i] = as[(g + 1) + i] /\ Answered(y.out[i], D)
    <3>1. i + 1 \in 1..(o + 1) /\ g + (i + 1) = (g + 1) + i
      BY <1>3
    <3>2. y.out[i] = x.out[i + 1]
      BY <1>2 DEF IsTail
    <3>3. x.out[i + 1] = as[g + (i + 1)] /\ Answered(x.out[i + 1], D)
      BY <3>1, <1>1, <1>2, <1>3 DEF BackOK
    <3> QED
      BY <3>1, <3>2, <3>3
  <2> QED
    BY <2>1, <1>2, <1>3, <1>5 DEF BackOK
<1>8. ProvedOK(x) => ProvedOK(y)
  BY <1>4 DEF ProvedOK
<1>9. ReadingOK(c, y, as, ht, n, D)
  BY <1>1, <1>2, <1>3, <1>4, <1>5, <1>8 DEF ReadingOK
<1>10. WritingOK(c, y, as, ht, n, D)
  BY <1>1, <1>2, <1>3, <1>4, <1>5, <1>8 DEF WritingOK
<1> QED
  BY <1>1, <1>4, <1>6, <1>7, <1>9, <1>10 DEF LinkOK, OpenOK, NoLinkOK, GreetedOK, ProvingOK

LEMMA ClientLeft ==
  ASSUME NEW c \in Clients, NEW x, NEW y, NEW as, NEW gt, NEW n, NEW D,
         LinkOK(c, x, as, gt, n, D), x.at = "up", SameLink(x, y, {"at"}), y.at = "left"
  PROVE  LinkOK(c, y, as, gt, n, D)
  BY DEF LinkOK, SameLink, NoLinkOK, GreetedOK, ProvingOK, OpenOK, ReadingOK, WritingOK, ProvedOK

\* The thread ends: its core was killed, or its answer did not fit.
LEMMA ThreadEnded ==
  ASSUME NEW c \in Clients, NEW x, NEW y, NEW as, NEW gt, NEW n, NEW D,
         LinkOK(c, x, as, gt, n, D), x.to # 0 \/ x.at # "none", SameLink(x, y, {"thread"}),
         y.thread = "closed"
  PROVE  LinkOK(c, y, as, gt, n, D)
  BY DEF LinkOK, SameLink, NoLinkOK, GreetedOK, ProvingOK, OpenOK, ReadingOK, WritingOK

\* A connection is given up, and a new one begins.
LEMMA LinkEnded ==
  ASSUME NEW c \in Clients, NEW x, NEW as, NEW gt, NEW n, NEW D, LinkOK(c, x, as, gt, n, D)
  PROVE  LinkOK(c, Wire!NoConn, as, gt, n, D)
  BY DEF LinkOK, IsLink, NoLinkOK, GreetedOK, ProvingOK, OpenOK, Wire!NoConn

LEMMA LinkBegun ==
  ASSUME NEW c \in Clients, NEW y, NEW n \in Nat, NEW D,
         IsLink(y), y.at = "hello", y.thread = "challenged", y.in = <<>>, y.out = <<>>
  PROVE  LinkOK(c, y, <<>>, <<>>, n, D)
<1>1. AnswersOK(<<>>, <<>>, D)
  BY DEF AnswersOK
<1> QED
  BY <1>1 DEF LinkOK, NoLinkOK, GreetedOK, ProvingOK, OpenOK

\* A step of one client's connection.
LEMMA OneClientMoves ==
  ASSUME WireInv, NEW c \in Clients,
         OneLink(conn, conn', c), OneLink(asked, asked', c), OneLink(answered, answered', c),
         calls' \in [Clients -> Nat], \A k \in Clients : k # c => calls'[k] = calls[k],
         done \subseteq done', \A e \in done' \ done : e.call[1] = c, DoneOK(done', calls'),
         LinkOK(c, conn'[c], asked'[c], answered'[c], calls'[c], done')
  PROVE  WireInv'
<1>1. ASSUME NEW k \in Clients, k # c
      PROVE  LinkOK(k, conn'[k], asked'[k], answered'[k], calls'[k], done')
  <2>1. LinkOK(k, conn[k], asked[k], answered[k], calls[k], done)
    BY DEF WireInv
  <2>2. \A e \in done' \ done : e.call[1] # k
    BY <1>1
  <2>3. LinkOK(k, conn[k], asked[k], answered[k], calls[k], done')
    BY <2>1, <2>2, OthersHandled
  <2> QED
    BY <2>3, <1>1 DEF OneLink
<1> QED
  BY <1>1 DEF WireInv, OneLink

\* The same, when nothing is asked or handled.
LEMMA OneLinkMoves ==
  ASSUME WireInv, NEW c \in Clients, OneLink(conn, conn', c),
         UNCHANGED <<asked, answered, calls, done>>,
         LinkOK(c, conn'[c], asked[c], answered[c], calls[c], done)
  PROVE  WireInv'
<1>1. OneLink(asked, asked', c) /\ OneLink(answered, answered', c)
  BY DEF WireInv, OneLink
<1>2. /\ calls' \in [Clients -> Nat] /\ \A k \in Clients : k # c => calls'[k] = calls[k]
      /\ DoneOK(done', calls')
  BY DEF WireInv
<1> QED
  BY <1>1, <1>2, OneClientMoves

LEMMA CoreStep ==
  ASSUME WireInv, UNCHANGED <<conn, asked, answered, calls, done>>
  PROVE  WireInv'
  BY DEF WireInv

LEMMA KillStep ==
  ASSUME WireInv, NEW b \in Wire!Boots, Wire!Kill(b)
  PROVE  WireInv'
<1>1. UNCHANGED <<asked, answered, calls, done>>
  BY DEF Wire!Kill
<1>2. DOMAIN conn' = Clients /\ conn' = [c \in Clients |-> conn'[c]]
  BY DEF Wire!Kill
<1>3. ASSUME NEW c \in Clients
      PROVE  LinkOK(c, conn'[c], asked[c], answered[c], calls[c], done)
  <2>1. LinkOK(c, conn[c], asked[c], answered[c], calls[c], done)
    BY DEF WireInv
  <2>2. CASE conn'[c] # conn[c]
    <3>1. /\ SameLink(conn[c], conn'[c], {"thread"}) /\ conn'[c].thread = "closed"
          /\ conn[c].to = b
      BY <2>2, KillLink
    <3>2. b # 0
      BY DEF Wire!Boots
    <3> QED
      BY <2>1, <3>1, <3>2, ThreadEnded
  <2> QED
    BY <2>1, <2>2
<1> QED
  BY <1>1, <1>2, <1>3 DEF WireInv

LEMMA GreetStep ==
  ASSUME WireInv, NEW c \in Clients, Wire!Connect(c)
  PROVE  WireInv'
<1>1. /\ OneLink(conn, conn', c) /\ IsLink(conn'[c]) /\ conn'[c].at = "hello"
      /\ conn'[c].thread = "challenged" /\ conn'[c].in = <<>> /\ conn'[c].out = <<>>
  BY ConnectLink
<1>2. asked' = [asked EXCEPT ![c] = <<>>] /\ answered' = [answered EXCEPT ![c] = <<>>]
      /\ calls' = calls /\ done' = done
  BY DEF Wire!Connect
<1>3. /\ OneLink(asked, asked', c) /\ OneLink(answered, answered', c)
      /\ asked'[c] = <<>> /\ answered'[c] = <<>>
  BY <1>2, LinkWritten DEF WireInv
<1>4. /\ calls' \in [Clients -> Nat] /\ \A k \in Clients : k # c => calls'[k] = calls[k]
      /\ DoneOK(done', calls')
  BY <1>2 DEF WireInv
<1>5. LinkOK(c, conn'[c], <<>>, <<>>, calls'[c], done')
  BY <1>1, <1>4, LinkBegun
<1> QED
  BY <1>1, <1>2, <1>3, <1>4, <1>5, OneClientMoves

LEMMA HandshakeStep ==
  ASSUME WireInv, NEW c \in Clients, Wire!Hello(c) \/ Wire!Verify(c) \/ Wire!AuthResult(c)
  PROVE  WireInv'
<1>1. LinkOK(c, conn[c], asked[c], answered[c], calls[c], done)
  BY DEF WireInv
<1>2. CASE Wire!Hello(c)
  <2>1. conn[c].at = "hello" /\ conn[c].thread = "challenged"
        /\ UNCHANGED <<asked, answered, calls, done>>
    BY <1>2 DEF Wire!Hello
  <2>2. /\ OneLink(conn, conn', c) /\ SameLink(conn[c], conn'[c], {"at", "held", "in"})
        /\ conn'[c].at = "auth"
        /\ conn'[c].in = <<Wire!Proof(conn'[c].held, conn[c].nonce, Major[c])>>
    BY <1>2, HelloLink
  <2>3. LinkOK(c, conn'[c], asked[c], answered[c], calls[c], done)
    BY <1>1, <2>1, <2>2, HelloOK
  <2> QED
    BY <2>1, <2>2, <2>3, OneLinkMoves
<1>3. CASE Wire!Verify(c)
  <2>1. conn[c].thread = "challenged" /\ conn[c].in # <<>>
        /\ UNCHANGED <<asked, answered, calls, done>>
    BY <1>3 DEF Wire!Verify
  <2>2. /\ OneLink(conn, conn', c) /\ SameLink(conn[c], conn'[c], {"in", "out", "thread"})
        /\ conn'[c].in = Tail(conn[c].in) /\ \E r : conn'[c].out = <<r>>
    BY <1>3, VerifyLink
  <2>3. \/ conn'[c].thread = "closed"
        \/ /\ conn'[c].thread = "read"
           /\ Head(conn[c].in) = Wire!Proof(Wire!Secret(conn[c].to), conn[c].nonce,
                                            Head(conn[c].in).major)
    BY <1>3, VerifyLink, Zenon DEF Wire!Verified
  <2>4. LinkOK(c, conn'[c], asked[c], answered[c], calls[c], done)
    BY <1>1, <2>1, <2>2, <2>3, VerifyOK
  <2> QED
    BY <2>1, <2>2, <2>4, OneLinkMoves
<1>4. CASE Wire!AuthResult(c)
  <2>1. conn[c].at = "auth" /\ conn[c].out # <<>>
        /\ UNCHANGED <<asked, answered, calls, done>>
    BY <1>4 DEF Wire!AuthResult
  <2>2. /\ OneLink(conn, conn', c)
        /\ \/ conn'[c] = Wire!NoConn
           \/ /\ SameLink(conn[c], conn'[c], {"at", "out"})
              /\ conn'[c].at = "up" /\ conn'[c].out = Tail(conn[c].out)
    BY <1>4, AuthLink
  <2>3. \A d \in done : d.call[1] = c => d.call[2] \in Nat /\ d.call[2] <= calls[c]
    BY DEF WireInv, DoneOK, Asks
  <2>4. LinkOK(c, conn'[c], asked[c], answered[c], calls[c], done)
    <3>1. CASE conn'[c] = Wire!NoConn
      BY <3>1, <1>1, LinkEnded
    <3>2. CASE conn'[c] # Wire!NoConn
      BY <3>2, <1>1, <2>1, <2>2, <2>3, AuthOK
    <3> QED
      BY <3>1, <3>2
  <2> QED
    BY <2>1, <2>2, <2>4, OneLinkMoves
<1> QED
  BY <1>2, <1>3, <1>4

LEMMA SendStepOK ==
  ASSUME WireInv, NEW c \in Clients, NEW s \in Sizes, Wire!Send(c, s)
  PROVE  WireInv'
<1> DEFINE k == <<c, calls[c] + 1>>
<1>1. LinkOK(c, conn[c], asked[c], answered[c], calls[c], done)
  BY DEF WireInv
<1>2. calls[c] \in Nat /\ calls' = [calls EXCEPT ![c] = calls[c] + 1]
      /\ asked' = [asked EXCEPT ![c] = Append(asked[c], k)]
      /\ UNCHANGED <<answered, done>> /\ conn[c].at = "up" /\ conn[c].thread # "closed"
  BY DEF WireInv, Wire!Send
<1>3. k \in Asks /\ [call |-> k] \in [call : Asks] /\ [call |-> k].call = k
      /\ k[1] = c /\ k[2] = calls[c] + 1
  BY <1>2 DEF Asks
<1>4. OneLink(conn, conn', c) /\ SameLink(conn[c], conn'[c], {"in"})
      /\ conn'[c].in = Append(conn[c].in, [call |-> k])
  BY SendLink
<1>5. /\ OneLink(asked, asked', c) /\ asked'[c] = Append(asked[c], k)
      /\ OneLink(answered, answered', c)
  <2>1. OneLink(asked, asked', c) /\ asked'[c] = Append(asked[c], k)
    <3>1. DOMAIN asked = Clients /\ asked = [j \in Clients |-> asked[j]]
      BY DEF WireInv
    <3>2. PICK v : v = Append(asked[c], k)
      OBVIOUS
    <3>3. asked' = [asked EXCEPT ![c] = v]
      BY <3>2, <1>2
    <3> HIDE DEF k
    <3>4. OneLink(asked, asked', c) /\ asked'[c] = v
      BY <3>1, <3>3, LinkWritten
    <3> QED
      BY <3>2, <3>4
  <2>2. OneLink(answered, answered', c)
    BY <1>2 DEF WireInv, OneLink
  <2> QED
    BY <2>1, <2>2
<1>6. asked[c] \in Seq(Asks) /\ conn[c].in \in Seq([call : Asks])
  BY <1>1, <1>2 DEF LinkOK, AnswersOK, OpenOK, ReadingOK, WritingOK, WaitOK
<1>7. /\ asked'[c] \in Seq(Asks) /\ IsAppended(asked[c], asked'[c], k)
      /\ conn'[c].in \in Seq([call : Asks]) /\ IsAppended(conn[c].in, conn'[c].in, [call |-> k])
  BY <1>3, <1>4, <1>5, <1>6, AppendedIs, Zenon
<1>8. LinkOK(c, conn'[c], asked'[c], answered[c], calls[c] + 1, done)
  BY <1>1, <1>2, <1>3, <1>4, <1>7, SentOK, Zenon
<1>9. /\ calls' \in [Clients -> Nat] /\ \A j \in Clients : j # c => calls'[j] = calls[j]
      /\ calls'[c] = calls[c] + 1
  BY <1>2 DEF WireInv
<1>10. DoneOK(done', calls')
  <2>1. \A j \in Clients : calls[j] \in Nat /\ calls[j] <= calls'[j] /\ calls'[j] \in Nat
    BY <1>9 DEF WireInv
  <2>2. DoneOK(done, calls)
    BY DEF WireInv
  <2>3. ASSUME NEW d \in done PROVE d.call[2] <= calls'[d.call[1]]
    <3>1. d.call[1] \in Clients /\ d.call[2] \in Nat /\ d.call[2] <= calls[d.call[1]]
      BY <2>2 DEF DoneOK, Asks
    <3> QED
      BY <3>1, <2>1
  <2> QED
    BY <2>2, <2>3, <1>2 DEF DoneOK
<1> QED
  BY <1>2, <1>4, <1>5, <1>8, <1>9, <1>10, OneClientMoves

LEMMA HandleStepOK ==
  ASSUME WireInv, NEW c \in Clients, NEW s \in Sizes, Wire!Handle(c, s)
  PROVE  WireInv'
<1>1. LinkOK(c, conn[c], asked[c], answered[c], calls[c], done)
  BY DEF WireInv
<1>2. conn[c].thread = "read" /\ conn[c].in # <<>> /\ UNCHANGED <<asked, answered, calls>>
  BY DEF Wire!Handle
<1>3. PICK e : done' = done \cup {e} /\ e.call = Head(conn[c].in).call /\ e.to = conn[c].to
               /\ e.held = conn[c].held
  <2>1. PICK ro : done' = done \cup {[call |-> Head(conn[c].in).call, to |-> conn[c].to,
                                      held |-> conn[c].held, readonly |-> ro]}
    BY Zenon DEF Wire!Handle
  <2>2. PICK h : h = [call |-> Head(conn[c].in).call, to |-> conn[c].to,
                      held |-> conn[c].held, readonly |-> ro]
    OBVIOUS
  <2>3. /\ h.call = Head(conn[c].in).call /\ h.to = conn[c].to /\ h.held = conn[c].held
        /\ done' = done \cup {h}
    BY <2>1, <2>2
  <2> QED
    BY <2>3, Zenon
<1>4. conn[c].at \in {"up", "left"}
  BY <1>1, <1>2 DEF LinkOK, NoLinkOK, GreetedOK, ProvingOK
<1>5. WaitOK(c, conn[c].in, asked[c], calls[c], done) /\ ProvedOK(conn[c]) /\ calls[c] \in Nat
  BY <1>1, <1>2, <1>4 DEF LinkOK, OpenOK, ReadingOK
<1>6. conn[c].in \in Seq([call : Asks])
  BY <1>5 DEF WaitOK
<1>7. /\ Tail(conn[c].in) \in Seq([call : Asks]) /\ IsTail(conn[c].in, Tail(conn[c].in))
      /\ Head(conn[c].in) = conn[c].in[1] /\ 1 \in 1..Len(conn[c].in)
  BY <1>2, <1>6, TailIs, Zenon
<1>8. /\ OneLink(conn, conn', c) /\ SameLink(conn[c], conn'[c], {"in", "thread", "due"})
      /\ conn'[c].in = Tail(conn[c].in) /\ conn'[c].thread = "write"
      /\ conn'[c].due[1] = conn[c].in[1].call
  BY <1>7, HandleLink
<1>9. PICK l : l = Len(conn[c].in)
  OBVIOUS
<1>10. /\ e.call \in Asks /\ e.call[1] = c /\ e.call[2] = (calls[c] - l) + 1
       /\ l \in Nat /\ l <= calls[c] /\ 1 <= l
       /\ \A d \in done : d.call[1] = c => d.call[2] <= calls[c] - l
  <2>1. conn[c].in[1] \in [call : Asks]
    BY <1>6, <1>7, ElementOfSeq, Zenon
  <2>2. l \in Nat /\ l <= calls[c]
    BY <1>5, <1>9 DEF WaitOK
  <2>3. 1 <= l
    BY <1>7, <1>9, <2>2
  <2> QED
    BY <2>1, <2>2, <2>3, <1>3, <1>5, <1>7, <1>9 DEF WaitOK
<1>11. /\ e.call[2] <= calls[c]
       /\ \A d \in done : d.call[2] \in Nat => d.call # e.call
  BY <1>5, <1>10
<1>12. DoneOK(done', calls')
  <2>1. DoneOK(done, calls)
    BY DEF WireInv
  <2>2. \A d \in done : d.call # e.call
    BY <2>1, <1>11 DEF DoneOK, Asks
  <2>3. e.held = Wire!Secret(e.to)
    BY <1>3, <1>5 DEF ProvedOK
  <2> QED
    BY <2>1, <2>2, <2>3, <1>2, <1>3, <1>10, <1>11 DEF DoneOK
<1>13. LinkOK(c, conn'[c], asked[c], answered[c], calls[c], done')
  <2>1. Answered(conn[c].in[1].call, done')
    BY <1>3, <1>7 DEF Answered
  <2>2. /\ done \subseteq done' /\ \A d \in done' : d \in done \/ d.call = conn[c].in[1].call
        /\ \A d \in done : d.call[1] = c => d.call[2] \in Nat
    BY <1>3, <1>7 DEF WireInv, DoneOK, Asks
  <2>3. conn'[c].in \in Seq([call : Asks]) /\ IsTail(conn[c].in, conn'[c].in)
    BY <1>7, <1>8
  <2> QED
    BY <2>1, <2>2, <2>3, <1>1, <1>2, <1>4, <1>8, HandledOK
<1>14. OneLink(asked, asked', c) /\ OneLink(answered, answered', c)
       /\ calls' \in [Clients -> Nat]
  BY <1>2 DEF WireInv, OneLink
<1>15. done \subseteq done' /\ \A d \in done' \ done : d.call[1] = c
  BY <1>3, <1>10
<1> QED
  BY <1>2, <1>8, <1>12, <1>13, <1>14, <1>15, OneClientMoves

LEMMA AnswerStepOK ==
  ASSUME WireInv, NEW c \in Clients, Wire!Write(c) \/ Wire!Receive(c)
  PROVE  WireInv'
<1>1. LinkOK(c, conn[c], asked[c], answered[c], calls[c], done)
  BY DEF WireInv
<1>2. CASE Wire!Write(c)
  <2>1. conn[c].thread = "write" /\ UNCHANGED <<asked, answered, calls, done>>
    BY <1>2 DEF Wire!Write
  <2>2. conn[c].at \in {"up", "left"}
    BY <1>1, <2>1 DEF LinkOK, NoLinkOK, GreetedOK, ProvingOK
  <2>3. /\ OneLink(conn, conn', c) /\ SameLink(conn[c], conn'[c], {"thread", "out"})
        /\ \/ conn'[c].thread = "closed" /\ conn'[c].out = conn[c].out
           \/ conn'[c].thread = "read" /\ conn'[c].out = Append(conn[c].out, conn[c].due[1])
    BY <1>2, WriteLink
  <2>4. CASE conn'[c].thread = "closed" /\ conn'[c].out = conn[c].out
    <3>1. SameLink(conn[c], conn'[c], {"thread"}) /\ conn[c].at # "none"
      BY <2>2, <2>3, <2>4 DEF SameLink
    <3>2. LinkOK(c, conn'[c], asked[c], answered[c], calls[c], done)
      BY <3>1, <2>4, <1>1, ThreadEnded
    <3> QED
      BY <2>1, <2>3, <3>2, OneLinkMoves
  <2>5. CASE conn'[c].thread = "read" /\ conn'[c].out = Append(conn[c].out, conn[c].due[1])
    <3>1. conn[c].out \in Seq(Asks) /\ Answered(conn[c].due[1], done)
      BY <1>1, <2>1, <2>2 DEF LinkOK, OpenOK, BackOK, WritingOK
    <3>2. conn[c].due[1] \in Asks
      BY <3>1 DEF Answered, WireInv, DoneOK
    <3>3. /\ conn'[c].out \in Seq(Asks)
          /\ IsAppended(conn[c].out, conn'[c].out, conn[c].due[1])
      BY <3>1, <3>2, <2>5, AppendedIs, Zenon
    <3>4. LinkOK(c, conn'[c], asked[c], answered[c], calls[c], done)
      BY <3>3, <2>1, <2>2, <2>3, <2>5, <1>1, AnswerWritten
    <3> QED
      BY <2>1, <2>3, <3>4, OneLinkMoves
  <2> QED
    BY <2>3, <2>4, <2>5
<1>3. CASE Wire!Receive(c)
  <2>1. /\ conn[c].at = "up" /\ conn[c].out # <<>> /\ UNCHANGED <<asked, calls, done>>
        /\ answered' = [answered EXCEPT ![c] = Append(answered[c], Head(conn[c].out))]
    BY <1>3 DEF Wire!Receive
  <2>2. /\ OneLink(conn, conn', c) /\ SameLink(conn[c], conn'[c], {"out"})
        /\ conn'[c].out = Tail(conn[c].out)
    BY <1>3, ReceiveLink
  <2>3. conn[c].out \in Seq(Asks) /\ answered[c] \in Seq(Asks)
    BY <1>1, <2>1 DEF LinkOK, OpenOK, BackOK, AnswersOK
  <2>4. /\ conn'[c].out \in Seq(Asks) /\ IsTail(conn[c].out, conn'[c].out)
        /\ Head(conn[c].out) = conn[c].out[1] /\ 1 \in 1..Len(conn[c].out)
    BY <2>1, <2>2, <2>3, TailIs, Zenon
  <2>5. conn[c].out[1] \in Asks
    BY <2>3, <2>4
  <2>6. /\ OneLink(answered, answered', c)
        /\ answered'[c] = Append(answered[c], conn[c].out[1])
    BY <2>1, <2>4, LinkWritten, Zenon DEF WireInv
  <2>7. /\ answered'[c] \in Seq(Asks)
        /\ IsAppended(answered[c], answered'[c], conn[c].out[1])
    BY <2>3, <2>5, <2>6, AppendedIs, Zenon
  <2>8. LinkOK(c, conn'[c], asked[c], answered'[c], calls[c], done)
    BY <1>1, <2>1, <2>2, <2>4, <2>7, AnswerRead
  <2>9. OneLink(asked, asked', c) /\ calls' \in [Clients -> Nat] /\ DoneOK(done', calls')
    BY <2>1 DEF WireInv, OneLink
  <2> QED
    BY <2>1, <2>2, <2>6, <2>8, <2>9, OneClientMoves
<1> QED
  BY <1>2, <1>3

LEMMA PartStepOK ==
  ASSUME WireInv, NEW c \in Clients, Wire!PeerClosed(c) \/ Wire!Leave(c) \/ Wire!Gone(c)
  PROVE  WireInv'
<1>1. LinkOK(c, conn[c], asked[c], answered[c], calls[c], done)
  BY DEF WireInv
<1>2. UNCHANGED <<asked, answered, calls, done>>
  BY DEF Wire!PeerClosed, Wire!Leave, Wire!Gone
<1>3. CASE Wire!Leave(c)
  <2>1. conn[c].at = "up"
    BY <1>3 DEF Wire!Leave
  <2>2. OneLink(conn, conn', c) /\ SameLink(conn[c], conn'[c], {"at"}) /\ conn'[c].at = "left"
    BY <1>3, LeaveLink
  <2>3. LinkOK(c, conn'[c], asked[c], answered[c], calls[c], done)
    BY <1>1, <2>1, <2>2, ClientLeft
  <2> QED
    BY <2>2, <2>3, <1>2, OneLinkMoves
<1>4. CASE conn' = [conn EXCEPT ![c] = Wire!NoConn]
  <2>1. OneLink(conn, conn', c) /\ conn'[c] = Wire!NoConn
    BY <1>4, LinkWritten DEF WireInv
  <2>2. LinkOK(c, conn'[c], asked[c], answered[c], calls[c], done)
    BY <2>1, <1>1, LinkEnded
  <2> QED
    BY <2>1, <2>2, <1>2, OneLinkMoves
<1> QED
  BY <1>3, <1>4 DEF Wire!PeerClosed, Wire!Gone

LEMMA WireStart == Wire!Init => WireInv
<1> SUFFICES ASSUME Wire!Init PROVE WireInv
  OBVIOUS
<1>1. DoneOK(done, calls) /\ calls \in [Clients -> Nat]
  BY DEF Wire!Init, DoneOK
<1>2. AnswersOK(<<>>, <<>>, done)
  BY DEF AnswersOK
<1>3. ASSUME NEW c \in Clients PROVE LinkOK(c, conn[c], asked[c], answered[c], calls[c], done)
  <2>1. conn[c] = Wire!NoConn /\ asked[c] = <<>> /\ answered[c] = <<>> /\ calls[c] = 0
    BY DEF Wire!Init
  <2> QED
    BY <2>1, <1>2 DEF LinkOK, IsLink, NoLinkOK, GreetedOK, ProvingOK, OpenOK, Wire!NoConn
<1>4. /\ DOMAIN conn = Clients /\ conn = [c \in Clients |-> conn[c]]
      /\ DOMAIN asked = Clients /\ asked = [c \in Clients |-> asked[c]]
      /\ DOMAIN answered = Clients /\ answered = [c \in Clients |-> answered[c]]
  BY DEF Wire!Init
<1> QED
  BY <1>1, <1>3, <1>4 DEF WireInv

LEMMA WireStep == WireInv /\ [Wire!Next]_Wire!wireVars => WireInv'
<1> SUFFICES ASSUME WireInv, [Wire!Next]_Wire!wireVars PROVE WireInv'
  OBVIOUS
<1>1. CASE UNCHANGED Wire!wireVars
  BY <1>1, CoreStep DEF Wire!wireVars
<1>2. ASSUME NEW b \in Wire!Boots,
             \/ Wire!Boot(b) \/ Wire!Fatal(b) \/ Wire!Bind(b)
             \/ \E l \in {"up", "none"} : Wire!ExecdUp(b, l)
             \/ \E r \in BOOLEAN : Wire!Announce(b, r)
      PROVE  WireInv'
  <2>1. UNCHANGED <<conn, asked, answered, calls, done>>
    BY <1>2 DEF Wire!Boot, Wire!Fatal, Wire!Bind, Wire!ExecdUp, Wire!Announce
  <2> QED
    BY <2>1, CoreStep
<1>3. ASSUME NEW b \in Wire!Boots, Wire!Kill(b) PROVE WireInv'
  BY <1>3, KillStep
<1>4. ASSUME NEW c \in Clients,
             \/ Wire!Connect(c) \/ Wire!Hello(c) \/ Wire!Verify(c) \/ Wire!AuthResult(c)
             \/ Wire!Write(c) \/ Wire!Receive(c)
             \/ Wire!PeerClosed(c) \/ Wire!Leave(c) \/ Wire!Gone(c)
      PROVE  WireInv'
  BY <1>4, GreetStep, HandshakeStep, AnswerStepOK, PartStepOK
<1>5. ASSUME NEW c \in Clients, NEW s \in Sizes, Wire!Send(c, s) \/ Wire!Handle(c, s)
      PROVE  WireInv'
  BY <1>5, SendStepOK, HandleStepOK
<1> QED
  BY <1>1, <1>2, <1>3, <1>4, <1>5 DEF Wire!Next

LEMMA WireInvImplies == WireInv => Wire!TransportSound
<1> SUFFICES ASSUME WireInv PROVE Wire!TransportSound
  OBVIOUS
<1>1. Wire!HandledWasProved /\ Wire!HandledOnce
  BY DEF WireInv, DoneOK, Wire!HandledWasProved, Wire!HandledOnce
<1>2. Wire!AnswersInOrder
  <2> SUFFICES ASSUME NEW c \in Clients, NEW i \in DOMAIN answered[c]
               PROVE  /\ i <= Len(asked[c]) /\ answered[c][i] = asked[c][i]
                      /\ \E d \in done : d.call = answered[c][i]
    BY DEF Wire!AnswersInOrder
  <2>1. AnswersOK(asked[c], answered[c], done)
    BY DEF WireInv, LinkOK
  <2>2. PICK m, g : m = Len(asked[c]) /\ g = Len(answered[c])
    OBVIOUS
  <2>3. m \in Nat /\ g \in Nat /\ g <= m
    BY <2>1, <2>2, AnswersLen
  <2>4. DOMAIN answered[c] = 1..g
    BY <2>1, <2>2 DEF AnswersOK
  <2>5. i \in 1..g /\ i <= m
    BY <2>3, <2>4
  <2> QED
    BY <2>1, <2>2, <2>5 DEF AnswersOK, Answered
<1> QED
  BY <1>1, <1>2 DEF Wire!TransportSound

\* The local transport, for any clients and majors, with one secret or one per boot, through
\* kills of a core, boots that take over its path and connections that end anywhere.  What
\* is handled was sent by a client that proved the secret of the very boot that handled it;
\* a request is handled once; and the i-th answer a client reads on a connection answers
\* its i-th request there (transport.rs: handshake_stream, serve, Connection::call).
THEOREM TransportIsSound == Wire!WireSpec => []Wire!TransportSound
<1>1. Wire!Init => WireInv
  BY WireStart
<1>2. WireInv /\ [Wire!Next]_Wire!wireVars => WireInv'
  BY WireStep
<1>3. WireInv => Wire!TransportSound
  BY WireInvImplies
<1> QED
  BY <1>1, <1>2, <1>3, PTL DEF Wire!WireSpec

-----------------------------------------------------------------------------
(***************************************************************************)
(* The handoff of a dirty workspace to the cloud.  The user's staging is   *)
(* held by the snapshot under way while the index is not the user's own;   *)
(* what was taken never changes, so refs, bundles, requests and receipts   *)
(* may name it by number.                                                  *)
(***************************************************************************)
CONSTANTS Files, Contents, Tasks, Procs, MaxEdits, MaxSnaps, Start

VARIABLES local, user, refs, snap, taken, wire, cloud, att, receipts, torn, budget

Handoff == INSTANCE CloudHandoff

\* The checkout of the cloud host serves one attach at a time.  The code does not see to
\* this: two attaches that overlap compare one index, and may give a false receipt.
OneAttach == \A p, q \in Procs : p = q

IsList(s) == \E S : s \in Seq(S)
Taken(id) == id \in 1..Len(taken)

IsLocal(x) == x = [head |-> x.head, index |-> x.index, work |-> x.work, commits |-> x.commits]
IsCloud(x) == x = [head |-> x.head, index |-> x.index, work |-> x.work, refs |-> x.refs]
IsSnap(x) ==
  \/ x = Handoff!Idle
  \/ /\ x = [at |-> x.at, task |-> x.task, base |-> x.base, orig |-> x.orig, dirty |-> x.dirty]
     /\ x.at \in {"add", "write", "read", "ref"}
IsAttach(x) ==
  \/ x = Handoff!Idle
  \/ /\ x = [at |-> x.at, id |-> x.id, task |-> x.task, seen |-> x.seen]
     /\ x.at \in {"import", "read", "checkout", "remove", "verify", "compare"}

\* The index is the user's, or the snapshot under way knows what the user's is.
StagingOK ==
  ~torn => \/ snap = Handoff!Idle /\ local.index = user
           \/ snap.at = "add" /\ local.index = user /\ snap.orig = user
           \/ snap.at \in {"write", "read"} /\ snap.orig = user
           \/ snap.at = "ref" /\ local.index = user

\* A ref holds the snapshot its name says.
Bound(names) == \A n \in DOMAIN names : Taken(names[n]) /\ Handoff!Name(names[n]) = n

\* A request is for the task the snapshot was taken of, and compares what it saw.
AttachOK(p) ==
  att[p] # Handoff!Idle => /\ Taken(att[p].id) /\ att[p].task = taken[att[p].id].task
                           /\ att[p].at = "compare" => att[p].seen = cloud.index

ReceiptOK(r) == Taken(r.id) /\ r.task = taken[r.id].task /\ r.work = taken[r.id].tree

HandoffInv ==
  /\ IsList(taken)
  /\ IsLocal(local) /\ IsCloud(cloud) /\ IsSnap(snap) /\ DOMAIN att = Procs
  /\ \A p \in Procs : IsAttach(att[p])
  /\ StagingOK /\ Bound(refs) /\ Bound(cloud.refs)
  /\ \A b \in wire : Taken(b.id)
  /\ \A p \in Procs : AttachOK(p)
  /\ \A r \in receipts : ReceiptOK(r)

LEMMA HandoffStart == ASSUME Handoff!Init PROVE HandoffInv
<1>1. taken = <<>> /\ <<>> \in Seq({}) /\ IsList(taken)
  BY DEF Handoff!Init, IsList
<1>2. IsLocal(local) /\ IsCloud(cloud) /\ IsSnap(snap) /\ StagingOK
  BY DEF Handoff!Init, IsLocal, IsCloud, IsSnap, StagingOK
<1>3. Bound(refs) /\ Bound(cloud.refs)
  <2>1. refs = <<>> /\ cloud.refs = <<>> /\ DOMAIN <<>> = {}
    BY DEF Handoff!Init
  <2> QED
    BY <2>1 DEF Bound
<1>4. DOMAIN att = Procs /\ \A p \in Procs : att[p] = Handoff!Idle
  BY DEF Handoff!Init
<1> QED
  BY <1>1, <1>2, <1>3, <1>4 DEF HandoffInv, Handoff!Init, IsAttach, AttachOK

\* A snapshot that was taken stays under its number.
LEMMA TakenOnes ==
  ASSUME IsList(taken), NEW v, taken' = Append(taken, v)
  PROVE  /\ IsList(taken)' /\ Len(taken) \in Nat /\ Len(taken') = Len(taken) + 1
         /\ taken'[Len(taken) + 1] = v
         /\ \A id : Taken(id) => Taken(id)' /\ taken'[id] = taken[id]
<1>1. PICK S : taken \in Seq(S)
  BY DEF IsList
<1>2. taken \in Seq(S \cup {v}) /\ v \in S \cup {v}
  BY <1>1
<1>3. taken' \in Seq(S \cup {v}) /\ Len(taken) \in Nat /\ Len(taken') = Len(taken) + 1
  BY <1>2
<1>4. taken'[Len(taken) + 1] = v /\ \A id \in 1..Len(taken) : taken'[id] = taken[id]
  BY <1>2
<1> QED
  BY <1>3, <1>4 DEF IsList, Taken

\* A step of the user, or of a snapshot that takes nothing yet.
LEMMA LocalStep ==
  ASSUME HandoffInv, UNCHANGED <<refs, taken, cloud, att, receipts>>, UNCHANGED wire,
         IsLocal(local)', IsSnap(snap)', StagingOK'
  PROVE  HandoffInv'
BY DEF HandoffInv, Bound, Taken, Handoff!Name, AttachOK, ReceiptOK

\* The refs of a side, with one more or moved: each holds what it says.
LEMMA PutBound ==
  ASSUME NEW names, Bound(names), NEW id, Taken(id)
  PROVE  Bound(Handoff!Put(names, Handoff!Name(id), id))
BY DEF Bound, Handoff!Put

LEMMA SnapRefStep ==
  ASSUME HandoffInv, Handoff!SnapRef PROVE HandoffInv'
<1>1. /\ snap.at = "ref" /\ snap' = Handoff!Idle
      /\ UNCHANGED <<local, user, wire, cloud, att, receipts, torn>>
  BY DEF Handoff!SnapRef
<1>2. IsLocal(local)' /\ IsSnap(snap)' /\ StagingOK'
  BY <1>1 DEF HandoffInv, IsSnap, StagingOK, Handoff!Idle, IsLocal
<1>3. CASE UNCHANGED <<refs, taken>>
  BY <1>1, <1>2, <1>3, LocalStep
<1>4. ASSUME NEW v, v = [task |-> snap.task, tree |-> snap.dirty, base |-> snap.base],
             taken' = Append(taken, v),
             refs' = Handoff!Put(refs, <<snap.task, snap.dirty>>, Len(taken) + 1)
      PROVE  HandoffInv'
  <2>1. IsList(taken)
    BY DEF HandoffInv
  <2>2. PICK k \in Nat : k = Len(taken)
    BY <1>4, <2>1, TakenOnes
  <2>3. /\ IsList(taken)' /\ Taken(k + 1)' /\ taken'[k + 1] = v
        /\ \A id : Taken(id) => Taken(id)' /\ taken'[id] = taken[id]
    BY <1>4, <2>1, <2>2, TakenOnes DEF Taken
  <2>4. ASSUME NEW names, Bound(names)
        PROVE  \A n \in DOMAIN names : /\ names[n] \in 1..Len(taken')
                                       /\ <<taken'[names[n]].task, taken'[names[n]].tree>> = n
    BY <2>3, <2>4 DEF Bound, Handoff!Name, Taken
  <2>5. Bound(cloud.refs)'
    <3>1. Bound(cloud.refs) /\ cloud' = cloud
      BY <1>1 DEF HandoffInv
    <3> QED
      BY <3>1, <2>4 DEF Bound, Handoff!Name, Taken
  <2>6. Bound(refs)'
    <3>1. refs' = Handoff!Put(refs, <<snap.task, snap.dirty>>, k + 1) /\ Bound(refs)
      BY <1>4, <2>2 DEF HandoffInv
    <3>2. <<taken'[k + 1].task, taken'[k + 1].tree>> = <<snap.task, snap.dirty>>
      BY <2>3, <1>4
    <3>3. ASSUME NEW n \in DOMAIN refs'
          PROVE  refs'[n] \in 1..Len(taken') /\ <<taken'[refs'[n]].task, taken'[refs'[n]].tree>> = n
      <4>1. refs'[n] = IF n = <<snap.task, snap.dirty>> THEN k + 1 ELSE refs[n]
        BY <3>1, <3>3 DEF Handoff!Put
      <4>2. n # <<snap.task, snap.dirty>> => n \in DOMAIN refs
        BY <3>1, <3>3 DEF Handoff!Put
      <4> QED
        BY <4>1, <4>2, <3>1, <3>2, <2>3, <2>4 DEF Taken
    <3> QED
      BY <3>3 DEF Bound, Handoff!Name, Taken
  <2>7. \A p \in Procs : AttachOK(p)'
    <3>1. \A p \in Procs : AttachOK(p) /\ att'[p] = att[p] /\ cloud' = cloud
      BY <1>1 DEF HandoffInv
    <3> QED
      BY <3>1, <2>3 DEF AttachOK
  <2>8. \A r \in receipts' : ReceiptOK(r)'
    <3>1. \A r \in receipts' : ReceiptOK(r)
      BY <1>1 DEF HandoffInv
    <3> QED
      BY <3>1, <2>3 DEF ReceiptOK
  <2>9. \A b \in wire' : Taken(b.id)'
    BY <1>1, <2>3 DEF HandoffInv
  <2> QED
    BY <2>3, <2>5, <2>6, <2>7, <2>8, <2>9, <1>1, <1>2 DEF HandoffInv
<1> QED
  BY <1>3, <1>4 DEF Handoff!SnapRef

LEMMA ExportStep ==
  ASSUME HandoffInv, NEW id \in DOMAIN taken, NEW intact, Handoff!Export(id, intact) PROVE HandoffInv'
<1>1. DOMAIN taken = 1..Len(taken)
  BY DEF HandoffInv, IsList
<1>2. \A b \in wire' : Taken(b.id)
  BY <1>1 DEF Handoff!Export, Handoff!Bundle, HandoffInv, Taken
<1> QED
  BY <1>2 DEF Handoff!Export, HandoffInv, IsLocal, IsCloud, IsSnap, StagingOK, Bound, Taken, Handoff!Name,
     AttachOK, ReceiptOK

LEMMA CleanupStep ==
  ASSUME HandoffInv, NEW names, Handoff!Cleanup(names) PROVE HandoffInv'
<1>1. refs' = [n \in DOMAIN refs \ names |-> refs[n]] /\ Bound(refs)
  BY DEF Handoff!Cleanup, HandoffInv
<1>2. Bound(refs')
  BY <1>1 DEF Bound
<1> QED
  BY <1>2 DEF Handoff!Cleanup, HandoffInv, IsLocal, IsCloud, IsSnap, StagingOK, Bound, Taken, Handoff!Name,
     AttachOK, ReceiptOK

\* A step of the cloud host: what it does to the checkout, one request and the receipts.
LEMMA CloudStep ==
  ASSUME OneAttach, HandoffInv, UNCHANGED <<local, user, refs, snap, taken, wire, torn>>,
         IsCloud(cloud)', Bound(cloud'.refs),
         NEW p \in Procs, NEW x, att' = [att EXCEPT ![p] = x], IsAttach(x),
         x # Handoff!Idle => /\ Taken(x.id) /\ x.task = taken[x.id].task
                             /\ x.at = "compare" => x.seen = cloud'.index,
         \A r \in receipts' : ReceiptOK(r)
  PROVE  HandoffInv'
<1>1. DOMAIN att' = Procs /\ \A q \in Procs : att'[q] = x
  BY DEF HandoffInv, OneAttach
<1>2. \A q \in Procs : IsAttach(att'[q]) /\ AttachOK(q)'
  BY <1>1 DEF AttachOK, Taken
<1>3. Bound(refs)' /\ Bound(cloud.refs)' /\ \A b \in wire' : Taken(b.id)'
  BY DEF HandoffInv, Bound, Taken, Handoff!Name
<1>4. \A r \in receipts' : ReceiptOK(r)'
  BY DEF ReceiptOK, Taken
<1> QED
  BY <1>1, <1>2, <1>3, <1>4 DEF HandoffInv, StagingOK, IsList

LEMMA UserStep ==
  ASSUME HandoffInv,
         \/ \E f, c : Handoff!Edit(f, c)
         \/ \E f : Handoff!Stage(f)
         \/ Handoff!CommitIndex
         \/ \E t : Handoff!SnapBegin(t)
         \/ Handoff!SnapAdd \/ Handoff!SnapWrite \/ Handoff!SnapRead \/ Handoff!SnapStops
  PROVE  HandoffInv'
<1>1. UNCHANGED <<refs, taken, cloud, att, receipts>> /\ UNCHANGED wire
  BY DEF Handoff!Edit, Handoff!Stage, Handoff!CommitIndex, Handoff!SnapBegin, Handoff!SnapAdd,
         Handoff!SnapWrite, Handoff!SnapRead, Handoff!SnapStops
<1>2. IsLocal(local) /\ IsSnap(snap) /\ StagingOK
  BY DEF HandoffInv
<1>3. IsLocal(local)' /\ IsSnap(snap)' /\ StagingOK'
  <2>1. ASSUME NEW f, NEW c, Handoff!Edit(f, c) PROVE IsLocal(local)' /\ IsSnap(snap)' /\ StagingOK'
    BY <1>2, <2>1 DEF Handoff!Edit, IsLocal, IsSnap, StagingOK
  <2>2. ASSUME NEW f, Handoff!Stage(f) PROVE IsLocal(local)' /\ IsSnap(snap)' /\ StagingOK'
    <3>1. /\ local' = [local EXCEPT !.index[f] = local.work[f]] /\ snap' = snap
          /\ user' = [user EXCEPT ![f] = local.work[f]] /\ torn' = (torn \/ snap # Handoff!Idle)
      BY <2>2 DEF Handoff!Stage
    <3>2. IsLocal(local') /\ local'.index = [local.index EXCEPT ![f] = local.work[f]]
      BY <3>1, <1>2 DEF IsLocal
    <3>3. ~torn' => ~torn /\ snap = Handoff!Idle
      BY <3>1
    <3>4. ~torn' => local.index = user
      BY <3>3, <1>2 DEF StagingOK, Handoff!Idle
    <3> QED
      BY <3>1, <3>2, <3>3, <3>4, <1>2 DEF StagingOK
  <2>3. CASE Handoff!CommitIndex
    BY <1>2, <2>3 DEF Handoff!CommitIndex, IsLocal, IsSnap, StagingOK
  <2>4. ASSUME NEW t, Handoff!SnapBegin(t) PROVE IsLocal(local)' /\ IsSnap(snap)' /\ StagingOK'
    BY <1>2, <2>4 DEF Handoff!SnapBegin, IsLocal, IsSnap, StagingOK, Handoff!Idle
  <2>5. CASE Handoff!SnapAdd
    BY <1>2, <2>5 DEF Handoff!SnapAdd, IsLocal, IsSnap, StagingOK, Handoff!Idle
  <2>6. CASE Handoff!SnapWrite
    <3>1. /\ UNCHANGED <<local, user, torn>> /\ snap.at = "write" /\ snap # Handoff!Idle
          /\ snap' = [snap EXCEPT !.at = "read", !.dirty = local.index]
      BY <2>6 DEF Handoff!SnapWrite, Handoff!Idle
    <3>2. snap' = [at |-> "read", task |-> snap.task, base |-> snap.base, orig |-> snap.orig,
                   dirty |-> local.index]
      BY <3>1, <1>2 DEF IsSnap
    <3>3. IsSnap(snap') /\ snap'.at = "read" /\ snap'.orig = snap.orig
      BY <3>2 DEF IsSnap
    <3> QED
      BY <3>1, <3>3, <1>2 DEF StagingOK, Handoff!Idle
  <2>7. CASE Handoff!SnapRead
    BY <1>2, <2>7 DEF Handoff!SnapRead, IsLocal, IsSnap, StagingOK, Handoff!Idle
  <2>8. CASE Handoff!SnapStops
    BY <1>2, <2>8 DEF Handoff!SnapStops, IsLocal, IsSnap, StagingOK, Handoff!Idle
  <2> QED
    BY <2>1, <2>2, <2>3, <2>4, <2>5, <2>6, <2>7, <2>8
<1> QED
  BY <1>1, <1>3, LocalStep

LEMMA CloudEditStep ==
  ASSUME HandoffInv, NEW f, NEW c, Handoff!CloudEdit(f, c) PROVE HandoffInv'
<1>1. /\ UNCHANGED <<local, user, refs, snap, taken, wire, att, receipts, torn>>
      /\ cloud' = [cloud EXCEPT !.work[f] = c] /\ IsCloud(cloud)
  BY DEF Handoff!CloudEdit, HandoffInv
<1>2. IsCloud(cloud') /\ cloud'.refs = cloud.refs /\ cloud'.index = cloud.index
  BY <1>1 DEF IsCloud
<1> QED
  BY <1>1, <1>2 DEF HandoffInv, StagingOK, Bound, Taken, Handoff!Name, AttachOK, ReceiptOK

\* A request that goes one stage on, the comparison still ahead, names what it named.
LEMMA StageOn ==
  ASSUME HandoffInv, NEW p \in Procs, NEW was, was # "idle", att[p].at = was,
         NEW on \in {"import", "read", "checkout", "remove", "verify"}, Handoff!Step(p, on)
  PROVE  \E x : /\ att' = [att EXCEPT ![p] = x] /\ IsAttach(x) /\ x # Handoff!Idle
                /\ x.id = att[p].id /\ x.at # "compare"
                /\ Taken(x.id) /\ x.task = taken[x.id].task
<1> DEFINE x == [att[p] EXCEPT !.at = on]
<1>1. /\ att[p] # Handoff!Idle /\ IsAttach(att[p])
      /\ Taken(att[p].id) /\ att[p].task = taken[att[p].id].task
  BY DEF HandoffInv, AttachOK, Handoff!Idle
<1>2. x = [at |-> on, id |-> att[p].id, task |-> att[p].task, seen |-> att[p].seen]
  BY <1>1 DEF IsAttach
<1>3. x.id = att[p].id /\ x.task = att[p].task /\ x.at = on
  BY <1>2
<1>4. IsAttach(x) /\ x # Handoff!Idle
  BY <1>2, <1>3 DEF IsAttach, Handoff!Idle
<1>5. att' = [att EXCEPT ![p] = x]
  BY DEF Handoff!Step
<1> QED
  BY <1>1, <1>3, <1>4, <1>5

LEMMA AttachStep ==
  ASSUME OneAttach, HandoffInv, NEW p \in Procs,
         \/ \E b \in wire, t \in Tasks : Handoff!AttachBegin(p, b, t)
         \/ Handoff!AttachImport(p) \/ Handoff!AttachRead(p) \/ Handoff!AttachCheckout(p)
         \/ Handoff!AttachRemove(p) \/ Handoff!AttachVerify(p) \/ Handoff!AttachCompare(p)
         \/ Handoff!AttachStops(p)
  PROVE  HandoffInv'
<1>1. UNCHANGED <<local, user, refs, snap, taken, wire, torn>>
  BY DEF Handoff!AttachBegin, Handoff!AttachImport, Handoff!AttachRead, Handoff!AttachCheckout,
     Handoff!AttachRemove, Handoff!AttachVerify, Handoff!AttachCompare, Handoff!AttachStops,
     Handoff!LocalSide
<1>2. /\ IsCloud(cloud) /\ Bound(cloud.refs) /\ IsAttach(att[p]) /\ AttachOK(p)
      /\ \A r \in receipts : ReceiptOK(r)
  BY DEF HandoffInv
<1>3. ASSUME NEW b \in wire, NEW t \in Tasks, Handoff!AttachBegin(p, b, t) PROVE HandoffInv'
  <2> DEFINE x == [at |-> "import", id |-> b.id, task |-> t, seen |-> Start]
  <2>1. /\ cloud' = cloud /\ receipts' = receipts /\ taken[b.id].task = t
        /\ att' = [att EXCEPT ![p] = x] /\ Taken(b.id)
    BY <1>3 DEF Handoff!AttachBegin, HandoffInv
  <2>2. IsAttach(x) /\ x.id = b.id /\ x.task = t /\ x.at = "import"
    BY DEF IsAttach
  <2> HIDE DEF x
  <2> QED
    BY <1>1, <1>2, <2>1, <2>2, CloudStep
<1>4. CASE Handoff!AttachImport(p)
  <2> DEFINE n == Handoff!Name(att[p].id)
  <2>1. /\ att[p].at = "import" /\ Handoff!Step(p, "read") /\ receipts' = receipts
        /\ cloud' = [cloud EXCEPT !.refs = Handoff!Put(cloud.refs, n, att[p].id)]
    BY <1>4 DEF Handoff!AttachImport
  <2>2. Taken(att[p].id)
    BY <2>1, <1>2 DEF AttachOK, Handoff!Idle
  <2>3. Bound(Handoff!Put(cloud.refs, n, att[p].id))
    BY <2>2, <1>2, PutBound
  <2>4. IsCloud(cloud') /\ Bound(cloud'.refs)
    BY <2>1, <2>3, <1>2 DEF IsCloud
  <2> QED
    BY <1>1, <1>2, <2>1, <2>4, StageOn, CloudStep
<1>5. CASE Handoff!AttachRead(p)
  <2>1. /\ att[p].at = "read" /\ Handoff!Step(p, "checkout") /\ receipts' = receipts
        /\ cloud' = [cloud EXCEPT !.index = taken[att[p].id].tree]
    BY <1>5 DEF Handoff!AttachRead
  <2>2. IsCloud(cloud') /\ cloud'.refs = cloud.refs
    BY <2>1, <1>2 DEF IsCloud
  <2> QED
    BY <1>1, <1>2, <2>1, <2>2, StageOn, CloudStep
<1>6. CASE Handoff!AttachCheckout(p)
  <2>1. /\ att[p].at = "checkout" /\ Handoff!Step(p, "remove") /\ receipts' = receipts
        /\ \E w : cloud' = [cloud EXCEPT !.work = w]
    BY <1>6 DEF Handoff!AttachCheckout
  <2>2. IsCloud(cloud') /\ cloud'.refs = cloud.refs
    BY <2>1, <1>2 DEF IsCloud
  <2> QED
    BY <1>1, <1>2, <2>1, <2>2, StageOn, CloudStep
<1>7. CASE Handoff!AttachRemove(p)
  <2>1. /\ att[p].at = "remove" /\ Handoff!Step(p, "verify") /\ receipts' = receipts
        /\ \E w : cloud' = [cloud EXCEPT !.work = w]
    BY <1>7 DEF Handoff!AttachRemove
  <2>2. IsCloud(cloud') /\ cloud'.refs = cloud.refs
    BY <2>1, <1>2 DEF IsCloud
  <2> QED
    BY <1>1, <1>2, <2>1, <2>2, StageOn, CloudStep
<1>8. CASE Handoff!AttachVerify(p)
  <2> DEFINE x == [at |-> "compare", id |-> att[p].id, task |-> att[p].task, seen |-> cloud.work]
  <2>1. /\ att[p].at = "verify" /\ receipts' = receipts /\ cloud' = [cloud EXCEPT !.index = cloud.work]
        /\ att' = [att EXCEPT ![p].at = "compare", ![p].seen = cloud.work]
    BY <1>8 DEF Handoff!AttachVerify
  <2>2. IsCloud(cloud') /\ cloud'.refs = cloud.refs /\ cloud'.index = cloud.work
    BY <2>1, <1>2 DEF IsCloud
  <2>3. /\ att[p] # Handoff!Idle
        /\ Taken(att[p].id) /\ att[p].task = taken[att[p].id].task
    BY <2>1, <1>2 DEF AttachOK, Handoff!Idle
  <2>4. att' = [att EXCEPT ![p] = x]
    <3>1. att' = [att EXCEPT ![p] = [att[p] EXCEPT !.at = "compare", !.seen = cloud.work]]
      BY <2>1 DEF HandoffInv
    <3>2. att[p] = [at |-> att[p].at, id |-> att[p].id, task |-> att[p].task, seen |-> att[p].seen]
      BY <2>3, <1>2 DEF IsAttach
    <3>3. ASSUME NEW y, y = [at |-> y.at, id |-> y.id, task |-> y.task, seen |-> y.seen]
          PROVE  [y EXCEPT !.at = "compare", !.seen = cloud.work]
                   = [at |-> "compare", id |-> y.id, task |-> y.task, seen |-> cloud.work]
      <4>1. [y EXCEPT !.at = "compare"] = [at |-> "compare", id |-> y.id, task |-> y.task, seen |-> y.seen]
        BY <3>3
      <4>2. [[at |-> "compare", id |-> y.id, task |-> y.task, seen |-> y.seen] EXCEPT !.seen = cloud.work]
              = [at |-> "compare", id |-> y.id, task |-> y.task, seen |-> cloud.work]
        OBVIOUS
      <4> QED
        BY <4>1, <4>2
    <3> QED
      BY <3>1, <3>2, <3>3
  <2>5. IsAttach(x) /\ x.id = att[p].id /\ x.task = att[p].task /\ x.seen = cloud.work
    BY DEF IsAttach
  <2> HIDE DEF x
  <2> QED
    BY <1>1, <1>2, <2>1, <2>2, <2>3, <2>4, <2>5, CloudStep
<1>9. CASE Handoff!AttachCompare(p)
  <2> DEFINE r == [id |-> att[p].id, task |-> att[p].task, work |-> att[p].seen]
  <2>1. /\ att[p].at = "compare" /\ cloud' = [cloud EXCEPT !.index = cloud.head]
        /\ att' = [att EXCEPT ![p] = Handoff!Idle]
        /\ \/ receipts' = receipts
           \/ receipts' = receipts \cup {r} /\ cloud.index = taken[att[p].id].tree
    BY <1>9 DEF Handoff!AttachCompare, Handoff!Reproduced
  <2>2. IsCloud(cloud') /\ cloud'.refs = cloud.refs
    BY <2>1, <1>2 DEF IsCloud
  <2>3. /\ Taken(att[p].id) /\ att[p].task = taken[att[p].id].task /\ att[p].seen = cloud.index
    BY <2>1, <1>2 DEF AttachOK, Handoff!Idle
  <2>4. \A q \in receipts' : ReceiptOK(q)
    BY <2>1, <2>3, <1>2 DEF ReceiptOK
  <2>5. IsAttach(Handoff!Idle)
    BY DEF IsAttach
  <2> QED
    BY <1>1, <1>2, <2>1, <2>2, <2>4, <2>5, CloudStep
<1>10. CASE Handoff!AttachStops(p)
  <2>1. IsAttach(Handoff!Idle) /\ cloud' = cloud /\ receipts' = receipts /\ att' = [att EXCEPT ![p] = Handoff!Idle]
    BY <1>10 DEF IsAttach, Handoff!AttachStops
  <2> QED
    BY <1>1, <1>2, <2>1, CloudStep
<1> QED
  BY <1>3, <1>4, <1>5, <1>6, <1>7, <1>8, <1>9, <1>10

LEMMA HandoffStep ==
  ASSUME OneAttach, HandoffInv, [Handoff!Next]_(Handoff!handoffVars) PROVE HandoffInv'
<1>1. CASE UNCHANGED Handoff!handoffVars
  <2>1. UNCHANGED <<local, user, refs, snap, taken, wire, cloud, att, receipts, torn>>
    BY <1>1 DEF Handoff!handoffVars
  <2>2. IsLocal(local)' /\ IsSnap(snap)' /\ StagingOK'
    BY <2>1 DEF HandoffInv, StagingOK
  <2> QED
    BY <2>1, <2>2, LocalStep
<1> QED
  BY <1>1, UserStep, CloudEditStep, SnapRefStep, ExportStep, CleanupStep, AttachStep DEF Handoff!Next

\* create_snapshot (git/snapshot.rs) and attach_checkpoint_bundle (cloud_attach.rs), for any
\* files, contents, tasks, edits and failures on both sides: a receipt vouches for the exact
\* tree that was captured for its task, the user's staging survives a snapshot that was not
\* cut short, and a ref holds the snapshot its name says.
THEOREM HandoffIsExact ==
  OneAttach => (Handoff!HandoffSpec => []Handoff!HandoffExact)
<1> SUFFICES ASSUME OneAttach PROVE Handoff!HandoffSpec => []Handoff!HandoffExact
  OBVIOUS
<1>1. Handoff!Init => HandoffInv
  BY HandoffStart
<1>2. HandoffInv /\ [Handoff!Next]_(Handoff!handoffVars) => HandoffInv'
  BY HandoffStep
<1>3. HandoffInv => Handoff!HandoffExact
  <2> SUFFICES ASSUME HandoffInv PROVE Handoff!HandoffExact
    OBVIOUS
  <2>1. Handoff!ReceiptsAreExact
    BY DEF Handoff!ReceiptsAreExact, HandoffInv, ReceiptOK
  <2>2. Handoff!StagingSurvives
    BY DEF Handoff!StagingSurvives, HandoffInv, StagingOK, Handoff!Idle
  <2>3. Handoff!RefsAreBound
    BY DEF Handoff!RefsAreBound, HandoffInv, Bound
  <2> QED
    BY <2>1, <2>2, <2>3 DEF Handoff!HandoffExact
<1> QED
  BY <1>1, <1>2, <1>3, PTL DEF Handoff!HandoffSpec

-----------------------------------------------------------------------------
(***************************************************************************)
(* The browsers of the tasks.  What a call may take from the socket is     *)
(* known by the numbers of the commands; what was filed and what is still  *)
(* on the socket are together the events of the browser, in order.         *)
(***************************************************************************)
CONSTANTS Callers, MaxLaunches, MaxPages, MaxSlow

VARIABLES sessions, driver, chrome, pending, socket, nextId, filed, viewing, mutex, slow,
          views, frames

Browser == INSTANCE BrowserHost WITH lease <- driver, call <- viewing, lock <- mutex, calls <- views

\* The mutex that is free is held by nobody.
BrowserAssumptions == "free" \notin Callers /\ MaxLaunches \in Nat

Launches == 1..MaxLaunches
Chromes == [at : {"unused", "up", "dead", "leaked"}, page : Nat, dir : BOOLEAN, events : Nat]
Messages == [id : Nat, page : Nat]
Views == [at : {"none", "set", "view", "launch", "snapshot", "capture"}, task : Tasks \cup {""},
          set : {"", "user", "agent"}, b : Nat, id : Nat, page : Nat, from : Nat, again : BOOLEAN]

\* The messages q on the socket, the events f filed, and the number e of events sent by a
\* browser that is up or not: the next to be filed is the first on the socket.
EventsOK(q, f, e, up) ==
  /\ q \in Seq(Messages) /\ f \in Seq(Nat) /\ e \in Nat
  /\ \A i \in 1..Len(f) : f[i] = i
  /\ \A n \in 1..Len(q) : q[n].id = 0 => Len(f) < q[n].page /\ q[n].page <= e
  /\ \A m, n \in 1..Len(q) : m < n /\ q[m].id = 0 /\ q[n].id = 0 => q[m].page < q[n].page
  /\ up \/ q # <<>> =>
       \A k \in 1..e : Len(f) < k => \E n \in 1..Len(q) : q[n].id = 0 /\ q[n].page = k
  /\ up => Len(f) <= e

\* Commands are numbered in order, and an answer shows a page there was.
NumbersOK(x, n, p, q) ==
  /\ x \in Chromes /\ n \in Nat /\ n > 0
  /\ \A i \in p : i \in Nat /\ 0 < i /\ i < n
  /\ q \in Seq(Messages)
  /\ \A k \in 1..Len(q) : q[k].id < n /\ (q[k].id # 0 => q[k].page <= x.page)

BrowserOK(b) ==
  /\ NumbersOK(chrome[b], nextId[b], pending[b], socket[b])
  /\ EventsOK(socket[b], filed[b], chrome[b].events, chrome[b].at = "up")
  /\ chrome[b].at = "unused" => socket[b] = <<>> /\ filed[b] = <<>> /\ chrome[b].page = 0

\* A call that waits for an answer: what carries its number is not older than it may be.
AnswerOK(v, x, n, q) ==
  /\ 0 < v.id /\ v.id < n /\ v.from <= x.page
  /\ v.at = "snapshot" => \A k \in 1..Len(q) : q[k].id = v.id => v.from <= q[k].page
  /\ v.at = "capture" => /\ v.from <= v.page /\ v.page <= x.page
                         /\ \A k \in 1..Len(q) : q[k].id = v.id => v.page <= q[k].page

Inside == {"launch", "snapshot", "capture"}
Awaiting == {"snapshot", "capture"}

ViewOK(c) ==
  /\ viewing[c] \in Views
  /\ viewing[c].at # "none" => viewing[c].task \in Tasks
  /\ viewing[c].at \in Inside => mutex = c
  /\ viewing[c].at = "launch" => sessions[viewing[c].task] = 0
  /\ viewing[c].at \in Awaiting =>
       /\ viewing[c].b \in Launches /\ sessions[viewing[c].task] = viewing[c].b
       /\ AnswerOK(viewing[c], chrome[viewing[c].b], nextId[viewing[c].b], socket[viewing[c].b])

BrowsersOK ==
  /\ DOMAIN chrome = Launches /\ DOMAIN nextId = Launches /\ DOMAIN pending = Launches
  /\ DOMAIN socket = Launches /\ DOMAIN filed = Launches
  /\ \A b \in Launches : BrowserOK(b)

ViewsOK == DOMAIN viewing = Callers /\ \A c \in Callers : ViewOK(c)

SessionsOK ==
  /\ DOMAIN sessions = Tasks
  /\ \A t \in Tasks : sessions[t] # 0 => sessions[t] \in Launches /\ chrome[sessions[t]].at # "unused"
  /\ Browser!OneBrowserPerTask

BrowserInv == BrowsersOK /\ ViewsOK /\ SessionsOK /\ Browser!FramesCurrent

-----------------------------------------------------------------------------
LEMMA MessagesAre ==
  ASSUME NEW q \in Seq(Messages)
  PROVE  \A n \in 1..Len(q) : q[n] \in Messages /\ q[n].id \in Nat /\ q[n].page \in Nat
<1>1. \A n \in 1..Len(q) : q[n] \in Messages
  OBVIOUS
<1> QED
  BY <1>1 DEF Messages

LEMMA EventSent ==
  ASSUME NEW q, NEW f, NEW e, NEW up \in BOOLEAN, up, EventsOK(q, f, e, up)
  PROVE  EventsOK(Append(q, [id |-> 0, page |-> e + 1]), f, e + 1, up)
<1> DEFINE m == [id |-> 0, page |-> e + 1]
           r == Append(q, m)
<1>1. q \in Seq(Messages) /\ m \in Messages /\ m.id = 0 /\ m.page = e + 1 /\ e \in Nat
  BY DEF EventsOK, Messages
<1>2. r \in Seq(Messages) /\ IsAppended(q, r, m)
  BY <1>1, AppendedIs
<1> HIDE DEF m, r
<1>3. PICK l \in Nat : l = Len(q) /\ Len(r) = l + 1 /\ r[l + 1] = m /\ \A i \in 1..l : r[i] = q[i]
  BY <1>2 DEF IsAppended
<1>4. PICK h \in Nat : h = Len(f) /\ h <= e
  BY DEF EventsOK
<1>5. /\ \A n \in 1..l : q[n].id = 0 => h < q[n].page /\ q[n].page <= e
      /\ \A i, n \in 1..l : i < n /\ q[i].id = 0 /\ q[n].id = 0 => q[i].page < q[n].page
      /\ \A n \in 1..l : q[n].page \in Nat
      /\ \A k \in 1..e : h < k => \E n \in 1..l : q[n].id = 0 /\ q[n].page = k
  <2>1. \A n \in 1..l : q[n].page \in Nat
    BY <1>1, <1>3, MessagesAre
  <2> QED
    BY <2>1, <1>3, <1>4 DEF EventsOK
<1>6. \A n \in 1..(l + 1) : n = l + 1 \/ n \in 1..l
  BY <1>3
<1>7. \A n \in 1..(l + 1) : r[n].id = 0 => h < r[n].page /\ r[n].page <= e + 1
  BY <1>1, <1>3, <1>4, <1>5, <1>6
<1>8. ASSUME NEW i \in 1..(l + 1), NEW n \in 1..(l + 1), i < n, r[i].id = 0, r[n].id = 0
      PROVE  r[i].page < r[n].page
  <2>1. i \in 1..l
    BY <1>8, <1>3
  <2>2. CASE n \in 1..l
    BY <1>3, <1>5, <1>8, <2>1, <2>2
  <2>3. CASE n = l + 1
    BY <1>1, <1>3, <1>5, <1>8, <2>1, <2>3
  <2> QED
    BY <1>6, <2>2, <2>3
<1>9. ASSUME NEW k \in 1..(e + 1), h < k PROVE \E n \in 1..(l + 1) : r[n].id = 0 /\ r[n].page = k
  <2>1. CASE k = e + 1
    BY <2>1, <1>1, <1>3
  <2>2. CASE k \in 1..e
    <3>1. PICK n \in 1..l : q[n].id = 0 /\ q[n].page = k
      BY <1>5, <1>9, <2>2
    <3>2. n \in 1..(l + 1)
      BY <1>3
    <3> QED
      BY <3>1, <3>2, <1>3
  <2> QED
    BY <2>1, <2>2, <1>1
<1>10. f \in Seq(Nat) /\ (\A i \in 1..h : f[i] = i) /\ e + 1 \in Nat /\ h <= e + 1
  BY <1>1, <1>4 DEF EventsOK
<1>11. EventsOK(r, f, e + 1, up)
  BY <1>2, <1>3, <1>4, <1>7, <1>8, <1>9, <1>10 DEF EventsOK
<1> QED
  BY <1>11 DEF m, r

LEMMA AnswerSent ==
  ASSUME NEW q, NEW f, NEW e, NEW up \in BOOLEAN, up, EventsOK(q, f, e, up), NEW m \in Messages, m.id # 0
  PROVE  EventsOK(Append(q, m), f, e, up)
<1> DEFINE r == Append(q, m)
<1>1. q \in Seq(Messages)
  BY DEF EventsOK
<1>2. r \in Seq(Messages) /\ IsAppended(q, r, m)
  BY <1>1, AppendedIs
<1> HIDE DEF r
<1>3. PICK l \in Nat : l = Len(q) /\ Len(r) = l + 1 /\ r[l + 1] = m /\ \A i \in 1..l : r[i] = q[i]
  BY <1>2 DEF IsAppended
<1>4. \A n \in 1..(l + 1) : r[n].id = 0 => n \in 1..l
  BY <1>3
<1>5. \A n \in 1..l : n \in 1..(l + 1)
  BY <1>3
<1>6. \A n \in 1..(l + 1) : r[n].id = 0 => Len(f) < r[n].page /\ r[n].page <= e
  BY <1>3, <1>4 DEF EventsOK
<1>7. \A i, n \in 1..(l + 1) : i < n /\ r[i].id = 0 /\ r[n].id = 0 => r[i].page < r[n].page
  BY <1>3, <1>4 DEF EventsOK
<1>8. \A k \in 1..e : Len(f) < k => \E n \in 1..(l + 1) : r[n].id = 0 /\ r[n].page = k
  <2>1. ASSUME NEW k \in 1..e, Len(f) < k PROVE \E n \in 1..(l + 1) : r[n].id = 0 /\ r[n].page = k
    <3>1. PICK n \in 1..l : q[n].id = 0 /\ q[n].page = k
      BY <2>1, <1>3 DEF EventsOK
    <3> QED
      BY <3>1, <1>3, <1>5
  <2> QED
    BY <2>1
<1>9. EventsOK(r, f, e, up)
  BY <1>2, <1>3, <1>6, <1>7, <1>8 DEF EventsOK
<1> QED
  BY <1>9 DEF r

\* An answer is taken off the socket.
LEMMA AnswerTaken ==
  ASSUME NEW q, NEW f, NEW e, NEW up \in BOOLEAN, EventsOK(q, f, e, up), q # <<>>, Head(q).id # 0
  PROVE  EventsOK(Tail(q), f, e, up)
<1> DEFINE r == Tail(q)
<1>1. r \in Seq(Messages) /\ IsTail(q, r) /\ Head(q) = q[1]
  BY TailIs DEF EventsOK
<1> HIDE DEF r
<1>2. PICK l \in Nat : l = Len(r) /\ Len(q) = l + 1 /\ \A i \in 1..l : r[i] = q[i + 1]
  BY <1>1 DEF IsTail
<1>3. \A n \in 1..l : n + 1 \in 1..(l + 1)
  BY <1>2
<1>4. \A n \in 1..l : r[n].id = 0 => Len(f) < r[n].page /\ r[n].page <= e
  BY <1>2, <1>3 DEF EventsOK
<1>5. \A i, n \in 1..l : i < n /\ r[i].id = 0 /\ r[n].id = 0 => r[i].page < r[n].page
  <2>1. \A i, n \in 1..l : i < n => i + 1 < n + 1
    BY <1>2
  <2> QED
    BY <1>2, <1>3, <2>1 DEF EventsOK
<1>6. \A k \in 1..e : Len(f) < k => \E n \in 1..l : r[n].id = 0 /\ r[n].page = k
  <2>1. ASSUME NEW k \in 1..e, Len(f) < k PROVE \E n \in 1..l : r[n].id = 0 /\ r[n].page = k
    <3>1. PICK n \in 1..(l + 1) : q[n].id = 0 /\ q[n].page = k
      BY <2>1, <1>2 DEF EventsOK
    <3>2. n # 1
      BY <3>1, <1>1
    <3>3. PICK i \in 1..l : n = i + 1
      <4>1. n - 1 \in 1..l /\ n = (n - 1) + 1
        BY <3>2, <1>2
      <4> QED
        BY <4>1
    <3> QED
      BY <3>1, <3>3, <1>2
  <2> QED
    BY <2>1
<1>7. EventsOK(r, f, e, up)
  BY <1>1, <1>2, <1>4, <1>5, <1>6 DEF EventsOK
<1> QED
  BY <1>7 DEF r

\* An event is taken off the socket and filed: it is the next one.
LEMMA EventFiled ==
  ASSUME NEW q, NEW f, NEW e, NEW up \in BOOLEAN, EventsOK(q, f, e, up), q # <<>>, Head(q).id = 0
  PROVE  EventsOK(Tail(q), Append(f, Head(q).page), e, up)
<1> DEFINE r == Tail(q)
           x == Head(q).page
           g == Append(f, x)
<1>1. r \in Seq(Messages) /\ IsTail(q, r) /\ Head(q) = q[1] /\ 1 \in 1..Len(q)
  BY TailIs DEF EventsOK
<1>2. x \in Nat /\ f \in Seq(Nat)
  BY <1>1, MessagesAre DEF EventsOK
<1>3. g \in Seq(Nat) /\ IsAppended(f, g, x)
  BY <1>2, AppendedIs
<1>4. q[1].page = x /\ q[1].id = 0
  BY <1>1
<1> HIDE DEF r, x, g
<1>5. PICK l \in Nat : l = Len(r) /\ Len(q) = l + 1 /\ \A i \in 1..l : r[i] = q[i + 1]
  BY <1>1 DEF IsTail
<1>6. PICK h \in Nat : h = Len(f) /\ Len(g) = h + 1 /\ g[h + 1] = x /\ \A i \in 1..h : g[i] = f[i]
  BY <1>3 DEF IsAppended
<1>7. /\ e \in Nat
      /\ \A n \in 1..(l + 1) : q[n].id = 0 => h < q[n].page /\ q[n].page <= e
      /\ \A i, n \in 1..(l + 1) : i < n /\ q[i].id = 0 /\ q[n].id = 0 => q[i].page < q[n].page
      /\ \A k \in 1..e : h < k => \E n \in 1..(l + 1) : q[n].id = 0 /\ q[n].page = k
      /\ \A n \in 1..(l + 1) : q[n].page \in Nat
      /\ \A i \in 1..h : f[i] = i
  <2>1. \A n \in 1..(l + 1) : q[n].page \in Nat
    BY <1>5, MessagesAre DEF EventsOK
  <2>2. up \/ q # <<>>
    OBVIOUS
  <2>3. \A k \in 1..e : h < k => \E n \in 1..(l + 1) : q[n].id = 0 /\ q[n].page = k
    BY <2>2, <1>5, <1>6 DEF EventsOK
  <2> QED
    BY <2>1, <2>3, <1>5, <1>6 DEF EventsOK
<1>8. h < x /\ x <= e
  BY <1>4, <1>5, <1>7
<1>9. x = h + 1
  <2>1. h + 1 \in 1..e
    BY <1>2, <1>7, <1>8
  <2>2. PICK n \in 1..(l + 1) : q[n].id = 0 /\ q[n].page = h + 1
    BY <1>7, <2>1
  <2>3. CASE n = 1
    BY <2>2, <2>3, <1>4
  <2>4. CASE n # 1
    <3>1. 1 < n /\ 1 \in 1..(l + 1)
      BY <2>4, <1>5
    <3>2. x < h + 1
      BY <3>1, <2>2, <1>4, <1>7
    <3> QED
      BY <3>2, <1>2, <1>8
  <2> QED
    BY <2>3, <2>4
<1>10. \A i \in 1..(h + 1) : g[i] = i
  <2>1. \A i \in 1..(h + 1) : i = h + 1 \/ i \in 1..h
    BY <1>6
  <2> QED
    BY <2>1, <1>6, <1>7, <1>9
<1>11. \A n \in 1..l : n + 1 \in 1..(l + 1) /\ 1 < n + 1 /\ 1 \in 1..(l + 1)
  BY <1>5
<1>12. \A n \in 1..l : r[n].id = 0 => h + 1 < r[n].page /\ r[n].page <= e
  BY <1>4, <1>5, <1>7, <1>9, <1>11
<1>13. \A i, n \in 1..l : i < n /\ r[i].id = 0 /\ r[n].id = 0 => r[i].page < r[n].page
  <2>1. \A i, n \in 1..l : i < n => i + 1 < n + 1
    BY <1>5
  <2>2. ASSUME NEW i \in 1..l, NEW n \in 1..l, i < n, r[i].id = 0, r[n].id = 0
        PROVE  r[i].page < r[n].page
    <3>1. r[i] = q[i + 1] /\ r[n] = q[n + 1] /\ i + 1 < n + 1
      BY <1>5, <2>1, <2>2
    <3> QED
      BY <3>1, <2>2, <1>7, <1>11
  <2> QED
    BY <2>2
<1>14. \A k \in 1..e : h + 1 < k => \E n \in 1..l : r[n].id = 0 /\ r[n].page = k
  <2>1. ASSUME NEW k \in 1..e, h + 1 < k PROVE \E n \in 1..l : r[n].id = 0 /\ r[n].page = k
    <3>0. h < k
      BY <2>1, <1>6
    <3>1. PICK n \in 1..(l + 1) : q[n].id = 0 /\ q[n].page = k
      BY <3>0, <1>7
    <3>2. n # 1
      BY <3>1, <2>1, <1>4, <1>9
    <3>3. PICK i \in 1..l : n = i + 1
      <4>1. n - 1 \in 1..l /\ n = (n - 1) + 1
        BY <3>2, <1>5
      <4> QED
        BY <4>1
    <3> QED
      BY <3>1, <3>3, <1>5
  <2> QED
    BY <2>1
<1>15. h + 1 <= e
  BY <1>8, <1>9
<1>16. EventsOK(r, g, e, up)
  BY <1>1, <1>3, <1>5, <1>6, <1>7, <1>10, <1>12, <1>13, <1>14, <1>15 DEF EventsOK
<1> QED
  BY <1>16 DEF r, x, g

\* A browser that is not up sends no more events; what is on its socket may be lost.
LEMMA EventsDropped ==
  ASSUME NEW q, NEW f, NEW e, NEW up \in BOOLEAN, EventsOK(q, f, e, up), NEW down \in BOOLEAN, ~down
  PROVE  EventsOK(q, f, e, down) /\ EventsOK(<<>>, f, e, down)
<1>1. EventsOK(q, f, e, down)
  BY DEF EventsOK
<1>2. <<>> \in Seq(Messages) /\ Len(<<>>) = 0
  BY EmptySeq
<1> QED
  BY <1>1, <1>2 DEF EventsOK

LEMMA EventsNone ==
  ASSUME NEW up \in BOOLEAN
  PROVE  EventsOK(<<>>, <<>>, 0, up)
<1>1. <<>> \in Seq(Messages) /\ <<>> \in Seq(Nat) /\ Len(<<>>) = 0
  BY EmptySeq
<1> QED
  BY <1>1 DEF EventsOK

LEMMA NumbersMove ==
  ASSUME NEW x, NEW n, NEW p, NEW q, NumbersOK(x, n, p, q)
  PROVE  /\ NumbersOK(x, n + 1, p, q) /\ NumbersOK(x, n + 1, p \cup {n}, q)
         /\ NumbersOK(x, n, {}, q) /\ NumbersOK(x, n, p, <<>>)
         /\ \A y \in Chromes : x.page <= y.page => NumbersOK(y, n, p, q)
<1>1. n \in Nat /\ n > 0 /\ n + 1 \in Nat /\ n + 1 > 0
  BY DEF NumbersOK
<1>2. \A k \in 1..Len(q) : q[k].id \in Nat /\ q[k].page \in Nat /\ q[k].id < n
  BY MessagesAre DEF NumbersOK
<1>3. NumbersOK(x, n + 1, p, q)
  BY <1>1, <1>2 DEF NumbersOK
<1>4. NumbersOK(x, n + 1, p \cup {n}, q)
  BY <1>1, <1>2 DEF NumbersOK
<1>5. NumbersOK(x, n, {}, q)
  BY DEF NumbersOK
<1>6. NumbersOK(x, n, p, <<>>)
  <2>1. <<>> \in Seq(Messages) /\ Len(<<>>) = 0
    BY EmptySeq
  <2> QED
    BY <2>1 DEF NumbersOK
<1>7. ASSUME NEW y \in Chromes, x.page <= y.page PROVE NumbersOK(y, n, p, q)
  <2>1. x.page \in Nat /\ y.page \in Nat
    BY DEF NumbersOK, Chromes
  <2> QED
    BY <1>2, <1>7, <2>1 DEF NumbersOK
<1> QED
  BY <1>3, <1>4, <1>5, <1>6, <1>7

LEMMA NumbersTail ==
  ASSUME NEW x, NEW n, NEW p, NEW q, NumbersOK(x, n, p, q), q # <<>>
  PROVE  /\ NumbersOK(x, n, p, Tail(q))
         /\ Head(q).id \in Nat /\ Head(q).page \in Nat /\ Head(q).id < n
         /\ Head(q).id # 0 => Head(q).page <= x.page
<1> DEFINE r == Tail(q)
<1>1. r \in Seq(Messages) /\ IsTail(q, r) /\ Head(q) = q[1] /\ 1 \in 1..Len(q)
  BY TailIs DEF NumbersOK
<1>2. /\ q[1].id \in Nat /\ q[1].page \in Nat /\ q[1].id < n
      /\ q[1].id # 0 => q[1].page <= x.page
  BY <1>1, MessagesAre DEF NumbersOK
<1> HIDE DEF r
<1>3. \A k \in 1..Len(r) : k + 1 \in 1..Len(q) /\ r[k] = q[k + 1]
  BY <1>1 DEF IsTail
<1>4. NumbersOK(x, n, p, r)
  BY <1>1, <1>3 DEF NumbersOK
<1> QED
  BY <1>1, <1>2, <1>4 DEF r

LEMMA NumbersSent ==
  ASSUME NEW x, NEW n, NEW p, NEW q, NumbersOK(x, n, p, q), NEW m \in Messages, m.id < n,
         m.id # 0 => m.page <= x.page, NEW s \in SUBSET p
  PROVE  /\ NumbersOK(x, n, s, Append(q, m))
         /\ \A k \in 1..Len(Append(q, m)) : \/ k \in 1..Len(q) /\ Append(q, m)[k] = q[k]
                                            \/ Append(q, m)[k] = m
<1> DEFINE r == Append(q, m)
<1>1. r \in Seq(Messages) /\ IsAppended(q, r, m)
  BY AppendedIs DEF NumbersOK
<1> HIDE DEF r
<1>2. \A k \in 1..Len(r) : (k \in 1..Len(q) /\ r[k] = q[k]) \/ r[k] = m
  BY <1>1 DEF IsAppended
<1>3. NumbersOK(x, n, s, r)
  BY <1>1, <1>2 DEF NumbersOK
<1> QED
  BY <1>2, <1>3 DEF r

\* A call waits on while the page turns and messages come that are not older than the page.
LEMMA AnswerKept ==
  ASSUME NEW v \in Views, NEW x \in Chromes, NEW y \in Chromes, NEW n \in Nat, NEW q, NEW r,
         AnswerOK(v, x, n, q), x.page <= y.page, r \in Seq(Messages),
         \A k \in 1..Len(r) : \/ \E i \in 1..Len(q) : r[k] = q[i]
                              \/ r[k].id = 0
                              \/ r[k].page = x.page
  PROVE  AnswerOK(v, y, n, r)
<1>1. v.id \in Nat /\ v.from \in Nat /\ v.page \in Nat /\ x.page \in Nat /\ y.page \in Nat
  BY DEF Views, Chromes
<1>2. 0 < v.id /\ v.id < n /\ v.from <= y.page
  BY <1>1 DEF AnswerOK
<1>3. ASSUME v.at = "snapshot", NEW k \in 1..Len(r), r[k].id = v.id PROVE v.from <= r[k].page
  <2>1. CASE \E i \in 1..Len(q) : r[k] = q[i]
    BY <2>1, <1>3 DEF AnswerOK
  <2>2. CASE r[k].page = x.page
    BY <2>2 DEF AnswerOK
  <2> QED
    BY <2>1, <2>2, <1>1, <1>2, <1>3
<1>4. ASSUME v.at = "capture" PROVE v.from <= v.page /\ v.page <= y.page
  BY <1>1, <1>4 DEF AnswerOK
<1>5. ASSUME v.at = "capture", NEW k \in 1..Len(r), r[k].id = v.id PROVE v.page <= r[k].page
  <2>1. CASE \E i \in 1..Len(q) : r[k] = q[i]
    BY <2>1, <1>5 DEF AnswerOK
  <2>2. CASE r[k].page = x.page
    BY <2>2, <1>5 DEF AnswerOK
  <2> QED
    BY <2>1, <2>2, <1>1, <1>2, <1>5
<1> QED
  BY <1>2, <1>3, <1>4, <1>5 DEF AnswerOK

-----------------------------------------------------------------------------
\* A step that changes what belongs to one browser.
OnlyAt(b) ==
  /\ DOMAIN chrome' = Launches /\ DOMAIN nextId' = Launches /\ DOMAIN pending' = Launches
  /\ DOMAIN socket' = Launches /\ DOMAIN filed' = Launches
  /\ \A a \in Launches \ {b} :
       /\ chrome'[a] = chrome[a] /\ nextId'[a] = nextId[a] /\ pending'[a] = pending[a]
       /\ socket'[a] = socket[a] /\ filed'[a] = filed[a]

LEMMA OneMoves ==
  ASSUME BrowsersOK, NEW b \in Launches, OnlyAt(b), BrowserOK(b)'
  PROVE  BrowsersOK'
<1>1. ASSUME NEW a \in Launches \ {b} PROVE BrowserOK(a)'
  BY <1>1 DEF BrowsersOK, OnlyAt, BrowserOK
<1> QED
  BY <1>1 DEF BrowsersOK, OnlyAt

LEMMA SessionsKept ==
  ASSUME SessionsOK, UNCHANGED sessions,
         \A a \in Launches : /\ chrome'[a].at = "up" => chrome[a].at = "up"
                             /\ chrome'[a].at = "unused" => chrome[a].at = "unused"
  PROVE  SessionsOK'
<1>1. Browser!OneBrowserPerTask'
  BY DEF SessionsOK, Browser!OneBrowserPerTask, Browser!Ids, Launches
<1> QED
  BY <1>1 DEF SessionsOK

\* Of the callers only the one that holds the mutex is inside.
LEMMA OthersOutside ==
  ASSUME ViewsOK, BrowserAssumptions, NEW c \in Callers, mutex = "free" \/ mutex = c,
         DOMAIN viewing' = Callers, \A d \in Callers \ {c} : viewing'[d] = viewing[d], ViewOK(c)'
  PROVE  ViewsOK'
<1>1. ASSUME NEW d \in Callers \ {c} PROVE ViewOK(d)'
  <2>1. ViewOK(d) /\ mutex # d
    BY <1>1 DEF ViewsOK, BrowserAssumptions
  <2>2. viewing[d].at \notin Inside /\ viewing[d].at # "launch" /\ viewing[d].at \notin Awaiting
    BY <2>1 DEF ViewOK, Inside, Awaiting
  <2> QED
    BY <2>1, <2>2, <1>1 DEF ViewOK
<1> QED
  BY <1>1 DEF ViewsOK

LEMMA BrowserStart == ASSUME BrowserAssumptions, Browser!Init PROVE BrowserInv
<1>1. /\ chrome = [b \in Launches |-> Browser!Unused] /\ pending = [b \in Launches |-> {}]
      /\ socket = [b \in Launches |-> <<>>] /\ nextId = [b \in Launches |-> 1]
      /\ filed = [b \in Launches |-> <<>>] /\ sessions = [t \in Tasks |-> 0] /\ frames = {}
      /\ viewing = [c \in Callers |-> Browser!NoCall]
  BY DEF Browser!Init, Browser!Ids, Launches
<1>2. Browser!Unused \in Chromes /\ Browser!Unused.at = "unused" /\ Browser!Unused.page = 0 /\ Browser!Unused.events = 0
  BY DEF Browser!Unused, Chromes
<1>3. BrowsersOK
  <2>1. <<>> \in Seq(Messages) /\ Len(<<>>) = 0
    BY EmptySeq
  <2>2. NumbersOK(Browser!Unused, 1, {}, <<>>)
    BY <1>2, <2>1 DEF NumbersOK
  <2>3. ASSUME NEW b \in Launches PROVE BrowserOK(b)
    <3>1. EventsOK(<<>>, <<>>, 0, chrome[b].at = "up")
      BY EventsNone
    <3> QED
      BY <1>1, <1>2, <2>2, <3>1 DEF BrowserOK
  <2> QED
    BY <2>3, <1>1 DEF BrowsersOK
<1>4. ViewsOK
  <2>1. Browser!NoCall \in Views /\ Browser!NoCall.at = "none"
    BY DEF Browser!NoCall, Views
  <2> QED
    BY <2>1, <1>1 DEF ViewsOK, ViewOK, Inside, Awaiting
<1>5. SessionsOK
  BY <1>1, <1>2 DEF SessionsOK, Browser!OneBrowserPerTask, Browser!Ids, Launches
<1>6. Browser!FramesCurrent
  BY <1>1 DEF Browser!FramesCurrent
<1> QED
  BY <1>3, <1>4, <1>5, <1>6 DEF BrowserInv

LEMMA ChromeFields ==
  ASSUME NEW x \in Chromes, NEW n \in Nat
  PROVE  /\ [x EXCEPT !.events = n] \in Chromes /\ [x EXCEPT !.page = n] \in Chromes
         /\ [id |-> 0, page |-> n] \in Messages
BY DEF Chromes, Messages

\* What the browser does by itself.
LEMMA ChromeMoves ==
  ASSUME BrowserInv, NEW b \in Launches,
         UNCHANGED <<sessions, viewing, mutex, frames>>, OnlyAt(b), nextId'[b] = nextId[b],
         BrowserOK(b)', chrome[b].page <= chrome'[b].page,
         chrome[b].at = "up", chrome'[b].at # "unused",
         \A k \in 1..Len(socket'[b]) : \/ \E i \in 1..Len(socket[b]) : socket'[b][k] = socket[b][i]
                                       \/ socket'[b][k].id = 0
                                       \/ socket'[b][k].page = chrome[b].page
  PROVE  BrowserInv'
<1>1. BrowsersOK'
  BY OneMoves DEF BrowserInv
<1>2. SessionsOK'
  <2>1. \A a \in Launches : /\ chrome'[a].at = "up" => chrome[a].at = "up"
                            /\ chrome'[a].at = "unused" => chrome[a].at = "unused"
    BY DEF OnlyAt
  <2> QED
    BY <2>1, SessionsKept DEF BrowserInv
<1>3. ASSUME NEW c \in Callers PROVE ViewOK(c)'
  <2>1. ViewOK(c)
    BY DEF BrowserInv, ViewsOK
  <2>2. CASE viewing[c].at \notin Awaiting
    BY <2>1, <2>2 DEF ViewOK
  <2>3. CASE viewing[c].at \in Awaiting
    <3>1. PICK a \in Launches : a = viewing[c].b
      BY <2>1, <2>3 DEF ViewOK
    <3>2. AnswerOK(viewing[c], chrome[a], nextId[a], socket[a]) /\ viewing[c] \in Views
      BY <2>1, <2>3, <3>1 DEF ViewOK
    <3>3. AnswerOK(viewing[c], chrome'[a], nextId'[a], socket'[a])
      <4>1. CASE a = b
        <5>1. /\ chrome[b] \in Chromes /\ chrome'[b] \in Chromes /\ nextId[b] \in Nat
              /\ socket'[b] \in Seq(Messages)
          BY DEF BrowserInv, BrowsersOK, BrowserOK, NumbersOK
        <5>2. AnswerOK(viewing[c], chrome[b], nextId[b], socket[b]) /\ viewing[c] \in Views
          BY <4>1, <3>2
        <5>3. AnswerOK(viewing[c], chrome'[b], nextId[b], socket'[b])
          <6>1. PICK v \in Views, x \in Chromes, y \in Chromes, n \in Nat, r \in Seq(Messages) :
                  /\ v = viewing[c] /\ x = chrome[b] /\ y = chrome'[b] /\ n = nextId[b]
                  /\ r = socket'[b]
            BY <5>1, <5>2
          <6>2. PICK q : q = socket[b]
            OBVIOUS
          <6>3. /\ AnswerOK(v, x, n, q) /\ x.page <= y.page
                /\ \A k \in 1..Len(r) : \/ \E i \in 1..Len(q) : r[k] = q[i]
                                        \/ r[k].id = 0
                                        \/ r[k].page = x.page
            BY <5>2, <6>1, <6>2
          <6>4. AnswerOK(v, y, n, r)
            BY <6>3, AnswerKept
          <6> QED
            BY <6>1, <6>4
        <5> QED
          BY <4>1, <5>3
      <4>2. CASE a # b
        BY <4>2, <3>2 DEF OnlyAt
      <4> QED
        BY <4>1, <4>2
    <3> QED
      BY <2>1, <2>3, <3>1, <3>3 DEF ViewOK
  <2> QED
    BY <2>2, <2>3
<1>4. ViewsOK'
  BY <1>3 DEF BrowserInv, ViewsOK
<1>5. Browser!FramesCurrent'
  BY DEF BrowserInv, Browser!FramesCurrent
<1> QED
  BY <1>1, <1>2, <1>4, <1>5 DEF BrowserInv

LEMMA ChromeStep ==
  ASSUME BrowserInv, NEW b \in Launches,
         Browser!Answer(b) \/ Browser!Emit(b) \/ Browser!TurnPage(b) \/ Browser!Crash(b)
  PROVE  BrowserInv'
<1>1. /\ BrowserOK(b) /\ DOMAIN chrome = Launches /\ DOMAIN nextId = Launches
      /\ DOMAIN pending = Launches /\ DOMAIN socket = Launches /\ DOMAIN filed = Launches
  BY DEF BrowserInv, BrowsersOK
<1>2. /\ NumbersOK(chrome[b], nextId[b], pending[b], socket[b])
      /\ EventsOK(socket[b], filed[b], chrome[b].events, chrome[b].at = "up")
      /\ chrome[b] \in Chromes /\ socket[b] \in Seq(Messages)
  BY <1>1 DEF BrowserOK, NumbersOK
<1>3. /\ chrome[b].at = "up" /\ UNCHANGED <<sessions, viewing, mutex, frames, nextId, filed>>
  BY DEF Browser!Answer, Browser!Emit, Browser!TurnPage, Browser!Crash
<1>4. chrome[b].page \in Nat /\ chrome[b].events \in Nat /\ chrome[b].dir \in BOOLEAN
  BY <1>2 DEF Chromes
<1>5. ASSUME Browser!Answer(b) PROVE BrowserInv'
  <2>1. PICK id \in pending[b] :
          /\ pending' = [pending EXCEPT ![b] = pending[b] \ {id}]
          /\ socket' = [socket EXCEPT ![b] = Append(socket[b], [id |-> id, page |-> chrome[b].page])]
          /\ UNCHANGED chrome
    BY <1>5 DEF Browser!Answer
  <2>2. PICK m \in Messages : m = [id |-> id, page |-> chrome[b].page]
    BY <1>2, <1>4 DEF NumbersOK, Messages
  <2>3. m.id # 0 /\ m.id < nextId[b] /\ m.page = chrome[b].page
    BY <2>2, <1>2 DEF NumbersOK
  <2>4. OnlyAt(b) /\ socket'[b] = Append(socket[b], m) /\ pending'[b] = pending[b] \ {id}
    BY <2>1, <2>2, <1>1, <1>3 DEF OnlyAt
  <2>5. chrome[b].page <= chrome[b].page
    BY <1>4
  <2>6. /\ NumbersOK(chrome[b], nextId[b], pending[b] \ {id}, Append(socket[b], m))
        /\ \A k \in 1..Len(Append(socket[b], m)) :
              \/ k \in 1..Len(socket[b]) /\ Append(socket[b], m)[k] = socket[b][k]
              \/ Append(socket[b], m)[k] = m
    BY <2>3, <2>5, <1>2, NumbersSent
  <2>7. EventsOK(Append(socket[b], m), filed[b], chrome[b].events, chrome[b].at = "up")
    BY <2>3, <1>2, <1>3, AnswerSent
  <2>8. BrowserOK(b)'
    BY <2>1, <2>4, <2>6, <2>7, <1>3 DEF BrowserOK
  <2>9. \A k \in 1..Len(socket'[b]) : \/ \E i \in 1..Len(socket[b]) : socket'[b][k] = socket[b][i]
                                      \/ socket'[b][k].page = chrome[b].page
    BY <2>3, <2>4, <2>6
  <2> QED
    BY <2>1, <2>4, <2>5, <2>8, <2>9, <1>3, ChromeMoves
<1>6. ASSUME Browser!Emit(b) PROVE BrowserInv'
  <2>1. /\ chrome' = [chrome EXCEPT ![b] = [chrome[b] EXCEPT !.events = chrome[b].events + 1]]
        /\ socket' = [socket EXCEPT ![b] = Append(socket[b], [id |-> 0, page |-> chrome[b].events + 1])]
        /\ UNCHANGED pending
    BY <1>6 DEF Browser!Emit
  <2>2. PICK m \in Messages : m = [id |-> 0, page |-> chrome[b].events + 1]
    <3>1. PICK n \in Nat : n = chrome[b].events + 1
      BY <1>4
    <3> QED
      BY <3>1, <1>2, ChromeFields
  <2>3. PICK y \in Chromes : y = [chrome[b] EXCEPT !.events = chrome[b].events + 1]
    <3>1. PICK n \in Nat : n = chrome[b].events + 1
      BY <1>4
    <3> QED
      BY <3>1, <1>2, ChromeFields
  <2>4. y.at = "up" /\ y.page = chrome[b].page /\ y.events = chrome[b].events + 1
    BY <2>3, <1>2, <1>3 DEF Chromes
  <2>5. OnlyAt(b) /\ socket'[b] = Append(socket[b], m) /\ chrome'[b] = y
    BY <2>1, <2>2, <2>3, <1>1, <1>3 DEF OnlyAt
  <2>6. m.id = 0 /\ m.id < nextId[b]
    BY <2>2, <1>2 DEF NumbersOK
  <2>7. /\ NumbersOK(chrome[b], nextId[b], pending[b], Append(socket[b], m))
        /\ \A k \in 1..Len(Append(socket[b], m)) :
              \/ k \in 1..Len(socket[b]) /\ Append(socket[b], m)[k] = socket[b][k]
              \/ Append(socket[b], m)[k] = m
    BY <2>6, <1>2, NumbersSent
  <2>8. chrome[b].page <= y.page
    BY <2>4, <1>4
  <2>9. NumbersOK(y, nextId[b], pending[b], Append(socket[b], m))
    BY <2>7, <2>8, NumbersMove
  <2>10. EventsOK(Append(socket[b], m), filed[b], chrome[b].events + 1, chrome[b].at = "up")
    BY <2>2, <1>2, <1>3, EventSent
  <2>11. BrowserOK(b)'
    BY <2>1, <2>4, <2>5, <2>9, <2>10, <1>3 DEF BrowserOK
  <2>12. \A k \in 1..Len(socket'[b]) : \/ \E i \in 1..Len(socket[b]) : socket'[b][k] = socket[b][i]
                                       \/ socket'[b][k].id = 0
    BY <2>5, <2>6, <2>7
  <2> QED
    BY <2>4, <2>5, <2>8, <2>11, <2>12, <1>3, ChromeMoves
<1>7. ASSUME Browser!TurnPage(b) PROVE BrowserInv'
  <2>1. /\ chrome' = [chrome EXCEPT ![b] = [chrome[b] EXCEPT !.page = chrome[b].page + 1]]
        /\ UNCHANGED <<pending, socket>>
    BY <1>7 DEF Browser!TurnPage
  <2>2. PICK y \in Chromes : y = [chrome[b] EXCEPT !.page = chrome[b].page + 1]
    <3>1. PICK n \in Nat : n = chrome[b].page + 1
      BY <1>4
    <3> QED
      BY <3>1, <1>2, ChromeFields
  <2>3. y.at = "up" /\ y.page = chrome[b].page + 1 /\ y.events = chrome[b].events
    BY <2>2, <1>2, <1>3 DEF Chromes
  <2>4. OnlyAt(b) /\ chrome'[b] = y
    BY <2>1, <2>2, <1>1, <1>3 DEF OnlyAt
  <2>5. chrome[b].page <= y.page
    BY <2>3, <1>4
  <2>6. NumbersOK(y, nextId[b], pending[b], socket[b])
    BY <2>5, <1>2, NumbersMove
  <2>7. BrowserOK(b)'
    BY <2>1, <2>3, <2>4, <2>6, <1>2, <1>3 DEF BrowserOK
  <2> QED
    BY <2>1, <2>3, <2>4, <2>5, <2>7, <1>3, ChromeMoves
<1>8. ASSUME Browser!Crash(b) PROVE BrowserInv'
  <2>1. /\ chrome' = [chrome EXCEPT ![b] = [chrome[b] EXCEPT !.at = "dead"]]
        /\ UNCHANGED <<pending, socket>>
    BY <1>8 DEF Browser!Crash
  <2>2. PICK y \in Chromes : y = [chrome[b] EXCEPT !.at = "dead"]
    BY <1>2 DEF Chromes
  <2>3. y.at = "dead" /\ y.page = chrome[b].page /\ y.events = chrome[b].events
    BY <2>2, <1>2 DEF Chromes
  <2>4. OnlyAt(b) /\ chrome'[b] = y
    BY <2>1, <2>2, <1>1, <1>3 DEF OnlyAt
  <2>5. chrome[b].page <= y.page
    BY <2>3, <1>4
  <2>6. NumbersOK(y, nextId[b], pending[b], socket[b])
    BY <2>5, <1>2, NumbersMove
  <2>7. EventsOK(socket[b], filed[b], chrome[b].events, y.at = "up")
    BY <2>3, <1>2, EventsDropped
  <2>8. BrowserOK(b)'
    BY <2>1, <2>3, <2>4, <2>6, <2>7, <1>3 DEF BrowserOK
  <2> QED
    BY <2>1, <2>3, <2>4, <2>5, <2>8, <1>3, ChromeMoves
<1> QED
  BY <1>5, <1>6, <1>7, <1>8

-----------------------------------------------------------------------------
\* How a call moves on.
LEMMA ViewEntered ==
  ASSUME NEW v \in Views
  PROVE  /\ [v EXCEPT !.at = "view", !.set = ""] \in Views
         /\ [v EXCEPT !.at = "view", !.set = ""].at = "view"
         /\ [v EXCEPT !.at = "view", !.set = ""].task = v.task
         /\ [v EXCEPT !.at = "launch"] \in Views /\ [v EXCEPT !.at = "launch"].at = "launch"
         /\ [v EXCEPT !.at = "launch"].task = v.task
         /\ [v EXCEPT !.at = "launch", !.again = TRUE] \in Views
         /\ [v EXCEPT !.at = "launch", !.again = TRUE].at = "launch"
         /\ [v EXCEPT !.at = "launch", !.again = TRUE].task = v.task
<1>1. /\ [v EXCEPT !.at = "view", !.set = ""] \in Views
      /\ [v EXCEPT !.at = "view", !.set = ""].at = "view"
      /\ [v EXCEPT !.at = "view", !.set = ""].task = v.task
  BY DEF Views
<1>2. /\ [v EXCEPT !.at = "launch"] \in Views /\ [v EXCEPT !.at = "launch"].at = "launch"
      /\ [v EXCEPT !.at = "launch"].task = v.task
  BY DEF Views
<1>3. /\ [v EXCEPT !.at = "launch", !.again = TRUE] \in Views
      /\ [v EXCEPT !.at = "launch", !.again = TRUE].at = "launch"
      /\ [v EXCEPT !.at = "launch", !.again = TRUE].task = v.task
  BY DEF Views
<1> QED
  BY <1>1, <1>2, <1>3

LEMMA ViewAsks ==
  ASSUME NEW v \in Views, NEW b \in Nat, NEW n \in Nat, NEW p \in Nat, NEW w,
         w = [v EXCEPT !.at = "snapshot", !.b = b, !.id = n, !.from = p]
  PROVE  w \in Views /\ w.at = "snapshot" /\ w.task = v.task /\ w.b = b /\ w.id = n /\ w.from = p
<1>1. w \in Views
  BY DEF Views
<1> QED
  BY <1>1 DEF Views

LEMMA ViewShoots ==
  ASSUME NEW v \in Views, NEW n \in Nat, NEW p \in Nat, NEW w,
         w = [v EXCEPT !.at = "capture", !.id = n, !.page = p]
  PROVE  /\ w \in Views /\ w.at = "capture" /\ w.task = v.task /\ w.b = v.b /\ w.id = n
         /\ w.from = v.from /\ w.page = p
<1>1. w \in Views
  BY DEF Views
<1> QED
  BY <1>1 DEF Views

\* A call comes: the one who is inside goes on.
LEMMA AskStep ==
  ASSUME BrowserInv, NEW c \in Callers, NEW t \in Tasks, NEW set \in {"", "user", "agent"},
         Browser!Ask(c, t, set)
  PROVE  BrowserInv'
<1> DEFINE w == [Browser!NoCall EXCEPT !.at = IF set = "" THEN "view" ELSE "set", !.task = t, !.set = set]
<1>1. /\ UNCHANGED <<sessions, chrome, pending, socket, nextId, filed, mutex, frames>>
      /\ viewing[c].at = "none" /\ viewing' = [viewing EXCEPT ![c] = w]
  BY DEF Browser!Ask
<1>2. w \in Views /\ w.at \in {"view", "set"} /\ w.task = t
  BY DEF Views, Browser!NoCall
<1> HIDE DEF w
<1>3. DOMAIN viewing' = Callers /\ viewing'[c] = w /\ \A d \in Callers \ {c} : viewing'[d] = viewing[d]
  BY <1>1 DEF BrowserInv, ViewsOK
<1>4. ViewOK(c)'
  BY <1>2, <1>3 DEF ViewOK, Inside, Awaiting
<1>5. ASSUME NEW d \in Callers \ {c} PROVE ViewOK(d)'
  BY <1>1, <1>3, <1>5 DEF BrowserInv, ViewsOK, ViewOK
<1>6. ViewsOK'
  BY <1>3, <1>4, <1>5 DEF ViewsOK
<1>7. BrowsersOK' /\ SessionsOK' /\ Browser!FramesCurrent'
  BY <1>1 DEF BrowserInv, BrowsersOK, BrowserOK, SessionsOK, Browser!OneBrowserPerTask, Browser!FramesCurrent
<1> QED
  BY <1>6, <1>7 DEF BrowserInv

\* The mutex is taken, or a lease set under it, and nothing of the browsers changes.
LEMMA EnterStep ==
  ASSUME BrowserInv, BrowserAssumptions, NEW c \in Callers, Browser!SetLease(c) \/ Browser!EnterLaunch(c)
  PROVE  BrowserInv'
<1>1. /\ UNCHANGED <<sessions, chrome, pending, socket, nextId, filed, frames>>
      /\ mutex = "free" /\ viewing[c].at \in {"set", "view"}
      /\ \/ viewing' = [viewing EXCEPT ![c] = [viewing[c] EXCEPT !.at = "view", !.set = ""]]
         \/ /\ viewing' = [viewing EXCEPT ![c] = [viewing[c] EXCEPT !.at = "launch"]]
            /\ mutex' = c /\ sessions[viewing[c].task] = 0
  BY DEF Browser!SetLease, Browser!EnterLaunch
<1>2. ViewOK(c) /\ viewing[c] \in Views /\ DOMAIN viewing = Callers /\ viewing[c].task \in Tasks
  BY <1>1 DEF BrowserInv, ViewsOK, ViewOK
<1>3. /\ DOMAIN viewing' = Callers /\ \A d \in Callers \ {c} : viewing'[d] = viewing[d]
  BY <1>1, <1>2
<1>4. ViewOK(c)'
  <2>1. CASE viewing' = [viewing EXCEPT ![c] = [viewing[c] EXCEPT !.at = "view", !.set = ""]]
    <3>1. viewing'[c] \in Views /\ viewing'[c].at = "view" /\ viewing'[c].task \in Tasks
      BY <2>1, <1>2, ViewEntered
    <3> QED
      BY <3>1 DEF ViewOK, Inside, Awaiting
  <2>2. CASE /\ viewing' = [viewing EXCEPT ![c] = [viewing[c] EXCEPT !.at = "launch"]]
             /\ mutex' = c /\ sessions[viewing[c].task] = 0
    <3>1. viewing'[c] \in Views /\ viewing'[c].at = "launch" /\ viewing'[c].task = viewing[c].task
      BY <2>2, <1>2, ViewEntered
    <3> QED
      BY <3>1, <2>2, <1>1, <1>2 DEF ViewOK, Awaiting
  <2> QED
    BY <1>1, <2>1, <2>2
<1>5. ViewsOK'
  BY <1>1, <1>3, <1>4, OthersOutside DEF BrowserInv
<1>6. BrowsersOK' /\ SessionsOK' /\ Browser!FramesCurrent'
  BY <1>1 DEF BrowserInv, BrowsersOK, BrowserOK, SessionsOK, Browser!OneBrowserPerTask, Browser!FramesCurrent
<1> QED
  BY <1>5, <1>6 DEF BrowserInv

LEMMA AskedOK ==
  ASSUME NEW b, NEW q, NumbersOK(chrome[b], nextId[b], pending[b], q)
  PROVE  NumbersOK(chrome[b], nextId[b] + 1, Browser!Asked(b), q)
<1>1. PICK x, n, p : x = chrome[b] /\ n = nextId[b] /\ p = pending[b]
  OBVIOUS
<1>2. NumbersOK(x, n, p, q)
  BY <1>1
<1>3. NumbersOK(x, n + 1, p, q) /\ NumbersOK(x, n + 1, p \cup {n}, q)
  BY <1>2, NumbersMove
<1>4. Browser!Asked(b) = p \cup {n} \/ Browser!Asked(b) = p
  BY <1>1 DEF Browser!Asked
<1>5. NumbersOK(x, n + 1, Browser!Asked(b), q)
  <2>1. CASE Browser!Asked(b) = p \cup {n}
    BY <2>1, <1>3
  <2>2. CASE Browser!Asked(b) = p
    BY <2>2, <1>3
  <2> QED
    BY <1>4, <2>1, <2>2
<1> QED
  BY <1>1, <1>5

\* No message has the number of the command just sent.
LEMMA AnswerAwaited ==
  ASSUME NEW w \in Views, NEW x, NEW n, NEW p, NEW q, NumbersOK(x, n, p, q), w.id = n,
         w.from <= x.page, w.at = "capture" => w.from <= w.page /\ w.page <= x.page
  PROVE  AnswerOK(w, x, n + 1, q)
<1>1. n \in Nat /\ n > 0
  BY DEF NumbersOK
<1>2. \A k \in 1..Len(q) : q[k].id < n /\ q[k].id \in Nat
  BY MessagesAre DEF NumbersOK
<1>3. \A k \in 1..Len(q) : q[k].id # w.id
  BY <1>1, <1>2
<1>4. 0 < w.id /\ w.id < n + 1
  BY <1>1
<1> QED
  BY <1>3, <1>4 DEF AnswerOK

\* A command goes to the browser of the task.
LEMMA EnterViewStep ==
  ASSUME BrowserInv, BrowserAssumptions, NEW c \in Callers, Browser!EnterView(c)
  PROVE  BrowserInv'
<1>1. PICK b : b = sessions[viewing[c].task]
  OBVIOUS
<1>2. /\ mutex = "free" /\ viewing[c].at = "view" /\ b # 0 /\ mutex' = c
      /\ nextId' = [nextId EXCEPT ![b] = nextId[b] + 1]
      /\ pending' = [pending EXCEPT ![b] = Browser!Asked(b)]
      /\ viewing' = [viewing EXCEPT ![c] = [viewing[c] EXCEPT !.at = "snapshot", !.b = b, !.id = nextId[b],
                                                              !.from = chrome[b].page]]
      /\ UNCHANGED <<sessions, chrome, socket, filed, frames>>
  BY <1>1 DEF Browser!EnterView
<1>3. viewing[c] \in Views /\ DOMAIN viewing = Callers /\ viewing[c].task \in Tasks
  BY <1>2 DEF BrowserInv, ViewsOK, ViewOK
<1>4. b \in Launches /\ chrome[b].at # "unused"
  BY <1>1, <1>2, <1>3 DEF BrowserInv, SessionsOK
<1>5. BrowserOK(b) /\ OnlyAt(b) /\ nextId'[b] = nextId[b] + 1 /\ pending'[b] = Browser!Asked(b)
  BY <1>2, <1>4 DEF BrowserInv, BrowsersOK, OnlyAt
<1>6. NumbersOK(chrome[b], nextId[b], pending[b], socket[b])
  BY <1>5 DEF BrowserOK
<1>7. NumbersOK(chrome[b], nextId[b] + 1, Browser!Asked(b), socket[b])
  BY <1>6, AskedOK
<1>8. BrowserOK(b)'
  BY <1>2, <1>5, <1>7 DEF BrowserOK
<1>9. BrowsersOK'
  BY <1>4, <1>5, <1>8, OneMoves DEF BrowserInv
<1>10. PICK n \in Nat, p \in Nat : n = nextId[b] /\ p = chrome[b].page /\ n > 0
  BY <1>6 DEF NumbersOK, Chromes
<1>11. PICK v \in Views : v = viewing[c]
  BY <1>3
<1>12. PICK w : w = [v EXCEPT !.at = "snapshot", !.b = b, !.id = n, !.from = p]
  OBVIOUS
<1>13. w \in Views /\ w.at = "snapshot" /\ w.task = v.task /\ w.b = b /\ w.id = n /\ w.from = p
  <2>1. b \in Nat
    BY <1>4 DEF Launches, BrowserAssumptions
  <2>2. w \in Views
    BY <1>10, <1>11, <1>12, <2>1 DEF Views
  <2>3. w.at = "snapshot" /\ w.task = v.task
    BY <1>10, <1>11, <1>12 DEF Views
  <2>4. w.b = b
    BY <1>10, <1>11, <1>12 DEF Views
  <2>5. w.id = n /\ w.from = p
    BY <1>10, <1>11, <1>12 DEF Views
  <2> QED
    BY <2>2, <2>3, <2>4, <2>5
<1>14. DOMAIN viewing' = Callers /\ viewing'[c] = w /\ \A d \in Callers \ {c} : viewing'[d] = viewing[d]
  BY <1>2, <1>3, <1>10, <1>11, <1>12
<1>15. AnswerOK(w, chrome[b], n + 1, socket[b])
  <2>1. w.from <= chrome[b].page
    BY <1>10, <1>13
  <2>2. PICK x, s, q : x = chrome[b] /\ s = pending[b] /\ q = socket[b]
    OBVIOUS
  <2>3. NumbersOK(x, n, s, q) /\ w.from <= x.page
    BY <2>1, <2>2, <1>6, <1>10
  <2>4. AnswerOK(w, x, n + 1, q)
    BY <2>3, <1>13, AnswerAwaited
  <2> QED
    BY <2>2, <2>4
<1>16. ViewOK(c)'
  BY <1>1, <1>2, <1>3, <1>4, <1>5, <1>10, <1>11, <1>13, <1>14, <1>15 DEF ViewOK
<1>17. ViewsOK'
  BY <1>2, <1>14, <1>16, OthersOutside DEF BrowserInv
<1>18. SessionsOK' /\ Browser!FramesCurrent'
  BY <1>2 DEF BrowserInv, SessionsOK, Browser!OneBrowserPerTask, Browser!FramesCurrent
<1> QED
  BY <1>9, <1>17, <1>18 DEF BrowserInv

\* A browser never used becomes the session of a task that has none.
LEMMA SessionOpened ==
  ASSUME SessionsOK, BrowserAssumptions, NEW t \in Tasks, sessions[t] = 0, NEW b \in Launches,
         chrome[b].at = "unused", sessions' = [sessions EXCEPT ![t] = b], chrome'[b].at = "up",
         \A a \in Launches \ {b} : chrome'[a] = chrome[a]
  PROVE  SessionsOK'
<1>1. /\ DOMAIN sessions' = Tasks /\ sessions'[t] = b /\ b # 0
      /\ \A s \in Tasks \ {t} : sessions'[s] = sessions[s]
  BY DEF SessionsOK, Launches, BrowserAssumptions
<1>2. \A s \in Tasks : sessions[s] # b
  BY <1>1 DEF SessionsOK
<1>3. ASSUME NEW s \in Tasks, sessions'[s] # 0
      PROVE  sessions'[s] \in Launches /\ chrome'[sessions'[s]].at # "unused"
  <2>1. CASE s = t
    BY <2>1, <1>1
  <2>2. CASE s # t
    BY <2>2, <1>1, <1>2, <1>3 DEF SessionsOK
  <2> QED
    BY <2>1, <2>2
<1>4. ASSUME NEW a \in Launches, chrome'[a].at = "up" PROVE \E s \in Tasks : sessions'[s] = a
  <2>1. CASE a = b
    BY <2>1, <1>1
  <2>2. CASE a # b
    <3>1. PICK s \in Tasks : sessions[s] = a
      BY <2>2, <1>4 DEF SessionsOK, Browser!OneBrowserPerTask, Browser!Ids, Launches
    <3>2. a # 0
      BY DEF Launches, BrowserAssumptions
    <3> QED
      BY <3>1, <3>2, <1>1
  <2> QED
    BY <2>1, <2>2
<1>5. ASSUME NEW r \in Tasks, NEW s \in Tasks, sessions'[r] = sessions'[s], sessions'[r] # 0
      PROVE  r = s
  BY <1>1, <1>2, <1>5 DEF SessionsOK, Browser!OneBrowserPerTask
<1>6. Browser!OneBrowserPerTask'
  BY <1>4, <1>5 DEF Browser!OneBrowserPerTask, Browser!Ids, Launches
<1> QED
  BY <1>1, <1>3, <1>6 DEF SessionsOK

LEMMA LaunchedStep ==
  ASSUME BrowserInv, BrowserAssumptions, NEW c \in Callers, Browser!Launched(c)
  PROVE  BrowserInv'
<1>1. PICK x : x = [at |-> "up", page |-> 1, dir |-> TRUE, events |-> 0]
  OBVIOUS
<1>2. x \in Chromes /\ x.at = "up" /\ x.page = 1 /\ x.events = 0
  BY <1>1 DEF Chromes
<1>3. PICK b \in Browser!Fresh :
        /\ mutex = c /\ viewing[c].at = "launch"
        /\ chrome' = [chrome EXCEPT ![b] = x]
        /\ sessions' = [sessions EXCEPT ![viewing[c].task] = b]
        /\ \/ /\ mutex' = "free" /\ UNCHANGED <<nextId, pending>>
              /\ viewing' = [viewing EXCEPT ![c] = [viewing[c] EXCEPT !.at = "view", !.set = ""]]
           \/ /\ mutex' = mutex /\ nextId' = [nextId EXCEPT ![b] = nextId[b] + 1]
              /\ pending' = [pending EXCEPT ![b] = {nextId[b]}]
              /\ viewing' = [viewing EXCEPT ![c] = [viewing[c] EXCEPT !.at = "snapshot", !.b = b,
                                                                      !.id = nextId[b], !.from = 1]]
        /\ UNCHANGED <<socket, filed, frames>>
  BY <1>1 DEF Browser!Launched
<1>4. b \in Launches /\ chrome[b].at = "unused" /\ b \in Nat
  BY <1>3 DEF Browser!Fresh, Browser!Ids, Launches, BrowserAssumptions
<1>5. /\ BrowserOK(b) /\ DOMAIN chrome = Launches /\ DOMAIN nextId = Launches
      /\ DOMAIN pending = Launches /\ DOMAIN socket = Launches /\ DOMAIN filed = Launches
  BY <1>4 DEF BrowserInv, BrowsersOK
<1>6. /\ NumbersOK(chrome[b], nextId[b], pending[b], <<>>) /\ chrome[b].page = 0
      /\ socket[b] = <<>> /\ filed[b] = <<>>
  BY <1>4, <1>5 DEF BrowserOK
<1>7. viewing[c] \in Views /\ DOMAIN viewing = Callers /\ viewing[c].task \in Tasks /\ sessions[viewing[c].task] = 0
  BY <1>3 DEF BrowserInv, ViewsOK, ViewOK
<1>8. PICK n \in Nat : n = nextId[b] /\ n > 0
  BY <1>6 DEF NumbersOK
<1>9. OnlyAt(b) /\ chrome'[b] = x
  BY <1>3, <1>4, <1>5 DEF OnlyAt
<1>10. NumbersOK(x, n, pending[b], <<>>) /\ NumbersOK(x, n, {}, <<>>) /\ NumbersOK(x, n + 1, {n}, <<>>)
  <2>1. PICK y, p : y = chrome[b] /\ p = pending[b]
    OBVIOUS
  <2>2. NumbersOK(y, n, p, <<>>) /\ y.page <= x.page
    BY <2>1, <1>2, <1>6, <1>8
  <2>3. NumbersOK(x, n, p, <<>>)
    BY <2>2, <1>2, NumbersMove
  <2>4. NumbersOK(x, n, {}, <<>>)
    BY <2>3, NumbersMove
  <2>5. NumbersOK(x, n + 1, {} \cup {n}, <<>>)
    BY <2>4, NumbersMove
  <2>6. {} \cup {n} = {n}
    OBVIOUS
  <2> QED
    BY <2>1, <2>3, <2>4, <2>5, <2>6
<1>11. NumbersOK(x, nextId'[b], pending'[b], <<>>)
  <2>1. (nextId'[b] = n /\ pending'[b] = pending[b]) \/ (nextId'[b] = n + 1 /\ pending'[b] = {n})
    BY <1>3, <1>4, <1>5, <1>8
  <2> QED
    BY <2>1, <1>10
<1>12. BrowserOK(b)'
  <2>1. EventsOK(<<>>, <<>>, 0, x.at = "up")
    BY EventsNone
  <2> QED
    BY <2>1, <1>2, <1>3, <1>6, <1>9, <1>11 DEF BrowserOK
<1>13. BrowsersOK'
  BY <1>4, <1>9, <1>12, OneMoves DEF BrowserInv
<1>14. SessionsOK'
  <2>1. PICK t \in Tasks : t = viewing[c].task
    BY <1>7
  <2>2. \A a \in Launches \ {b} : chrome'[a] = chrome[a]
    BY <1>9 DEF OnlyAt
  <2>3. SessionsOK /\ sessions[t] = 0 /\ sessions' = [sessions EXCEPT ![t] = b] /\ chrome'[b].at = "up"
    BY <2>1, <1>2, <1>3, <1>7, <1>9 DEF BrowserInv
  <2> QED
    BY <2>1, <2>2, <2>3, <1>4, SessionOpened
<1>15. DOMAIN viewing' = Callers /\ \A d \in Callers \ {c} : viewing'[d] = viewing[d]
  BY <1>3, <1>7
<1>16. PICK v \in Views : v = viewing[c]
  BY <1>7
<1>17. ViewOK(c)'
  <2>1. CASE viewing' = [viewing EXCEPT ![c] = [viewing[c] EXCEPT !.at = "view", !.set = ""]]
    <3>1. viewing'[c] \in Views /\ viewing'[c].at = "view" /\ viewing'[c].task \in Tasks
      BY <2>1, <1>7, ViewEntered
    <3> QED
      BY <3>1 DEF ViewOK, Inside, Awaiting
  <2>2. CASE /\ mutex' = mutex /\ nextId' = [nextId EXCEPT ![b] = nextId[b] + 1]
             /\ viewing' = [viewing EXCEPT ![c] = [viewing[c] EXCEPT !.at = "snapshot", !.b = b,
                                                                     !.id = nextId[b], !.from = 1]]
    <3>1. PICK w : w = [v EXCEPT !.at = "snapshot", !.b = b, !.id = n, !.from = 1]
      OBVIOUS
    <3>2. w \in Views /\ w.b = b
      BY <3>1, <1>4, <1>8, <1>16 DEF Views
    <3>3. w.at = "snapshot" /\ w.task = v.task
      BY <3>1, <1>4, <1>8, <1>16 DEF Views
    <3>4. w.id = n /\ w.from = 1
      BY <3>1, <1>4, <1>8, <1>16 DEF Views
    <3>5. viewing'[c] = w /\ nextId'[b] = n + 1
      BY <2>2, <3>1, <1>4, <1>5, <1>7, <1>8, <1>16
    <3>6. AnswerOK(w, x, n + 1, <<>>)
      <4>1. w.from <= x.page /\ w.at # "capture"
        BY <3>3, <3>4, <1>2
      <4> QED
        BY <4>1, <3>2, <3>4, <1>10, AnswerAwaited
    <3>7. sessions'[v.task] = b /\ v.task \in Tasks
      BY <1>3, <1>7, <1>16 DEF BrowserInv, SessionsOK
    <3>8. socket'[b] = <<>> /\ chrome'[b] = x /\ mutex' = c
      BY <2>2, <1>3, <1>6, <1>9
    <3> QED
      BY <3>2, <3>3, <3>5, <3>6, <3>7, <3>8, <1>4 DEF ViewOK
  <2> QED
    BY <1>3, <2>1, <2>2
<1>18. ViewsOK'
  BY <1>3, <1>15, <1>17, OthersOutside DEF BrowserInv
<1>19. Browser!FramesCurrent'
  BY <1>3 DEF BrowserInv, Browser!FramesCurrent
<1> QED
  BY <1>13, <1>14, <1>18, <1>19 DEF BrowserInv

\* What is left of a launch that fails is no session.
LEMMA LaunchFailsStep ==
  ASSUME BrowserInv, BrowserAssumptions, NEW c \in Callers, NEW how \in {"binary", "port", "connect", "attach"},
         Browser!LaunchFails(c, how)
  PROVE  BrowserInv'
<1>1. PICK b \in Browser!Fresh :
        /\ mutex = c /\ mutex' = "free" /\ viewing' = [viewing EXCEPT ![c] = Browser!NoCall]
        /\ \/ chrome' = chrome
           \/ chrome' = [chrome EXCEPT ![b] = [chrome[b] EXCEPT !.at = "dead", !.dir = TRUE]]
           \/ chrome' = [chrome EXCEPT ![b] = [chrome[b] EXCEPT !.at = "leaked", !.dir = TRUE]]
           \/ chrome' = [chrome EXCEPT ![b] = [chrome[b] EXCEPT !.at = "dead"]]
        /\ UNCHANGED <<sessions, pending, socket, nextId, filed, frames>>
  BY DEF Browser!LaunchFails
<1>2. b \in Launches /\ chrome[b].at = "unused"
  BY <1>1 DEF Browser!Fresh, Browser!Ids, Launches
<1>3. /\ BrowserOK(b) /\ DOMAIN chrome = Launches /\ DOMAIN nextId = Launches
      /\ DOMAIN pending = Launches /\ DOMAIN socket = Launches /\ DOMAIN filed = Launches
  BY <1>2 DEF BrowserInv, BrowsersOK
<1>4. PICK x \in Chromes : x = chrome[b]
  BY <1>3 DEF BrowserOK, NumbersOK
<1>5. PICK y : y = chrome'[b]
  OBVIOUS
<1>6. \/ y = x \/ y = [x EXCEPT !.at = "dead", !.dir = TRUE]
      \/ y = [x EXCEPT !.at = "leaked", !.dir = TRUE] \/ y = [x EXCEPT !.at = "dead"]
  BY <1>1, <1>2, <1>3, <1>4, <1>5
<1>7. y \in Chromes /\ y.page = x.page /\ y.events = x.events /\ (y.at = "unused" => y = x) /\ y.at # "up"
  <2>1. x.at = "unused"
    BY <1>2, <1>4
  <2>2. CASE y = x
    BY <2>1, <2>2
  <2>3. CASE y = [x EXCEPT !.at = "dead", !.dir = TRUE]
    BY <2>3 DEF Chromes
  <2>4. CASE y = [x EXCEPT !.at = "leaked", !.dir = TRUE]
    BY <2>4 DEF Chromes
  <2>5. CASE y = [x EXCEPT !.at = "dead"]
    BY <2>5 DEF Chromes
  <2> QED
    BY <1>6, <2>2, <2>3, <2>4, <2>5
<1>8. OnlyAt(b)
  BY <1>1, <1>2, <1>3 DEF OnlyAt
<1>9. BrowserOK(b)'
  <2>1. /\ NumbersOK(x, nextId[b], pending[b], socket[b])
        /\ EventsOK(socket[b], filed[b], x.events, x.at = "up")
    BY <1>3, <1>4 DEF BrowserOK
  <2>2. x.page <= y.page
    BY <1>7, <1>4 DEF Chromes
  <2>3. NumbersOK(y, nextId[b], pending[b], socket[b])
    BY <2>1, <2>2, <1>7, NumbersMove
  <2>4. EventsOK(socket[b], filed[b], x.events, y.at = "up")
    BY <2>1, <1>7, EventsDropped
  <2> QED
    BY <2>3, <2>4, <1>1, <1>2, <1>3, <1>4, <1>5, <1>7 DEF BrowserOK
<1>10. BrowsersOK'
  BY <1>2, <1>8, <1>9, OneMoves DEF BrowserInv
<1>11. SessionsOK'
  <2>1. \A a \in Launches : /\ chrome'[a].at = "up" => chrome[a].at = "up"
                            /\ chrome'[a].at = "unused" => chrome[a].at = "unused"
    BY <1>2, <1>5, <1>7, <1>8 DEF OnlyAt
  <2> QED
    BY <2>1, <1>1, SessionsKept DEF BrowserInv
<1>12. DOMAIN viewing' = Callers /\ viewing'[c] = Browser!NoCall /\ \A d \in Callers \ {c} : viewing'[d] = viewing[d]
  BY <1>1 DEF BrowserInv, ViewsOK
<1>13. ViewOK(c)'
  <2>1. Browser!NoCall \in Views /\ Browser!NoCall.at = "none"
    BY DEF Browser!NoCall, Views
  <2> QED
    BY <2>1, <1>12 DEF ViewOK, Inside, Awaiting
<1>14. ViewsOK'
  BY <1>1, <1>12, <1>13, OthersOutside DEF BrowserInv
<1>15. Browser!FramesCurrent'
  BY <1>1 DEF BrowserInv, Browser!FramesCurrent
<1> QED
  BY <1>10, <1>11, <1>14, <1>15 DEF BrowserInv

-----------------------------------------------------------------------------
\* The caller that waits, and the browser it waits for.
LEMMA WaiterIs ==
  ASSUME BrowserInv, NEW c \in Callers, Browser!Waiting(c)
  PROVE  /\ mutex = c /\ viewing[c] \in Views /\ DOMAIN viewing = Callers /\ viewing[c].task \in Tasks
         /\ viewing[c].at \in Awaiting /\ viewing[c].b \in Launches
         /\ sessions[viewing[c].task] = viewing[c].b
         /\ AnswerOK(viewing[c], chrome[viewing[c].b], nextId[viewing[c].b], socket[viewing[c].b])
         /\ BrowserOK(viewing[c].b)
<1>1. mutex = c /\ viewing[c].at \in Awaiting /\ viewing[c].at # "none"
  BY DEF Browser!Waiting, Awaiting
<1>2. ViewOK(c) /\ DOMAIN viewing = Callers
  BY DEF BrowserInv, ViewsOK
<1>3. viewing[c].b \in Launches
  BY <1>1, <1>2 DEF ViewOK
<1> QED
  BY <1>1, <1>2, <1>3 DEF ViewOK, BrowserInv, BrowsersOK

\* The messages that are left when the first is read.
LEMMA RestOfSocket ==
  ASSUME NEW q \in Seq(Messages), q # <<>>
  PROVE  /\ Tail(q) \in Seq(Messages)
         /\ \A k \in 1..Len(Tail(q)) : \E i \in 1..Len(q) : Tail(q)[k] = q[i]
         /\ Head(q) = q[1] /\ 1 \in 1..Len(q)
<1> DEFINE r == Tail(q)
<1>1. r \in Seq(Messages) /\ IsTail(q, r) /\ Head(q) = q[1] /\ 1 \in 1..Len(q)
  BY TailIs
<1> HIDE DEF r
<1>2. \A k \in 1..Len(r) : k + 1 \in 1..Len(q) /\ r[k] = q[k + 1]
  BY <1>1 DEF IsTail
<1>3. \A k \in 1..Len(r) : \E i \in 1..Len(q) : r[k] = q[i]
  BY <1>2
<1> QED
  BY <1>1, <1>3 DEF r

\* A message that is not the answer goes to the buffers, or nowhere.
LEMMA FileStep ==
  ASSUME BrowserInv, BrowserAssumptions, NEW c \in Callers, Browser!File(c)
  PROVE  BrowserInv'
<1>1. PICK b : b = viewing[c].b
  OBVIOUS
<1>2. /\ Browser!Waiting(c) /\ socket[b] # <<>> /\ socket' = [socket EXCEPT ![b] = Tail(socket[b])]
      /\ \/ Head(socket[b]).id = 0 /\ filed' = [filed EXCEPT ![b] = Append(filed[b], Head(socket[b]).page)]
         \/ Head(socket[b]).id # 0 /\ filed' = filed
      /\ UNCHANGED <<sessions, chrome, pending, nextId, viewing, mutex, frames>>
  BY <1>1 DEF Browser!File
<1>3. /\ mutex = c /\ viewing[c] \in Views /\ DOMAIN viewing = Callers /\ viewing[c].task \in Tasks
      /\ viewing[c].at \in Awaiting /\ b \in Launches /\ sessions[viewing[c].task] = b
      /\ AnswerOK(viewing[c], chrome[b], nextId[b], socket[b]) /\ BrowserOK(b)
  BY <1>1, <1>2, WaiterIs
<1>4. /\ DOMAIN chrome = Launches /\ DOMAIN nextId = Launches
      /\ DOMAIN pending = Launches /\ DOMAIN socket = Launches /\ DOMAIN filed = Launches
  BY DEF BrowserInv, BrowsersOK
<1>5. PICK q, f, e, x, n, p : /\ q = socket[b] /\ f = filed[b] /\ e = chrome[b].events /\ x = chrome[b]
                              /\ n = nextId[b] /\ p = pending[b]
  OBVIOUS
<1>6. NumbersOK(x, n, p, q) /\ EventsOK(q, f, e, x.at = "up") /\ q # <<>> /\ q \in Seq(Messages)
  BY <1>2, <1>3, <1>5 DEF BrowserOK, NumbersOK
<1>7. OnlyAt(b) /\ socket'[b] = Tail(q)
  BY <1>2, <1>3, <1>4, <1>5 DEF OnlyAt
<1>8. NumbersOK(x, n, p, Tail(q))
  BY <1>6, NumbersTail
<1>9. EventsOK(Tail(q), filed'[b], e, x.at = "up")
  <2>1. CASE Head(q).id = 0
    <3>1. filed'[b] = Append(f, Head(q).page)
      BY <2>1, <1>2, <1>3, <1>4, <1>5
    <3> QED
      BY <3>1, <2>1, <1>6, EventFiled
  <2>2. CASE Head(q).id # 0
    <3>1. filed'[b] = f
      BY <2>2, <1>2, <1>5
    <3> QED
      BY <3>1, <2>2, <1>6, AnswerTaken
  <2> QED
    BY <2>1, <2>2
<1>10. chrome[b].at # "unused"
  <2>1. b # 0
    BY <1>3 DEF Launches, BrowserAssumptions
  <2> QED
    BY <2>1, <1>3 DEF BrowserInv, SessionsOK
<1>11. BrowserOK(b)'
  BY <1>2, <1>5, <1>7, <1>8, <1>9, <1>10 DEF BrowserOK
<1>12. BrowsersOK'
  BY <1>3, <1>7, <1>11, OneMoves DEF BrowserInv
<1>13. AnswerOK(viewing[c], x, n, Tail(q))
  <2>1. PICK v \in Views : v = viewing[c]
    BY <1>3
  <2>2. /\ AnswerOK(v, x, n, q) /\ x \in Chromes /\ n \in Nat /\ x.page <= x.page
    BY <2>1, <1>3, <1>5, <1>6 DEF NumbersOK, Chromes
  <2>3. PICK r \in Seq(Messages) : r = Tail(q) /\ \A k \in 1..Len(r) : \E i \in 1..Len(q) : r[k] = q[i]
    BY <1>6, RestOfSocket
  <2>4. AnswerOK(v, x, n, r)
    BY <2>1, <2>2, <2>3, AnswerKept
  <2> QED
    BY <2>1, <2>3, <2>4
<1>14. ViewOK(c)'
  <2>1. AnswerOK(viewing[c], chrome[b], nextId[b], socket'[b])
    BY <1>5, <1>7, <1>13
  <2>2. viewing[c].at # "launch"
    BY <1>3 DEF Awaiting
  <2> QED
    BY <2>1, <2>2, <1>1, <1>2, <1>3 DEF ViewOK
<1>15. ViewsOK'
  BY <1>2, <1>3, <1>14, OthersOutside DEF BrowserInv
<1>16. SessionsOK' /\ Browser!FramesCurrent'
  BY <1>2 DEF BrowserInv, SessionsOK, Browser!OneBrowserPerTask, Browser!FramesCurrent
<1> QED
  BY <1>12, <1>15, <1>16 DEF BrowserInv

\* What the answer of a waiting call shows.
LEMMA AnswerIs ==
  ASSUME NEW v \in Views, NEW x, NEW n, NEW p, NEW q, NumbersOK(x, n, p, q), AnswerOK(v, x, n, q),
         q # <<>>, Head(q).id = v.id
  PROVE  /\ Head(q).id # 0 /\ Head(q).page \in Nat /\ Head(q).page <= x.page
         /\ v.at = "snapshot" => v.from <= Head(q).page
         /\ v.at = "capture" => v.from <= v.page /\ v.page <= Head(q).page
<1>1. q \in Seq(Messages) /\ 0 < v.id /\ v.id \in Nat
  BY DEF NumbersOK, AnswerOK, Views
<1>2. Head(q) = q[1] /\ 1 \in 1..Len(q)
  BY <1>1, RestOfSocket
<1>3. Head(q).id # 0
  BY <1>1
<1>4. Head(q).page \in Nat /\ Head(q).page <= x.page
  BY <1>3, NumbersTail
<1> QED
  BY <1>2, <1>3, <1>4 DEF AnswerOK

\* The snapshot is taken and the screenshot asked for.
LEMMA SnapshotStep ==
  ASSUME BrowserInv, BrowserAssumptions, NEW c \in Callers, Browser!Snapshot(c)
  PROVE  BrowserInv'
<1>1. PICK b : b = viewing[c].b
  OBVIOUS
<1>2. /\ Browser!Waiting(c) /\ viewing[c].at = "snapshot" /\ socket[b] # <<>>
      /\ Head(socket[b]).id = viewing[c].id
      /\ socket' = [socket EXCEPT ![b] = Tail(socket[b])]
      /\ nextId' = [nextId EXCEPT ![b] = nextId[b] + 1]
      /\ pending' = [pending EXCEPT ![b] = Browser!Asked(b)]
      /\ viewing' = [viewing EXCEPT ![c] = [viewing[c] EXCEPT !.at = "capture", !.id = nextId[b],
                                                              !.page = Head(socket[b]).page]]
      /\ UNCHANGED <<sessions, chrome, filed, mutex, frames>>
  BY <1>1 DEF Browser!Snapshot, Browser!Mine
<1>3. /\ mutex = c /\ viewing[c] \in Views /\ DOMAIN viewing = Callers /\ viewing[c].task \in Tasks
      /\ viewing[c].at \in Awaiting /\ b \in Launches /\ sessions[viewing[c].task] = b
      /\ AnswerOK(viewing[c], chrome[b], nextId[b], socket[b]) /\ BrowserOK(b)
  BY <1>1, <1>2, WaiterIs
<1>4. /\ DOMAIN chrome = Launches /\ DOMAIN nextId = Launches
      /\ DOMAIN pending = Launches /\ DOMAIN socket = Launches /\ DOMAIN filed = Launches
  BY DEF BrowserInv, BrowsersOK
<1>5. PICK q, f, e, x, n, p : /\ q = socket[b] /\ f = filed[b] /\ e = chrome[b].events /\ x = chrome[b]
                              /\ n = nextId[b] /\ p = pending[b]
  OBVIOUS
<1>6. NumbersOK(x, n, p, q) /\ EventsOK(q, f, e, x.at = "up") /\ q # <<>> /\ q \in Seq(Messages) /\ n \in Nat
  BY <1>2, <1>3, <1>5 DEF BrowserOK, NumbersOK
<1>7. PICK v \in Views : v = viewing[c] /\ AnswerOK(v, x, n, q) /\ Head(q).id = v.id /\ v.at = "snapshot" /\ v.b = b
  BY <1>1, <1>2, <1>3, <1>5
<1>8. Head(q).id # 0 /\ Head(q).page \in Nat /\ Head(q).page <= x.page /\ v.from <= Head(q).page
  BY <1>6, <1>7, AnswerIs
<1>9. OnlyAt(b) /\ socket'[b] = Tail(q) /\ nextId'[b] = n + 1 /\ pending'[b] = Browser!Asked(b)
  BY <1>2, <1>3, <1>4, <1>5 DEF OnlyAt
<1>10. NumbersOK(x, n, p, Tail(q))
  BY <1>6, NumbersTail
<1>11. NumbersOK(x, n + 1, Browser!Asked(b), Tail(q))
  BY <1>5, <1>10, AskedOK
<1>12. EventsOK(Tail(q), f, e, x.at = "up")
  BY <1>6, <1>8, AnswerTaken
<1>13. chrome[b].at # "unused"
  <2>1. b # 0
    BY <1>3 DEF Launches, BrowserAssumptions
  <2> QED
    BY <2>1, <1>3 DEF BrowserInv, SessionsOK
<1>14. BrowserOK(b)'
  BY <1>2, <1>5, <1>9, <1>11, <1>12, <1>13 DEF BrowserOK
<1>15. BrowsersOK'
  BY <1>3, <1>9, <1>14, OneMoves DEF BrowserInv
<1>16. PICK g \in Nat : g = Head(q).page
  BY <1>8
<1>17. PICK w : w = [v EXCEPT !.at = "capture", !.id = n, !.page = g]
  OBVIOUS
<1>18. w \in Views /\ w.b = b
  BY <1>6, <1>7, <1>16, <1>17 DEF Views
<1>19. w.at = "capture" /\ w.task = v.task
  BY <1>6, <1>7, <1>16, <1>17 DEF Views
<1>20. w.id = n /\ w.from = v.from /\ w.page = g
  BY <1>6, <1>7, <1>16, <1>17 DEF Views
<1>21. DOMAIN viewing' = Callers /\ viewing'[c] = w /\ \A d \in Callers \ {c} : viewing'[d] = viewing[d]
  BY <1>2, <1>3, <1>5, <1>7, <1>16, <1>17
<1>22. AnswerOK(w, x, n + 1, Tail(q))
  <2>1. v.from \in Nat /\ x.page \in Nat
    BY <1>6, <1>7 DEF Views, Chromes, NumbersOK
  <2>2. w.from <= x.page /\ w.from <= w.page /\ w.page <= x.page
    BY <2>1, <1>8, <1>16, <1>20
  <2> QED
    BY <2>2, <1>10, <1>18, <1>20, AnswerAwaited
<1>23. ViewOK(c)'
  <2>1. /\ w.task \in Tasks /\ sessions'[w.task] = b /\ mutex' = c
        /\ AnswerOK(w, chrome'[b], nextId'[b], socket'[b])
    BY <1>2, <1>3, <1>5, <1>7, <1>9, <1>19, <1>22
  <2> QED
    BY <2>1, <1>3, <1>18, <1>19, <1>21 DEF ViewOK
<1>24. ViewsOK'
  BY <1>3, <1>21, <1>23, OthersOutside DEF BrowserInv
<1>25. SessionsOK' /\ Browser!FramesCurrent'
  BY <1>2 DEF BrowserInv, SessionsOK, Browser!OneBrowserPerTask, Browser!FramesCurrent
<1> QED
  BY <1>15, <1>24, <1>25 DEF BrowserInv

\* The screenshot is taken and the frame served.
LEMMA CaptureStep ==
  ASSUME BrowserInv, BrowserAssumptions, NEW c \in Callers, Browser!Capture(c)
  PROVE  BrowserInv'
<1>1. PICK b : b = viewing[c].b
  OBVIOUS
<1>2. /\ Browser!Waiting(c) /\ viewing[c].at = "capture" /\ socket[b] # <<>>
      /\ Head(socket[b]).id = viewing[c].id
      /\ socket' = [socket EXCEPT ![b] = Tail(socket[b])]
      /\ frames' = frames \cup {[task |-> viewing[c].task, b |-> b, from |-> viewing[c].from,
                                 page |-> viewing[c].page, shot |-> Head(socket[b]).page]}
      /\ viewing' = [viewing EXCEPT ![c] = Browser!NoCall] /\ mutex' = "free"
      /\ UNCHANGED <<sessions, chrome, pending, nextId, filed>>
  BY <1>1 DEF Browser!Capture, Browser!Mine
<1>3. /\ mutex = c /\ viewing[c] \in Views /\ DOMAIN viewing = Callers /\ b \in Launches
      /\ sessions[viewing[c].task] = b /\ viewing[c].task \in Tasks
      /\ AnswerOK(viewing[c], chrome[b], nextId[b], socket[b]) /\ BrowserOK(b)
  BY <1>1, <1>2, WaiterIs
<1>4. /\ DOMAIN chrome = Launches /\ DOMAIN nextId = Launches
      /\ DOMAIN pending = Launches /\ DOMAIN socket = Launches /\ DOMAIN filed = Launches
  BY DEF BrowserInv, BrowsersOK
<1>5. PICK q, f, e, x, n, p : /\ q = socket[b] /\ f = filed[b] /\ e = chrome[b].events /\ x = chrome[b]
                              /\ n = nextId[b] /\ p = pending[b]
  OBVIOUS
<1>6. NumbersOK(x, n, p, q) /\ EventsOK(q, f, e, x.at = "up") /\ q # <<>>
  BY <1>2, <1>3, <1>5 DEF BrowserOK
<1>7. PICK v \in Views : v = viewing[c] /\ AnswerOK(v, x, n, q) /\ Head(q).id = v.id /\ v.at = "capture"
  BY <1>2, <1>3, <1>5
<1>8. Head(q).id # 0 /\ v.from <= v.page /\ v.page <= Head(q).page
  BY <1>6, <1>7, AnswerIs
<1>9. OnlyAt(b) /\ socket'[b] = Tail(q)
  BY <1>2, <1>3, <1>4, <1>5 DEF OnlyAt
<1>10. NumbersOK(x, n, p, Tail(q)) /\ EventsOK(Tail(q), f, e, x.at = "up")
  BY <1>6, <1>8, NumbersTail, AnswerTaken
<1>11. chrome[b].at # "unused"
  <2>1. b # 0
    BY <1>3 DEF Launches, BrowserAssumptions
  <2> QED
    BY <2>1, <1>3 DEF BrowserInv, SessionsOK
<1>12. BrowserOK(b)'
  BY <1>2, <1>5, <1>9, <1>10, <1>11 DEF BrowserOK
<1>13. BrowsersOK'
  BY <1>3, <1>9, <1>12, OneMoves DEF BrowserInv
<1>14. Browser!FramesCurrent'
  <2>1. PICK r : r = [task |-> viewing[c].task, b |-> b, from |-> v.from, page |-> v.page, shot |-> Head(q).page]
    OBVIOUS
  <2>2. r.from <= r.page /\ r.page <= r.shot
    BY <2>1, <1>8
  <2>3. frames' = frames \cup {r}
    BY <2>1, <1>2, <1>5, <1>7
  <2> QED
    BY <2>2, <2>3 DEF BrowserInv, Browser!FramesCurrent
<1>15. DOMAIN viewing' = Callers /\ viewing'[c] = Browser!NoCall /\ \A d \in Callers \ {c} : viewing'[d] = viewing[d]
  BY <1>2, <1>3
<1>16. ViewOK(c)'
  <2>1. Browser!NoCall \in Views /\ Browser!NoCall.at = "none"
    BY DEF Browser!NoCall, Views
  <2> QED
    BY <2>1, <1>15 DEF ViewOK, Inside, Awaiting
<1>17. ViewsOK'
  BY <1>3, <1>15, <1>16, OthersOutside DEF BrowserInv
<1>18. SessionsOK'
  BY <1>2 DEF BrowserInv, SessionsOK, Browser!OneBrowserPerTask
<1> QED
  BY <1>13, <1>14, <1>17, <1>18 DEF BrowserInv

\* A call gives up: its session stays.
LEMMA GiveUpStep ==
  ASSUME BrowserInv, BrowserAssumptions, NEW c \in Callers, NEW late \in BOOLEAN, Browser!GiveUp(c, late)
  PROVE  BrowserInv'
<1>1. /\ mutex = c /\ viewing' = [viewing EXCEPT ![c] = Browser!NoCall]
      /\ UNCHANGED <<sessions, chrome, pending, socket, nextId, filed, frames>>
  BY DEF Browser!GiveUp, Browser!Waiting
<1>2. DOMAIN viewing' = Callers /\ viewing'[c] = Browser!NoCall /\ \A d \in Callers \ {c} : viewing'[d] = viewing[d]
  BY <1>1 DEF BrowserInv, ViewsOK
<1>3. ViewOK(c)'
  <2>1. Browser!NoCall \in Views /\ Browser!NoCall.at = "none"
    BY DEF Browser!NoCall, Views
  <2> QED
    BY <2>1, <1>2 DEF ViewOK, Inside, Awaiting
<1>4. ViewsOK'
  BY <1>1, <1>2, <1>3, OthersOutside DEF BrowserInv
<1>5. BrowsersOK' /\ SessionsOK' /\ Browser!FramesCurrent'
  BY <1>1 DEF BrowserInv, BrowsersOK, BrowserOK, SessionsOK, Browser!OneBrowserPerTask, Browser!FramesCurrent
<1> QED
  BY <1>4, <1>5 DEF BrowserInv

\* A session is removed with its browser, and what was on its socket with it.
LEMMA RelaunchStep ==
  ASSUME BrowserInv, BrowserAssumptions, NEW c \in Callers, NEW late \in BOOLEAN, Browser!Relaunch(c, late)
  PROVE  BrowserInv'
<1>1. PICK b : b = viewing[c].b
  OBVIOUS
<1>2. /\ Browser!Waiting(c) /\ viewing[c].at = "snapshot"
      /\ sessions' = [sessions EXCEPT ![viewing[c].task] = 0]
      /\ chrome' = [chrome EXCEPT ![b] = [chrome[b] EXCEPT !.at = "dead", !.dir = FALSE]]
      /\ pending' = [pending EXCEPT ![b] = {}] /\ socket' = [socket EXCEPT ![b] = <<>>]
      /\ viewing' = [viewing EXCEPT ![c] = [viewing[c] EXCEPT !.at = "launch", !.again = TRUE]]
      /\ UNCHANGED <<nextId, filed, mutex, frames>>
  BY <1>1 DEF Browser!Relaunch
<1>3. /\ mutex = c /\ viewing[c] \in Views /\ DOMAIN viewing = Callers /\ viewing[c].task \in Tasks
      /\ b \in Launches /\ sessions[viewing[c].task] = b /\ BrowserOK(b)
  BY <1>1, <1>2, WaiterIs
<1>4. /\ DOMAIN chrome = Launches /\ DOMAIN nextId = Launches /\ DOMAIN sessions = Tasks
      /\ DOMAIN pending = Launches /\ DOMAIN socket = Launches /\ DOMAIN filed = Launches
  BY DEF BrowserInv, BrowsersOK, SessionsOK
<1>5. PICK q, f, e, n, p : /\ q = socket[b] /\ f = filed[b] /\ e = chrome[b].events
                           /\ n = nextId[b] /\ p = pending[b]
  OBVIOUS
<1>6. PICK x \in Chromes : x = chrome[b] /\ NumbersOK(x, n, p, q) /\ EventsOK(q, f, e, x.at = "up")
  BY <1>3, <1>5 DEF BrowserOK, NumbersOK
<1>7. PICK y : y = [x EXCEPT !.at = "dead", !.dir = FALSE]
  OBVIOUS
<1>8. y \in Chromes /\ y.at = "dead" /\ y.page = x.page /\ y.events = x.events
  BY <1>6, <1>7 DEF Chromes
<1>9. OnlyAt(b) /\ socket'[b] = <<>> /\ pending'[b] = {} /\ chrome'[b] = y
  BY <1>2, <1>3, <1>4, <1>6, <1>7 DEF OnlyAt
<1>10. NumbersOK(y, n, {}, <<>>)
  <2>1. x.page <= y.page
    BY <1>6, <1>8 DEF Chromes
  <2>2. NumbersOK(y, n, p, q)
    BY <2>1, <1>6, <1>8, NumbersMove
  <2>3. NumbersOK(y, n, {}, q)
    BY <2>2, NumbersMove
  <2> QED
    BY <2>3, NumbersMove
<1>11. EventsOK(<<>>, f, e, y.at = "up")
  BY <1>6, <1>8, EventsDropped
<1>12. BrowserOK(b)'
  BY <1>2, <1>5, <1>6, <1>8, <1>9, <1>10, <1>11 DEF BrowserOK
<1>13. BrowsersOK'
  BY <1>3, <1>9, <1>12, OneMoves DEF BrowserInv
<1>14. PICK t \in Tasks : t = viewing[c].task
  BY <1>3
<1>15. /\ DOMAIN sessions' = Tasks /\ sessions'[t] = 0 /\ sessions[t] = b
       /\ \A s \in Tasks \ {t} : sessions'[s] = sessions[s]
  BY <1>2, <1>3, <1>4, <1>14
<1>16. SessionsOK'
  <2>1. b # 0
    BY <1>3 DEF Launches, BrowserAssumptions
  <2>2. \A s \in Tasks \ {t} : sessions[s] # b
    BY <2>1, <1>15 DEF BrowserInv, SessionsOK, Browser!OneBrowserPerTask
  <2>3. \A a \in Launches \ {b} : chrome'[a] = chrome[a]
    BY <1>9 DEF OnlyAt
  <2>4. \A s \in Tasks : sessions'[s] # 0 => sessions'[s] \in Launches /\ chrome'[sessions'[s]].at # "unused"
    BY <2>2, <2>3, <1>15 DEF BrowserInv, SessionsOK
  <2>5. ASSUME NEW a \in Launches, chrome'[a].at = "up" PROVE \E s \in Tasks : sessions'[s] = a
    <3>1. a # b
      BY <2>5, <1>8, <1>9
    <3>2. PICK s \in Tasks : sessions[s] = a
      BY <2>3, <2>5, <3>1 DEF BrowserInv, SessionsOK, Browser!OneBrowserPerTask, Browser!Ids, Launches
    <3> QED
      BY <3>1, <3>2, <1>15
  <2>6. \A r, s \in Tasks : sessions'[r] = sessions'[s] /\ sessions'[r] # 0 => r = s
    BY <1>15 DEF BrowserInv, SessionsOK, Browser!OneBrowserPerTask
  <2>7. Browser!OneBrowserPerTask'
    BY <2>5, <2>6 DEF Browser!OneBrowserPerTask, Browser!Ids, Launches
  <2> QED
    BY <2>4, <2>7, <1>15 DEF SessionsOK
<1>17. DOMAIN viewing' = Callers /\ \A d \in Callers \ {c} : viewing'[d] = viewing[d]
  BY <1>2, <1>3
<1>18. ViewOK(c)'
  <2>1. viewing'[c] \in Views /\ viewing'[c].at = "launch" /\ viewing'[c].task = t
    BY <1>2, <1>3, <1>14, ViewEntered
  <2> QED
    BY <2>1, <1>2, <1>3, <1>15 DEF ViewOK, Awaiting
<1>19. ViewsOK'
  BY <1>3, <1>17, <1>18, OthersOutside DEF BrowserInv
<1>20. Browser!FramesCurrent'
  BY <1>2 DEF BrowserInv, Browser!FramesCurrent
<1> QED
  BY <1>13, <1>16, <1>19, <1>20 DEF BrowserInv

LEMMA BrowserStep ==
  ASSUME BrowserInv, BrowserAssumptions, [Browser!Next]_Browser!hostVars
  PROVE  BrowserInv'
<1>1. CASE UNCHANGED Browser!hostVars
  BY <1>1 DEF Browser!hostVars, BrowserInv, BrowsersOK, BrowserOK, ViewsOK, ViewOK, SessionsOK,
              Browser!OneBrowserPerTask, Browser!FramesCurrent
<1>2. CASE \E b \in Browser!Ids : Browser!Answer(b) \/ Browser!Emit(b) \/ Browser!TurnPage(b) \/ Browser!Crash(b)
  BY <1>2, ChromeStep DEF Browser!Ids, Launches
<1>3. ASSUME NEW c \in Callers,
             \/ \E t \in Tasks, s \in {"", "user", "agent"} : Browser!Ask(c, t, s)
             \/ Browser!SetLease(c) \/ Browser!EnterLaunch(c) \/ Browser!EnterView(c) \/ Browser!Launched(c)
             \/ \E how \in {"binary", "port", "connect", "attach"} : Browser!LaunchFails(c, how)
             \/ Browser!File(c) \/ Browser!Snapshot(c) \/ Browser!Capture(c)
             \/ \E late \in BOOLEAN : Browser!Relaunch(c, late) \/ Browser!GiveUp(c, late)
      PROVE  BrowserInv'
  <2>1. CASE \E t \in Tasks, s \in {"", "user", "agent"} : Browser!Ask(c, t, s)
    BY <2>1, AskStep
  <2>2. CASE Browser!SetLease(c) \/ Browser!EnterLaunch(c)
    BY <2>2, EnterStep
  <2>3. CASE Browser!EnterView(c)
    BY <2>3, EnterViewStep
  <2>4. CASE Browser!Launched(c)
    BY <2>4, LaunchedStep
  <2>5. CASE \E how \in {"binary", "port", "connect", "attach"} : Browser!LaunchFails(c, how)
    BY <2>5, LaunchFailsStep
  <2>6. CASE Browser!File(c)
    BY <2>6, FileStep
  <2>7. CASE Browser!Snapshot(c)
    BY <2>7, SnapshotStep
  <2>8. CASE Browser!Capture(c)
    BY <2>8, CaptureStep
  <2>9. CASE \E late \in BOOLEAN : Browser!Relaunch(c, late)
    BY <2>9, RelaunchStep
  <2>10. CASE \E late \in BOOLEAN : Browser!GiveUp(c, late)
    BY <2>10, GiveUpStep
  <2> QED
    BY <1>3, <2>1, <2>2, <2>3, <2>4, <2>5, <2>6, <2>7, <2>8, <2>9, <2>10
<1> QED
  BY <1>1, <1>2, <1>3 DEF Browser!Next

\* The live browsers (browser_host.rs, cdp.rs), for any tasks, callers and launches: a
\* frame shows what the browser of the task showed during the call and no late answer of
\* an earlier command, a running browser is the session of one task or was lost at the
\* connect, and events are filed once and in the order the browser sent them.
THEOREM BrowserIsSound == BrowserAssumptions => (Browser!HostSpec => []Browser!BrowserSound)
<1> SUFFICES ASSUME BrowserAssumptions PROVE Browser!HostSpec => []Browser!BrowserSound
  OBVIOUS
<1>1. Browser!Init => BrowserInv
  BY BrowserStart
<1>2. BrowserInv /\ [Browser!Next]_Browser!hostVars => BrowserInv'
  BY BrowserStep
<1>3. BrowserInv => Browser!BrowserSound
  <2> SUFFICES ASSUME BrowserInv PROVE Browser!BrowserSound
    OBVIOUS
  <2>1. ASSUME NEW b \in Launches, NEW i \in DOMAIN filed[b] PROVE filed[b][i] = i
    <3>1. PICK f \in Seq(Nat) : f = filed[b] /\ \A k \in 1..Len(f) : f[k] = k
      BY DEF BrowserInv, BrowsersOK, BrowserOK, EventsOK
    <3>2. DOMAIN f = 1..Len(f)
      BY <3>1
    <3> QED
      BY <2>1, <3>1, <3>2
  <2>2. Browser!EventsFiledInOrder
    BY <2>1 DEF Browser!EventsFiledInOrder, Browser!Ids, Launches
  <2> QED
    BY <2>2 DEF BrowserInv, SessionsOK, Browser!BrowserSound
<1> QED
  BY <1>1, <1>2, <1>3, PTL DEF Browser!HostSpec
=============================================================================
