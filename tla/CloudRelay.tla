----------------------------- MODULE CloudRelay -----------------------------
(***************************************************************************)
(* The cloud control plane: a user signs in at apps/cloud-api through the  *)
(* OIDC issuer, and a request with the session token is relayed by         *)
(* apps/sandbox-gateway, over the authenticated frames of protocol/src/    *)
(* transport.rs, to the worker that leased the tenant (apps/cloud-worker). *)
(* The gateway has one thread per peer; a worker's connection is shared by *)
(* all guest threads of its tenant behind a mutex.                         *)
(***************************************************************************)
EXTENDS Naturals, FiniteSets

CONSTANTS
  Logins,            \* oauth states to be drawn, one per user who signs in
  TenantOf,          \* the tenant claim of that user at the issuer
  Guests,            \* peers of the gateway with role guest: api requests
  Conns,             \* connections of workers
  Nobody, Expired

Tenants == {TenantOf[l] : l \in Logins}

VARIABLES
  login,     \* api: oauth states: fresh, pending (verifier and nonce kept) or spent
  code,      \* issuer: it authenticated the user and issued a code for the login
  session,   \* the session token of a login: its user, until it expired
  lease,     \* gateway: the worker connection of a tenant
  lock,      \* gateway: the guest thread inside a worker's mutex
  guest,     \* gateway: where a guest's thread is
  worker,    \* worker connections: tenant, up, request and reply on the wire
  got,       \* the reply a guest received last
  dropped    \* a worker skipped an envelope it could not decode

api     == <<login, code, session>>
gateway == <<lease, lock, guest, worker, got, dropped>>
relayVars == <<login, code, session, lease, lock, guest, worker, got, dropped>>

Idle == [at |-> "idle", as |-> Nobody, to |-> Nobody]

RelayInit ==
  /\ login = [l \in Logins |-> "fresh"]
  /\ code = [l \in Logins |-> FALSE] /\ session = [l \in Logins |-> Nobody]
  /\ lease = [t \in Tenants |-> Nobody]
  /\ lock = [c \in Conns |-> Nobody]
  /\ guest = [g \in Guests |-> Idle]
  /\ worker = [c \in Conns |-> [tenant |-> Nobody, up |-> FALSE, req |-> Nobody, rsp |-> Nobody]]
  /\ got = [g \in Guests |-> Nobody]
  /\ dropped = FALSE

-----------------------------------------------------------------------------
(***************************************************************************)
(* Signing in: the authorization code flow with PKCE.  A login is known by *)
(* its state; verifier and nonce are as fresh, so they are the login's.    *)
(***************************************************************************)
\* /login: a state is drawn, its verifier and nonce are kept.
Login(l) ==
  /\ login[l] = "fresh"
  /\ login' = [login EXCEPT ![l] = "pending"]
  /\ UNCHANGED <<code, session, gateway>>

\* The issuer authenticates the user and binds a code to the challenge and nonce of l.
Authorize(l) ==
  /\ login[l] = "pending" /\ ~code[l]
  /\ code' = [code EXCEPT ![l] = TRUE]
  /\ UNCHANGED <<login, session, gateway>>

\* The id token for the code of another login is refused: the issuer wants the verifier
\* the code was bound to, and the claims must carry this login's nonce.
VerifyIdToken(of, l) == of = l /\ code[of]

\* Mutant: the state stays in the map of pending logins.
CallbackAgain(of, l) ==
  /\ login[l] = "pending" /\ VerifyIdToken(of, l)
  /\ session' = [session EXCEPT ![l] = of]
  /\ UNCHANGED <<login, code, gateway>>

\* /callback with state l and the code of some login: the state is taken out of the
\* map whatever comes of it.
Callback(of, l) ==
  /\ login[l] = "pending"
  /\ login' = [login EXCEPT ![l] = "spent"]
  /\ session' = IF VerifyIdToken(of, l) THEN [session EXCEPT ![l] = of] ELSE session
  /\ UNCHANGED <<code, gateway>>

\* Fifteen minutes pass.
Expire(l) ==
  /\ session[l] \in Logins
  /\ session' = [session EXCEPT ![l] = Expired]
  /\ UNCHANGED <<login, code, gateway>>

VerifySession(l) == session[l] \in Logins

-----------------------------------------------------------------------------
(***************************************************************************)
(* Workers.                                                                *)
(***************************************************************************)
\* Mutant: a worker also serves the tenants that have none.
RegisterShared(c, t) ==
  /\ worker[c].tenant = Nobody
  /\ worker' = [worker EXCEPT ![c] = [tenant |-> t, up |-> TRUE, req |-> Nobody, rsp |-> Nobody]]
  /\ lease' = [x \in Tenants |-> IF x = t \/ lease[x] = Nobody THEN c ELSE lease[x]]
  /\ UNCHANGED <<api, lock, guest, got, dropped>>

\* A worker connects, is authenticated and registers: it takes the tenant's lease over.
\* One that fails the handshake, or names no tenant, is closed
\* and leaves nothing.
Register(c, t) ==
  /\ worker[c].tenant = Nobody
  /\ worker' = [worker EXCEPT ![c] = [tenant |-> t, up |-> TRUE, req |-> Nobody, rsp |-> Nobody]]
  /\ lease' = [lease EXCEPT ![t] = c]
  /\ UNCHANGED <<api, lock, guest, got, dropped>>

\* The relay loop of the worker: decode, dispatch, reply with the envelope's tenant.
Serve(c) ==
  /\ worker[c].up /\ worker[c].req # Nobody
  /\ worker' = [worker EXCEPT ![c].req = Nobody, ![c].rsp = worker[c].req]
  /\ UNCHANGED <<api, lease, lock, guest, got, dropped>>

\* An envelope whose payload does not decode is skipped, and nothing is sent back.
Skip(c) ==
  /\ worker[c].up /\ worker[c].req # Nobody /\ worker[c].req.bad
  /\ worker' = [worker EXCEPT ![c].req = Nobody]
  /\ dropped' = TRUE
  /\ UNCHANGED <<api, lease, lock, guest, got>>

Die(c) ==
  /\ worker[c].up
  /\ worker' = [worker EXCEPT ![c] = [@ EXCEPT !.up = FALSE, !.req = Nobody, !.rsp = Nobody]]
  /\ UNCHANGED <<api, lease, lock, guest, got, dropped>>

-----------------------------------------------------------------------------
(***************************************************************************)
(* The thread of a guest: serve_guest.                                     *)
(***************************************************************************)
At(g, place) == guest[g].at = place

\* The api connects to the gateway as a guest of the session's tenant, registers and
\* sends one envelope.
Relay(g, u) == guest' = [guest EXCEPT ![g] = [at |-> "asked", as |-> u, to |-> Nobody]]

\* /fleet, /task and /browser: the tenant comes from the session only.
Control(g, l) ==
  /\ At(g, "idle") /\ got[g] = Nobody
  /\ VerifySession(l)
  /\ Relay(g, session[l])
  /\ UNCHANGED <<api, lease, lock, worker, got, dropped>>

Tenant(g) == TenantOf[guest[g].as]

\* The api's connection carries one request: once told, it hangs up.
Told(g, what) ==
  /\ guest' = [guest EXCEPT ![g] = Idle]
  /\ got' = [got EXCEPT ![g] = what]

Error == [error |-> TRUE]

\* /checkpoint: relayed like the others, once its body parses and names a task.
Checkpoint(g, l, parses) ==
  /\ At(g, "idle") /\ got[g] = Nobody
  /\ VerifySession(l)
  /\ IF parses THEN Relay(g, session[l]) /\ UNCHANGED got
     ELSE Told(g, Error)
  /\ UNCHANGED <<api, lease, lock, worker, dropped>>

\* Another tenant in the envelope than in the registration is refused.
CrossTenant(g, t) ==
  /\ At(g, "asked") /\ t # Tenant(g)
  /\ Told(g, Error)
  /\ UNCHANGED <<api, lease, lock, worker, dropped>>

\* Without a lease the guest is told so.
NoWorker(g) ==
  /\ At(g, "asked") /\ lease[Tenant(g)] = Nobody
  /\ Told(g, Error)
  /\ UNCHANGED <<api, lease, lock, worker, dropped>>

\* The lease is looked up and its connection cloned; the lease is not looked at again.
Lookup(g) ==
  /\ At(g, "asked") /\ lease[Tenant(g)] # Nobody
  /\ guest' = [guest EXCEPT ![g].at = "lock", ![g].to = lease[Tenant(g)]]
  /\ UNCHANGED <<api, lease, lock, worker, got, dropped>>

\* The worker's mutex is taken and the frame sent as it came, or the send fails.
Send(g, bad) ==
  LET c == guest[g].to IN
  /\ At(g, "lock") /\ lock[c] = Nobody
  /\ IF worker[c].up
     THEN /\ lock' = [lock EXCEPT ![c] = g]
          /\ worker' = [worker EXCEPT ![c].req = [guest |-> g, bad |-> bad]]
          /\ guest' = [guest EXCEPT ![g].at = "await"]
     ELSE guest' = [guest EXCEPT ![g].at = "failed"] /\ UNCHANGED <<lock, worker>>
  /\ UNCHANGED <<api, lease, got, dropped>>

\* The reply comes back and the mutex is released.
Receive(g) ==
  LET c == guest[g].to IN
  /\ At(g, "await") /\ worker[c].rsp # Nobody
  /\ lock' = [lock EXCEPT ![c] = Nobody]
  /\ worker' = [worker EXCEPT ![c].rsp = Nobody]
  /\ Told(g, [reply |-> worker[c].rsp.guest, by |-> c, as |-> guest[g].as])
  /\ UNCHANGED <<api, lease, dropped>>

\* Mutant: the mutex stays taken when the relay fails.
BrokenHeld(g) ==
  LET c == guest[g].to IN
  /\ At(g, "await") /\ worker[c].rsp = Nobody /\ ~worker[c].up
  /\ guest' = [guest EXCEPT ![g].at = "failed"]
  /\ UNCHANGED <<api, lease, lock, worker, got, dropped>>

\* The connection broke; the mutex is released.
Broken(g) ==
  LET c == guest[g].to IN
  /\ At(g, "await") /\ worker[c].rsp = Nobody /\ ~worker[c].up
  /\ lock' = [lock EXCEPT ![c] = Nobody]
  /\ guest' = [guest EXCEPT ![g].at = "failed"]
  /\ UNCHANGED <<api, lease, worker, got, dropped>>

\* After a failed relay the tenant's lease is removed, whoever holds it by then.
Unlease(g) ==
  /\ At(g, "failed")
  /\ lease' = [lease EXCEPT ![Tenant(g)] = Nobody]
  /\ Told(g, Error)
  /\ UNCHANGED <<api, lock, worker, dropped>>

Thread(g) ==
  \/ NoWorker(g) \/ Lookup(g) \/ \E bad \in BOOLEAN : Send(g, bad)
  \/ Receive(g) \/ Broken(g) \/ Unlease(g)

RelayNext ==
  \/ \E l \in Logins : Login(l) \/ Authorize(l) \/ Expire(l)
  \/ \E of, l \in Logins : Callback(of, l)
  \/ \E c \in Conns : \/ \E t \in Tenants : Register(c, t)
                      \/ Serve(c) \/ Skip(c) \/ Die(c)
  \/ \E g \in Guests : \/ \E l \in Logins : Control(g, l) \/ \E parses \in BOOLEAN : Checkpoint(g, l, parses)
                       \/ \E t \in Tenants : CrossTenant(g, t)
                       \/ Thread(g)

\* Gateway threads keep running, and a worker answers or skips what it received.
RelayFairness ==
  /\ \A g \in Guests : WF_relayVars(Thread(g))
  /\ \A c \in Conns : WF_relayVars(Serve(c) \/ Skip(c))

RelaySpec == RelayInit /\ [][RelayNext]_relayVars /\ RelayFairness

-----------------------------------------------------------------------------
\* What a caller receives is the reply to the very request it sent, computed by a
\* worker that leased the tenant the issuer authenticated the caller for; whatever
\* workers die, are replaced or share a connection with other callers meanwhile.
RepliesBelong ==
  \A g \in Guests : got[g] \notin {Nobody, Error} =>
    got[g].reply = g /\ worker[got[g].by].tenant = TenantOf[got[g].as]

\* A login is good for one session: no callback repeated with its state, nor one with
\* the code of another login, gives it a session again once it has had one.
LoginsAreSingleUse ==
  [][\A l \in Logins : session[l] # Nobody => session'[l] \in {session[l], Expired}]_relayVars

\* A request is answered, refused or reported as failed, however workers come and go,
\* unless some worker skipped an envelope: the gateway then waits inside the mutex.
RelaysEnd ==
  []~dropped => \A g \in Guests : At(g, "asked") ~> got[g] # Nobody
=============================================================================
