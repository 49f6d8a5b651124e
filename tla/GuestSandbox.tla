---------------------------- MODULE GuestSandbox ----------------------------
(***************************************************************************)
(* The isolated guest of a task: the host boots a VM (sandbox/substrate.rs)*)
(* and sends typed requests over authenticated connections to the agent in *)
(* it (services/modbit-guest, sandbox/guest.rs), which gates them, fences  *)
(* older generations, replays answers from a bounded cache and runs        *)
(* processes and file writes.  Connections have a thread each.  A guest    *)
(* may be lost with requests in flight; sandbox/guest_recovery.rs          *)
(* reconciles a lost write with a fresh guest restored from a checkpoint.  *)
(***************************************************************************)
EXTENDS Naturals, Sequences

CONSTANTS
  Chans,      \* host connections
  Ids,        \* request ids; a write writes its id, all to one path
  MaxGen,     \* bound: generations are 0..MaxGen
  CacheCap,   \* answers kept (IDEMPOTENCY_CACHE_CAP)
  BootSteps,  \* configuration calls of a boot
  MaxVms,     \* bound: guests booted
  Absent

VARIABLES
  vmm,     \* the VMM process lives
  ctl,     \* the controller: none, at a step of the boot, or held (RunningVm)
  vms,     \* guests booted so far
  signed,  \* the guest's manifest carries the provisioner's signature and a known protocol
  gen,     \* guest: current generation
  cache,   \* guest: ids with a kept answer, oldest first
  thread,  \* guest: what the thread of a connection is doing, for which id
  proc,    \* guest: the process a thread started
  file,    \* guest: the content of the path
  saved,   \* checkpoint of it
  host,    \* host: a caller waits on the connection, or does not
  sent,    \* host: by id, the operation and generation of the request
  fate,    \* host: by id, open, timed out or lost with the guest
  ans,     \* the answer last computed for an id: not run, done, or wrongly reported as exited
  ran,     \* runs of an id that no fence cut short, on a machine that still exists
  twice,   \* ids sent again while being executed, or after their answer was evicted
  rec      \* reconciliation of a lost write

machine == <<vmm, ctl, vms, signed>>
agent   == <<gen, cache, thread, proc, file>>
client  == <<saved, host, sent, fate>>
guestVars == <<vmm, ctl, vms, signed, gen, cache, thread, proc, file, saved, host, sent, fate, ans, ran, twice, rec>>

NoVm == 0
Held == BootSteps + 1

Idle == [at |-> "idle", id |-> Absent]
Nil  == [st |-> "none", reg |-> FALSE, fenced |-> FALSE, by |-> "none"]
Quiet == [at |-> "off", id |-> Absent]

GuestInit ==
  /\ vmm = FALSE /\ ctl = NoVm /\ vms = 0 /\ signed = FALSE
  /\ gen = 0 /\ cache = <<>>
  /\ thread = [c \in Chans |-> Idle] /\ proc = [c \in Chans |-> Nil]
  /\ file = Absent /\ saved = Absent
  /\ host = [c \in Chans |-> "at rest"]
  /\ sent = [i \in Ids |-> Absent] /\ fate = [i \in Ids |-> "open"]
  /\ ans = [i \in Ids |-> Absent] /\ ran = [i \in Ids |-> 0] /\ twice = {}
  /\ rec = Quiet

-----------------------------------------------------------------------------
(***************************************************************************)
(* The VM.                                                                 *)
(***************************************************************************)
Spawn ==
  /\ ctl = NoVm /\ ~vmm /\ vms < MaxVms
  /\ vmm' = TRUE /\ ctl' = 1
  /\ UNCHANGED <<vms, signed, agent, client, ans, ran, twice, rec>>

\* A call of the VMM's API that may be refused or never answered.
Configuring == ctl \in 1..BootSteps

\* The API socket appears, each configuration call is accepted, and the instance starts;
\* the last step finds it Running.  The guest is fresh; its disk is the checkpoint's.
BootStep ==
  /\ Configuring /\ vmm
  /\ IF ctl < BootSteps
     THEN ctl' = ctl + 1 /\ UNCHANGED <<vms, signed, agent>>
     ELSE /\ ctl' = Held /\ vms' = vms + 1 /\ signed' \in BOOLEAN
          /\ gen' = 0 /\ cache' = <<>>
          /\ thread' = [c \in Chans |-> Idle] /\ proc' = [c \in Chans |-> Nil]
          /\ file' = saved
  /\ UNCHANGED <<vmm, client, ans, ran, twice, rec>>

\* A call is refused or a deadline passes: the VMM is killed before boot returns.
BootFails ==
  /\ Configuring
  /\ vmm' = FALSE /\ ctl' = NoVm
  /\ UNCHANGED <<vms, signed, agent, client, ans, ran, twice, rec>>

Up == ctl = Held /\ vmm

\* The guest is gone, by shutdown, drop or death: what was in flight is lost with it,
\* and so is what it wrote since the checkpoint.
Gone ==
  /\ Up
  /\ vmm' = FALSE /\ ctl' = NoVm
  /\ host' = [c \in Chans |-> "at rest"]
  /\ fate' = [i \in Ids |-> IF \E c \in Chans : thread[c].id = i THEN "lost" ELSE fate[i]]
  /\ thread' = [c \in Chans |-> Idle] /\ proc' = [c \in Chans |-> Nil]
  /\ ran' = [i \in Ids |-> IF sent[i] # Absent /\ sent[i].op = "write" /\ saved # i THEN 0 ELSE ran[i]]
  /\ rec' = IF rec.at \in {"read", "write", "verify"} THEN Quiet ELSE rec
  /\ UNCHANGED <<vms, signed, gen, cache, file, saved, sent, ans, twice>>

Checkpoint ==
  /\ Up /\ saved' = file /\ saved # file
  /\ UNCHANGED <<machine, agent, host, sent, fate, ans, ran, twice, rec>>

-----------------------------------------------------------------------------
(***************************************************************************)
(* The host's connections.                                                 *)
(***************************************************************************)
Kept(i) == \E n \in 1..Len(cache) : cache[n] = i
Put(i)  == IF Kept(i) THEN cache ELSE Append(IF Len(cache) >= CacheCap THEN Tail(cache) ELSE cache, i)

\* Handshake and manifest precede the first request; a guest that fails either gets
\* none.  A connection carries one request at a time.
VerifyManifest == signed
Connected(c) == Up /\ VerifyManifest /\ thread[c] = Idle

\* The id is being executed by another thread, or was answered and evicted.
Missed(c, i) ==
  (\E d \in Chans \ {c} : thread[d].id = i) \/ ans[i] \notin {Absent, "not run"}

\* A request reaches the guest's thread.  A kept answer is sent back; otherwise the
\* generation is looked at.
Receive(c, i, g) ==
  IF Kept(i)
  THEN fate' = [fate EXCEPT ![i] = "open"] /\ UNCHANGED <<thread, host, twice>>
  ELSE /\ thread' = [thread EXCEPT ![c] = [at |-> IF g > gen THEN "advance" ELSE "gate", id |-> i]]
       /\ host' = [host EXCEPT ![c] = "waiting"]
       /\ twice' = IF Missed(c, i) THEN twice \cup {i} ELSE twice
       /\ UNCHANGED fate

\* call: a fresh id, stamped with the caller's generation.
Call(c, i, op, g) ==
  /\ Connected(c) /\ sent[i] = Absent
  /\ sent' = [sent EXCEPT ![i] = [op |-> op, gen |-> g]]
  /\ Receive(c, i, g)
  /\ UNCHANGED <<machine, gen, cache, proc, file, saved, ans, ran, rec>>

\* A deliberate replay: a request whose answer did not come is sent again to the same guest
\* (bound: one that ran twice already is left alone).
Replay(c, i) ==
  /\ Connected(c) /\ fate[i] = "timeout" /\ i \notin twice
  /\ Receive(c, i, sent[i].gen)
  /\ UNCHANGED <<machine, gen, cache, proc, file, saved, sent, ans, ran, rec>>

\* No answer within the bounded wait: the outcome is unknown, the guest works on.
GiveUp(c) ==
  /\ host[c] = "waiting"
  /\ host' = [host EXCEPT ![c] = "at rest"]
  /\ fate' = [fate EXCEPT ![thread[c].id] = "timeout"]
  /\ UNCHANGED <<machine, agent, saved, sent, ans, ran, twice, rec>>

-----------------------------------------------------------------------------
(***************************************************************************)
(* The guest's thread: execute.                                            *)
(***************************************************************************)
At(c, place) == Up /\ thread[c].at = place
Req(c) == sent[thread[c].id]
Go(c, place) == thread' = [thread EXCEPT ![c] = [at |-> place, id |-> thread[c].id]]

\* The thread answers; the answer is kept or not.  A host that gave up never sees it.
Answer(c, what, keep) ==
  LET i == thread[c].id IN
  /\ ans' = [ans EXCEPT ![i] = what]
  /\ cache' = IF keep THEN Put(i) ELSE cache
  /\ thread' = [thread EXCEPT ![c] = Idle]
  /\ host' = [host EXCEPT ![c] = "at rest"]
  /\ fate' = IF host[c] = "waiting" THEN [fate EXCEPT ![i] = "open"] ELSE fate

\* A newer generation is adopted, and nothing else of the request is checked.
AdvanceGeneration(c) ==
  /\ At(c, "advance")
  /\ IF Req(c).gen > gen THEN gen' = Req(c).gen /\ Go(c, "sweep")
     ELSE Go(c, "run") /\ UNCHANGED gen
  /\ UNCHANGED <<machine, cache, proc, file, client, ans, ran, twice, rec>>

Older(c) == {d \in Chans : proc[d].reg /\ Req(d).gen < Req(c).gen}

\* Mutant: older processes are killed without being marked.
SweepKillFirst(c) ==
  /\ At(c, "sweep")
  /\ proc' = [d \in Chans |-> IF d \in Older(c) /\ proc[d].st = "running"
                              THEN [proc[d] EXCEPT !.st = "ended", !.by = "fence"] ELSE proc[d]]
  /\ Go(c, "kill")
  /\ UNCHANGED <<machine, gen, cache, file, client, ans, ran, twice, rec>>

\* Older processes are marked as fenced, ...
Sweep(c) ==
  /\ At(c, "sweep")
  /\ proc' = [d \in Chans |-> IF d \in Older(c) THEN [proc[d] EXCEPT !.fenced = TRUE] ELSE proc[d]]
  /\ Go(c, "kill")
  /\ UNCHANGED <<machine, gen, cache, file, client, ans, ran, twice, rec>>

\* ... then killed, under the lock of the process table.
SweepKill(c) ==
  /\ At(c, "kill")
  /\ proc' = [d \in Chans |-> IF d \in Older(c) /\ proc[d].fenced /\ proc[d].st = "running"
                              THEN [proc[d] EXCEPT !.st = "ended", !.by = "fence"] ELSE proc[d]]
  /\ Go(c, "run")
  /\ UNCHANGED <<machine, gen, cache, file, client, ans, ran, twice, rec>>

\* The gate: a token that is not live, or an older generation, is refused, and that is
\* not kept.
Gate(c, live) ==
  /\ At(c, "gate")
  /\ IF live /\ Req(c).gen >= gen
     THEN Go(c, "run") /\ UNCHANGED <<ans, cache, host, fate>>
     ELSE Answer(c, "not run", FALSE)
  /\ UNCHANGED <<machine, gen, proc, file, saved, sent, ran, twice, rec>>

\* Outside the granted roots, or malformed: an error, kept like any answer.
Denied(c) ==
  /\ At(c, "run") /\ Answer(c, "done", TRUE)
  /\ UNCHANGED <<machine, gen, proc, file, saved, sent, ran, twice, rec>>

FsWrite(c) ==
  /\ At(c, "run") /\ Req(c).op = "write"
  /\ file' = thread[c].id
  /\ ran' = [ran EXCEPT ![thread[c].id] = ran[thread[c].id] + 1]
  /\ Answer(c, "done", TRUE)
  /\ UNCHANGED <<machine, gen, proc, saved, sent, twice, rec>>

\* The child is spawned, and entered in the table a moment later.
ProcExec(c) ==
  /\ At(c, "run") /\ Req(c).op = "exec"
  /\ proc' = [proc EXCEPT ![c] = [Nil EXCEPT !.st = "running"]]
  /\ ran' = [ran EXCEPT ![thread[c].id] = ran[thread[c].id] + 1]
  /\ Go(c, "spawned")
  /\ UNCHANGED <<machine, gen, cache, file, client, ans, twice, rec>>

Enter(c) ==
  /\ At(c, "spawned") /\ \A d \in Chans : thread[d].at # "kill"
  /\ proc' = [proc EXCEPT ![c] = [proc[c] EXCEPT !.reg = TRUE]]
  /\ Go(c, "wait")
  /\ UNCHANGED <<machine, gen, cache, file, client, ans, ran, twice, rec>>

ChildEnds(c) ==
  /\ Up /\ proc[c].st = "running"
  /\ proc' = [proc EXCEPT ![c] = [proc[c] EXCEPT !.st = "ended", !.by = "self"]]
  /\ UNCHANGED <<machine, gen, cache, thread, file, client, ans, ran, twice, rec>>

\* The poll: a death under a fence belongs to the fence, and a fenced child is killed.
Poll(c) ==
  /\ At(c, "wait") /\ (proc[c].st = "ended" \/ proc[c].fenced)
  /\ IF proc[c].fenced
     THEN Answer(c, "not run", FALSE) /\ ran' = [ran EXCEPT ![thread[c].id] = ran[thread[c].id] - 1]
     ELSE Answer(c, IF proc[c].by = "fence" THEN "wrong" ELSE "done", TRUE) /\ UNCHANGED ran
  /\ proc' = [proc EXCEPT ![c] = Nil]
  /\ UNCHANGED <<machine, gen, file, saved, sent, twice, rec>>

\* Neither ended nor fenced, and the time is up: ...
Late(c) ==
  /\ At(c, "wait") /\ proc[c].st = "running" /\ ~proc[c].fenced
  /\ Go(c, "late")
  /\ UNCHANGED <<machine, gen, cache, proc, file, client, ans, ran, twice, rec>>

\* ... the child is killed, and the answer says so whoever was faster.
TimedOut(c) ==
  /\ At(c, "late")
  /\ proc' = [proc EXCEPT ![c] = Nil]
  /\ Answer(c, "done", TRUE)
  /\ UNCHANGED <<machine, gen, file, saved, sent, ran, twice, rec>>

-----------------------------------------------------------------------------
(***************************************************************************)
(* Recovery of a lost write against the fresh guest: read back, write if   *)
(* there is nothing, read back.  A lost process is never run again.        *)
(***************************************************************************)
Reconcile(i) ==
  /\ Up /\ VerifyManifest /\ rec.at = "off" /\ fate[i] = "lost" /\ sent[i].op = "write"
  /\ rec' = [at |-> "read", id |-> i]
  /\ UNCHANGED <<machine, agent, client, ans, ran, twice>>

ReadBack ==
  /\ Up /\ rec.at = "read"
  /\ rec' = [rec EXCEPT !.at = IF file = rec.id THEN "applied" ELSE IF file = Absent THEN "write" ELSE "unresolved"]
  /\ UNCHANGED <<machine, agent, client, ans, ran, twice>>

WriteBack ==
  /\ Up /\ rec.at = "write"
  /\ file' = rec.id /\ ran' = [ran EXCEPT ![rec.id] = ran[rec.id] + 1]
  /\ rec' = [rec EXCEPT !.at = "verify"]
  /\ UNCHANGED <<machine, gen, cache, thread, proc, client, ans, twice>>

Verify ==
  /\ Up /\ rec.at = "verify"
  /\ rec' = [rec EXCEPT !.at = IF file = rec.id THEN "reexecuted" ELSE "unresolved"]
  /\ UNCHANGED <<machine, agent, client, ans, ran, twice>>

GuestNext ==
  \/ Spawn \/ BootStep \/ BootFails \/ Gone \/ Checkpoint
  \/ \E c \in Chans :
       \/ GiveUp(c)
       \/ \E i \in Ids : Replay(c, i) \/ \E op \in {"write", "exec"}, g \in 0..MaxGen : Call(c, i, op, g)
       \/ AdvanceGeneration(c) \/ Sweep(c) \/ SweepKill(c) \/ \E live \in BOOLEAN : Gate(c, live)
       \/ Denied(c) \/ FsWrite(c) \/ ProcExec(c) \/ Enter(c) \/ ChildEnds(c)
       \/ Poll(c) \/ Late(c) \/ TimedOut(c)
  \/ (\E i \in Ids : Reconcile(i)) \/ ReadBack \/ WriteBack \/ Verify

GuestSpec == GuestInit /\ [][GuestNext]_guestVars

-----------------------------------------------------------------------------
\* A request runs at most once, however its answer was lost: a replay is answered from
\* the cache, or refused, and recovery after the loss of the guest writes what is not
\* there and nothing else.  (Not so a replay that overtakes the first execution, or
\* comes after the answer was evicted.)
AtMostOnce == \A i \in Ids \ twice : ran[i] <= 1

\* A process that a fence killed is not reported as having exited, whichever of the
\* polls, the fence and the child's own end comes first.
FencedIsNotDone == \A i \in Ids : ans[i] # "wrong"

\* No VMM runs that no controller will stop.
NoOrphanVm == vmm => ctl # NoVm

\* The host knows what its guest did: nothing ran twice, no cut-short process reads as
\* finished, and no machine is left behind.
GuestAccounted == AtMostOnce /\ FencedIsNotDone /\ NoOrphanVm
=============================================================================
