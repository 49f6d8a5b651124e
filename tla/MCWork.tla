------------------------------- MODULE MCWork -------------------------------
(***************************************************************************)
(* The parts that keep state outside the event store, one at a time, as in *)
(* MCCore: worktrees, merges, handed-off snapshots, stored output, guests, *)
(* terminals, the browser, credentials, approvals, control and the fleet.  *)
(* Shaken is a worktree under faults, Rebooted a sandbox whose VM is       *)
(* replaced.                                                               *)
(***************************************************************************)
EXTENDS Naturals, Sequences, FiniteSets, TLC

CONSTANTS c1, c2, i1, i2, r1, r2, w1, w2, p1, p2,                \* model values
          None, Garbage, Absent, Nothing, NoTx, Text, Blob

VARIABLES side, v1, v2, v3, v4, v5, v6, v7, v8, v9, v10, v11, v12, v13, v14, v15, v16,
          v17


\* Two nested directories; the text in one file imports the other.
Parent == [p \in {"d/a", "d/e/b", "d", "d/e", ""} |->
             CASE p = "d/a" -> "d" [] p = "d/e/b" -> "d/e" [] p = "d/e" -> "d" [] OTHER -> ""]
Imports == [c \in {Text, Blob} |-> IF c = Text THEN {"d/e/b"} ELSE {}]

\* Two paths, the text of one beginning with that of the other.
Texts == {<<"x">>, <<"x", "y">>}
Contracts == [c \in {"a", "b"} |-> IF c = "a" THEN {<<"x">>} ELSE {<<"x", "y">>}]

\* A designated client, and consensus of none, one or two.
Panels == {[mode |-> "designated", client |-> "m"]}
            \cup {[mode |-> "consensus", min |-> k] : k \in 0..2}

\* Channels and request ids of the guest are only compared.
Symmetry == Permutations({c1, c2}) \cup Permutations({i1, i2})

-----------------------------------------------------------------------------
Tree == INSTANCE Worktree WITH
  Paths <- {"d/a", "d/e/b"}, Contents <- {Text, Blob}, Binary <- {Blob}, Root <- "",
  DirOrder <- <<"d/e", "d", "">>, MaxRev <- 4, MaxDeltas <- 1, MaxFaults <- 0,
  tree <- v1, ledger <- v2, wsrev <- v3, saved <- v4, changes <- v5, op <- v6,
  idx <- v7, edits <- v8, ckpt <- v9, begun <- v10, unseen <- v11, foreign <- v12,
  others <- v13, faults <- v14

Shaken == INSTANCE Worktree WITH
  Paths <- {"d/a", "d/e/b"}, Contents <- {Text, Blob}, Binary <- {Blob}, Root <- "",
  DirOrder <- <<"d/e", "d", "">>, MaxRev <- 2, MaxDeltas <- 1, MaxFaults <- 1,
  tree <- v1, ledger <- v2, wsrev <- v3, saved <- v4, changes <- v5, op <- v6,
  idx <- v7, edits <- v8, ckpt <- v9, begun <- v10, unseen <- v11, foreign <- v12,
  others <- v13, faults <- v14

Merge == INSTANCE MergeTransaction WITH
  Branches <- {"main", "s", "r"}, Target <- "main", Files <- {"f"}, MaxCommits <- 4,
  MaxRounds <- 2,
  tip <- v1, head <- v2, anc <- v3, touches <- v4, local <- v5, merging <- v6,
  mtx <- v7, pc <- v8, rounds <- v9, disturbed <- v10, exposed <- v11

Handoff == INSTANCE CloudHandoff WITH
  Files <- {"f", "g"}, Contents <- {1}, Tasks <- {"t"}, Procs <- {"p"}, MaxEdits <- 3,
  MaxSnaps <- 1, Start <- [f \in {"f", "g"} |-> IF f = "f" THEN 1 ELSE 0],
  local <- v1, user <- v2, refs <- v3, snap <- v4, taken <- v5, wire <- v6,
  cloud <- v7, att <- v8, receipts <- v9, torn <- v10, budget <- v11

Output == INSTANCE OutputStore WITH
  Refs <- {r1, r2}, Writers <- {w1, w2}, Payloads <- {p1, p2}, MaxWrites <- 2,
  backend <- v1, row <- v2, bytes <- v3, meta <- v4, writing <- v5, begun <- v6,
  acked <- v7, tampered <- v8

Guest == INSTANCE GuestSandbox WITH
  Chans <- {c1, c2}, Ids <- {i1, i2}, MaxGen <- 1, CacheCap <- 1, BootSteps <- 1,
  MaxVms <- 1,
  vmm <- v1, ctl <- v2, vms <- v3, signed <- v4, gen <- v5, cache <- v6, thread <- v7,
  proc <- v8, file <- v9, saved <- v10, host <- v11, sent <- v12, fate <- v13,
  ans <- v14, ran <- v15, twice <- v16, rec <- v17

Rebooted == INSTANCE GuestSandbox WITH
  Chans <- {c1}, Ids <- {i1, i2}, MaxGen <- 1, CacheCap <- 1, BootSteps <- 1,
  MaxVms <- 2,
  vmm <- v1, ctl <- v2, vms <- v3, signed <- v4, gen <- v5, cache <- v6, thread <- v7,
  proc <- v8, file <- v9, saved <- v10, host <- v11, sent <- v12, fate <- v13,
  ans <- v14, ran <- v15, twice <- v16, rec <- v17

Pty == INSTANCE PtySessions WITH
  Names <- {"n"}, Users <- {"u", "v"}, InputCap <- 1, Chunk <- 1, MaxOutput <- 2,
  MaxLives <- 2, MaxCalls <- 3,
  table <- v1, life <- v2, child <- v3, printed <- v4, tty <- v5, buffer <- v6,
  alive <- v7, input <- v8, lock <- v9, call <- v10, seen <- v11, made <- v12

Browser == INSTANCE BrowserHost WITH
  Tasks <- {"t"}, Callers <- {"u"}, MaxLaunches <- 2, MaxPages <- 2, MaxEvents <- 1,
  MaxSlow <- 1, MaxCalls <- 2,
  sessions <- v1, lease <- v2, chrome <- v3, pending <- v4, socket <- v5,
  nextId <- v6, filed <- v7, call <- v8, lock <- v9, slow <- v10, calls <- v11,
  frames <- v12

Creds == INSTANCE CredentialLeases WITH
  Tasks <- {"t", "u"}, Refs <- {"r"}, Scopes <- {"env"}, MaxTtl <- 1, MaxNow <- 1,
  MaxWork <- 1, MaxLeases <- 2, MaxAudit <- 4,
  secrets <- v1, leases <- v2, audit <- v3, now <- v4, work <- v5, handed <- v6

Court == INSTANCE ApprovalCourt WITH
  Ids <- {"a", "b"}, Intents <- {"h", "j"}, Clients <- {},
  Policies <- {CHOOSE p \in Panels : TRUE}, Never <- Nothing, MaxRecords <- 2,
  MaxNow <- 1, MaxVotes <- 0,
  approvals <- v1, now <- v2, rulings <- v3, answer <- v4, policy <- v5,
  enrolled <- v6, votes <- v7, resolved <- v8, audit <- v9

Ballot == INSTANCE ApprovalCourt WITH
  Ids <- {}, Intents <- {}, Clients <- {"m", "n", "o"}, Policies <- Panels,
  Never <- Nothing, MaxRecords <- 0, MaxNow <- 0, MaxVotes <- 3,
  approvals <- v1, now <- v2, rulings <- v3, answer <- v4, policy <- v5,
  enrolled <- v6, votes <- v7, resolved <- v8, audit <- v9

Lease == INSTANCE ControlLeases WITH
  Scopes <- {"s"}, Sessions <- {"x", "y"}, Controllers <- {}, Nobody <- Nothing,
  Cooldown <- 1, MaxEpoch <- 5, MaxCommits <- 3, MaxActs <- 0, MaxNow <- 0,
  MaxInputs <- 0,
  active <- v1, fencing <- v2, given <- v3, commits <- v4, robbed <- v5, lease <- v6,
  stopped <- v7, acts <- v8, last <- v9, parked <- v10, until <- v11, now <- v12,
  unsaid <- v13, said <- v14, crossed <- v15, resumed <- v16

Hand == INSTANCE ControlLeases WITH
  Scopes <- {}, Sessions <- {}, Controllers <- {"x", "y"}, Nobody <- Nothing,
  Cooldown <- 2, MaxEpoch <- 0, MaxCommits <- 0, MaxActs <- 2, MaxNow <- 4,
  MaxInputs <- 2,
  active <- v1, fencing <- v2, given <- v3, commits <- v4, robbed <- v5, lease <- v6,
  stopped <- v7, acts <- v8, last <- v9, parked <- v10, until <- v11, now <- v12,
  unsaid <- v13, said <- v14, crossed <- v15, resumed <- v16

Fleet == INSTANCE AgentFleet WITH
  Agents <- {"a", "b"}, Keys <- {"k"}, MaxCursor <- 1, MaxLines <- 4, MaxFaults <- 1,
  nodes <- v1, keys <- v2, lines <- v3, core <- v4, born <- v5, ahead <- v6,
  ended <- v7, revived <- v8, faults <- v9

Tickets == INSTANCE FleetTickets WITH
  Tenants <- {"m", "n"}, Children <- {"a", "b"}, Paths <- Texts,
  WriteScope <- Contracts, Events <- {"e", "f"}, MaxCapacity <- 2, MaxTickets <- 2,
  MaxWrites <- 2, MaxItems <- 2,
  capacity <- v1, active <- v2, counter <- v3, admitted <- v4, dead <- v5,
  widest <- v6, held <- v7, writes <- v8, admissions <- v9, items <- v10, open <- v11

-----------------------------------------------------------------------------
\* The slots behind the k-th: a part that has no use for them leaves them at 0.
Spare16 == <<v17>>
Zero16 == v17 = 0
Spare14 == <<v15, v16, Spare16>>
Zero14 == v15 = 0 /\ v16 = 0 /\ Zero16
Spare12 == <<v13, v14, Spare14>>
Zero12 == v13 = 0 /\ v14 = 0 /\ Zero14
Spare11 == <<v12, Spare12>>
Zero11 == v12 = 0 /\ Zero12
Spare9 == <<v10, v11, Spare11>>
Zero9 == v10 = 0 /\ v11 = 0 /\ Zero11
Spare8 == <<v9, Spare9>>
Zero8 == v9 = 0 /\ Zero9
Spare6 == <<v7, v8, Spare8>>
Zero6 == v7 = 0 /\ v8 = 0 /\ Zero8

Init ==
  \/ side = "tree" /\ Tree!Init /\ Zero14
  \/ side = "shaken" /\ Shaken!Init /\ Zero14
  \/ side = "merge" /\ Merge!Init /\ Zero11
  \/ side = "handoff" /\ Handoff!Init /\ Zero11
  \/ side = "output" /\ Output!OutInit /\ Zero8
  \/ side = "guest" /\ Guest!GuestInit
  \/ side = "reboot" /\ Rebooted!GuestInit
  \/ side = "pty" /\ Pty!Init /\ Zero12
  \/ side = "browser" /\ Browser!Init /\ Zero12
  \/ side = "creds" /\ Creds!Init /\ Zero6
  \/ side = "court" /\ Court!Init /\ Zero9
  \/ side = "ballot" /\ Ballot!Init /\ Zero9
  \/ side = "lease" /\ Lease!Init /\ Zero16
  \/ side = "hand" /\ Hand!Init /\ Zero16
  \/ side = "fleet" /\ Fleet!Init /\ Zero9
  \/ side = "tickets" /\ Tickets!Init /\ Zero11

Next ==
  \/ side = "tree" /\ Tree!Next /\ UNCHANGED <<side, Spare14>>
  \/ side = "shaken" /\ Shaken!Next /\ UNCHANGED <<side, Spare14>>
  \/ side = "merge" /\ Merge!Next /\ UNCHANGED <<side, Spare11>>
  \/ side = "handoff" /\ Handoff!Next /\ UNCHANGED <<side, Spare11>>
  \/ side = "output" /\ Output!OutNext /\ UNCHANGED <<side, Spare8>>
  \/ side = "guest" /\ Guest!GuestNext /\ UNCHANGED side
  \/ side = "reboot" /\ Rebooted!GuestNext /\ UNCHANGED side
  \/ side = "pty" /\ Pty!Next /\ UNCHANGED <<side, Spare12>>
  \/ side = "browser" /\ Browser!Next /\ UNCHANGED <<side, Spare12>>
  \/ side = "creds" /\ Creds!Next /\ UNCHANGED <<side, Spare6>>
  \/ side = "court" /\ Court!Next /\ UNCHANGED <<side, Spare9>>
  \/ side = "ballot" /\ Ballot!Next /\ UNCHANGED <<side, Spare9>>
  \/ side = "lease" /\ Lease!Next /\ UNCHANGED <<side, Spare16>>
  \/ side = "hand" /\ Hand!Next /\ UNCHANGED <<side, Spare16>>
  \/ side = "fleet" /\ Fleet!Next /\ UNCHANGED <<side, Spare9>>
  \/ side = "tickets" /\ Tickets!Next /\ UNCHANGED <<side, Spare11>>

vars == <<side, v1, v2, v3, v4, v5, v6, v7, v8, v9, v10, v11, v12, v13, v14, v15,
          v16, v17>>
Spec == Init /\ [][Next]_vars

-----------------------------------------------------------------------------
\* The ledger, the edit journal, the index and the checkpoints of a worktree agree
\* with its files, but for what faults and other writers explain (workspace,
\* retrieval).
WorktreeFaithful == /\ side = "tree" => Tree!WorktreeFaithful
                    /\ side = "shaken" => Shaken!WorktreeFaithful

\* A merge is rolled back to where its target was, and a task that moves to the
\* cloud arrives as it was captured or not at all (merge_transaction.rs, snapshot.rs,
\* cloud_attach.rs).
CodeMovesExact == /\ side = "merge" => Merge!MergeAccounted
                  /\ side = "handoff" => Handoff!HandoffExact

\* A read of stored output returns what was written or fails, through crashes and a
\* change of backend; a guest's requests run once and none is left behind; a
\* terminal's output is complete and its children owned; a browser answers the
\* caller that asked; a credential leaves the broker under a lease that stands; an
\* approval is live just while the last word on it says so and follows from its votes;
\* a lease that was lost commits nothing (event-store, sandbox, terminal, browser,
\* secrets, policy, checkpoint).
HostedWorkSound == /\ side = "output" => Output!ReadsFailClosed /\ Output!AckedIsReadable
                   /\ side = "guest" => Guest!GuestAccounted
                   /\ side = "reboot" => Rebooted!GuestAccounted
                   /\ side = "pty" => Pty!PtySound
                   /\ side = "browser" => Browser!BrowserSound
                   /\ side = "creds" => Creds!CredentialsSound
                   /\ side = "court" => Court!CourtSound
                   /\ side = "ballot" => Ballot!CourtSound
                   /\ side = "lease" => Lease!ControlSound
                   /\ side = "hand" => Hand!ControlSound

\* The agent graph keeps lineage, identity, keys and cancellations through failed
\* writes and restarts (agent_fleet.rs), and no ticket of a tenant's capacity leaks
\* (fleet_admission.rs).
FleetSound == /\ side = "fleet" => Fleet!FleetSound
              /\ side = "tickets" => Tickets!TicketsSound
=============================================================================
