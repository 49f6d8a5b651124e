---------------------------- MODULE CloudHandoff ----------------------------
(***************************************************************************)
(* The local-to-cloud checkpoint handoff: git/snapshot.rs captures a dirty *)
(* workspace on a ref of its own, checkpoint/cloud_attach.rs packs it and  *)
(* attaches it in another repository, surface.rs serves the attach.        *)
(*                                                                         *)
(* Every git command is one step, because git locks the index per command  *)
(* only: the user works in the local repository meanwhile, and the cloud   *)
(* host serves one attach per connection (Procs), all on one checkout.     *)
(* A tree maps each file to its content, 0 for an absent file.             *)
(***************************************************************************)
EXTENDS Naturals, Sequences

CONSTANTS Files, Contents,  \* Contents: positive numbers
          Tasks,            \* task ids a bundle may be made or attached for
          Procs,            \* attach requests served by the cloud host
          MaxEdits,         \* bound: changes the user and the cloud side make
          MaxSnaps,         \* bound: snapshots taken
          Start             \* the tree both repositories start from

VARIABLES local,    \* [head, index, work, commits]: the user's repository
          user,     \* history: the index as the user's own commands left it
          refs,     \* snapshot refs of the local repository: name -> snapshot id
          snap,     \* create_snapshot under way
          taken,    \* history: per snapshot id its task, tree and base commit
          wire,     \* bundles sent, each with its bytes intact or not
          cloud,    \* [head, index, work, refs]: the host's base repository
          att,      \* attach requests under way, and the worktree each one verified
          receipts, \* history: receipts given, with the worktree they vouched for
          torn,     \* history: a snapshot was cut short, or raced with a `git add`
          budget    \* edits made

handoffVars == <<local, user, refs, snap, taken, wire, cloud, att, receipts, torn, budget>>

Trees == [Files -> {0} \cup Contents]
Idle == [at |-> "idle"]

Init ==
  /\ local = [head |-> Start, index |-> Start, work |-> Start, commits |-> 1]
  /\ user = Start
  /\ refs = <<>>
  /\ snap = Idle
  /\ taken = <<>>
  /\ wire = {}
  /\ cloud = [head |-> Start, index |-> Start, work |-> Start, refs |-> <<>>]
  /\ att = [p \in Procs |-> Idle]
  /\ receipts = {}
  /\ torn = FALSE
  /\ budget = 0

Spend == budget < MaxEdits /\ budget' = budget + 1
Put(fun, k, v) == [x \in DOMAIN fun \cup {k} |-> IF x = k THEN v ELSE fun[x]]

-----------------------------------------------------------------------------
(* The user's repository.                                                  *)

Edit(f, c) ==
  /\ Spend /\ local.work[f] # c
  /\ local' = [local EXCEPT !.work[f] = c]
  /\ UNCHANGED <<user, refs, snap, taken, wire, cloud, att, receipts, torn>>

\* `git add f`; inside the snapshot's window read-tree will undo it.
Stage(f) ==
  /\ user[f] # local.work[f]
  /\ local' = [local EXCEPT !.index[f] = local.work[f]]
  /\ user' = [user EXCEPT ![f] = local.work[f]]
  /\ torn' = (torn \/ snap # Idle)
  /\ UNCHANGED <<refs, snap, taken, wire, cloud, att, receipts, budget>>

\* `git commit`
CommitIndex ==
  /\ local.index # local.head /\ snap = Idle
  /\ local' = [local EXCEPT !.head = local.index, !.commits = local.commits + 1]
  /\ UNCHANGED <<user, refs, snap, taken, wire, cloud, att, receipts, torn, budget>>

-----------------------------------------------------------------------------
(* create_snapshot and the local half of the handoff.                      *)

\* head, then the caller's index as a tree.
SnapBegin(t) ==
  /\ snap = Idle /\ Len(taken) < MaxSnaps
  /\ snap' = [at |-> "add", task |-> t, base |-> local.commits, orig |-> local.index,
              dirty |-> local.index]
  /\ UNCHANGED <<local, user, refs, taken, wire, cloud, att, receipts, torn, budget>>

\* add -A
SnapAdd ==
  /\ snap.at = "add"
  /\ local' = [local EXCEPT !.index = local.work]
  /\ snap' = [snap EXCEPT !.at = "write"]
  /\ UNCHANGED <<user, refs, taken, wire, cloud, att, receipts, torn, budget>>

\* write-tree
SnapWrite ==
  /\ snap.at = "write"
  /\ snap' = [snap EXCEPT !.at = "read", !.dirty = local.index]
  /\ UNCHANGED <<local, user, refs, taken, wire, cloud, att, receipts, torn, budget>>

\* read-tree of the caller's index
SnapRead ==
  /\ snap.at = "read"
  /\ local' = [local EXCEPT !.index = snap.orig]
  /\ snap' = [snap EXCEPT !.at = "ref"]
  /\ UNCHANGED <<user, refs, taken, wire, cloud, att, receipts, torn, budget>>

\* Nothing to snapshot, or commit-tree and update-ref; the ref is named for
\* the task and the tree, so the same state taken again moves the same ref.
SnapRef ==
  LET id == Len(taken) + 1
  IN  /\ snap.at = "ref"
      /\ snap' = Idle
      /\ IF snap.dirty = local.head
           THEN UNCHANGED <<refs, taken>>
           ELSE /\ taken' = Append(taken, [task |-> snap.task, tree |-> snap.dirty,
                                           base |-> snap.base])
                /\ refs' = Put(refs, <<snap.task, snap.dirty>>, id)
      /\ UNCHANGED <<local, user, wire, cloud, att, receipts, torn, budget>>

\* A git command fails or the process dies: the index stays as it is.
SnapStops ==
  /\ snap # Idle
  /\ snap' = Idle
  /\ torn' = (torn \/ snap.at \in {"write", "read"})
  /\ UNCHANGED <<local, user, refs, taken, wire, cloud, att, receipts, budget>>

Name(id) == <<taken[id].task, taken[id].tree>>

\* export_snapshot_bundle: the bytes carry everything the ref reaches.
Bundle(id, intact) == [id |-> id, intact |-> intact]

\* export_checkpoint_bundle: the bundle of a ref that is still there, with
\* its digest; the transfer may damage the bytes.
Export(id, intact) ==
  /\ Name(id) \in DOMAIN refs /\ refs[Name(id)] = id
  /\ wire' = wire \cup {Bundle(id, intact)}
  /\ UNCHANGED <<local, user, refs, snap, taken, cloud, att, receipts, torn, budget>>

\* cleanup_snapshot and cleanup_all_snapshots
Cleanup(names) ==
  /\ names # {} /\ names \subseteq DOMAIN refs
  /\ refs' = [n \in DOMAIN refs \ names |-> refs[n]]
  /\ UNCHANGED <<local, user, snap, taken, wire, cloud, att, receipts, torn, budget>>

-----------------------------------------------------------------------------
(* attach_checkpoint_bundle on the cloud host's repository.                *)

Step(p, at) == att' = [att EXCEPT ![p].at = at]
LocalSide == <<local, user, refs, snap, taken, wire, torn, budget>>

\* Someone else writes in the checkout: an untracked or modified file.
CloudEdit(f, c) ==
  /\ Spend /\ cloud.work[f] # c
  /\ cloud' = [cloud EXCEPT !.work[f] = c]
  /\ UNCHANGED <<local, user, refs, snap, taken, wire, att, receipts, torn>>

\* validate_handoff, the task binding, the transfer digest: a bundle for
\* another task, or with damaged bytes, is refused before git sees it.
AttachBegin(p, b, t) ==
  /\ att[p] = Idle
  /\ taken[b.id].task = t
  /\ b.intact
  /\ att' = [att EXCEPT ![p] = [at |-> "import", id |-> b.id, task |-> t, seen |-> Start]]
  /\ UNCHANGED <<local, user, refs, snap, taken, wire, cloud, receipts, torn, budget>>

\* import_snapshot_bundle: the fetch refuses to move a ref to another commit.
AttachImport(p) ==
  LET n == Name(att[p].id)
  IN  /\ att[p].at = "import"
      /\ n \in DOMAIN cloud.refs => cloud.refs[n] = att[p].id
      /\ cloud' = [cloud EXCEPT !.refs = Put(cloud.refs, n, att[p].id)]
      /\ Step(p, "read")
      /\ UNCHANGED <<LocalSide, receipts>>

\* restore_snapshot: read-tree, checkout-index -a -f, then the files HEAD has
\* and the snapshot has not are removed.
AttachRead(p) ==
  /\ att[p].at = "read"
  /\ cloud' = [cloud EXCEPT !.index = taken[att[p].id].tree]
  /\ Step(p, "checkout")
  /\ UNCHANGED <<LocalSide, receipts>>

AttachCheckout(p) ==
  /\ att[p].at = "checkout"
  /\ cloud' = [cloud EXCEPT !.work = [f \in Files |-> IF cloud.index[f] # 0 THEN cloud.index[f]
                                                   ELSE cloud.work[f]]]
  /\ Step(p, "remove")
  /\ UNCHANGED <<LocalSide, receipts>>

AttachRemove(p) ==
  /\ att[p].at = "remove"
  /\ cloud' = [cloud EXCEPT !.work = [f \in Files |->
              IF cloud.head[f] # 0 /\ taken[att[p].id].tree[f] = 0 THEN 0 ELSE cloud.work[f]]]
  /\ Step(p, "verify")
  /\ UNCHANGED <<LocalSide, receipts>>

\* verify_snapshot: add -A, then write-tree compared with the recorded tree;
\* the index goes back to HEAD either way.
AttachVerify(p) ==
  /\ att[p].at = "verify"
  /\ cloud' = [cloud EXCEPT !.index = cloud.work]
  /\ att' = [att EXCEPT ![p].at = "compare", ![p].seen = cloud.work]
  /\ UNCHANGED <<LocalSide, receipts>>

\* Mutant: the reconstruction is asserted, not compared.
ReceiptAsserted(p) == TRUE

\* The receipt is given only if the re-derived tree is the recorded one.
Reproduced(p) == cloud.index = taken[att[p].id].tree

AttachCompare(p) ==
  /\ att[p].at = "compare"
  /\ cloud' = [cloud EXCEPT !.index = cloud.head]
  /\ receipts' = IF Reproduced(p)
                   THEN receipts \cup {[id |-> att[p].id, task |-> att[p].task,
                                        work |-> att[p].seen]}
                   ELSE receipts
  /\ att' = [att EXCEPT ![p] = Idle]
  /\ UNCHANGED LocalSide

\* Any stage may fail closed, or the host dies.
AttachStops(p) ==
  /\ att[p] # Idle
  /\ att' = [att EXCEPT ![p] = Idle]
  /\ UNCHANGED <<LocalSide, cloud, receipts>>

Next ==
  \/ \E f \in Files, c \in {0} \cup Contents : Edit(f, c) \/ CloudEdit(f, c)
  \/ \E f \in Files : Stage(f)
  \/ CommitIndex
  \/ \E t \in Tasks : SnapBegin(t)
  \/ SnapAdd \/ SnapWrite \/ SnapRead \/ SnapRef \/ SnapStops
  \/ \E id \in DOMAIN taken, intact \in BOOLEAN : Export(id, intact)
  \/ \E names \in SUBSET DOMAIN refs : Cleanup(names)
  \/ \E p \in Procs :
       \/ \E b \in wire, t \in Tasks : AttachBegin(p, b, t)
       \/ AttachImport(p) \/ AttachRead(p) \/ AttachCheckout(p) \/ AttachRemove(p)
       \/ AttachVerify(p) \/ AttachCompare(p) \/ AttachStops(p)

HandoffSpec == Init /\ [][Next]_handoffVars

-----------------------------------------------------------------------------
\* A receipt vouches for the exact dirty state captured for that task.
ReceiptsAreExact ==
  \A r \in receipts : r.task = taken[r.id].task /\ r.work = taken[r.id].tree

\* The user's staging survives a snapshot, whatever became of it, unless it
\* was cut short between add -A and read-tree or raced with the user's add.
StagingSurvives ==
  (~torn /\ (snap = Idle \/ snap.at \in {"add", "ref"})) => local.index = user

\* A snapshot ref holds what its name says, and a bundle the snapshot it names.
RefsAreBound ==
  /\ \A n \in DOMAIN refs : Name(refs[n]) = n
  /\ \A n \in DOMAIN cloud.refs : Name(cloud.refs[n]) = n

\* The handoff leaves the user's index alone and reconstructs exactly or not
\* at all (create_snapshot, attach_checkpoint_bundle).
HandoffExact == ReceiptsAreExact /\ StagingSurvives /\ RefsAreBound

=============================================================================
