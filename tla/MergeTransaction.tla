-------------------------- MODULE MergeTransaction --------------------------
(***************************************************************************)
(* Session branches and the persistent merge transaction of the workspace  *)
(* crate: merge_transaction.rs, session_lineage.rs and the git operations  *)
(* of git/lib.rs they call.  A session works on its own branch in a linked *)
(* worktree; merge_session merges it into a target branch checked out in   *)
(* the main worktree, under a record kept in .modbit/.  Every operation is *)
(* split where it touches git or the record, so a crash (or an error git   *)
(* reports) can fall between any two of those steps.                       *)
(*                                                                         *)
(* The commit graph is abstract: a commit is a number, anc[c] its ancestry *)
(* and touches[c] the files it changed.  git itself is external: Start     *)
(* merges with the outcomes `git merge` can have.                          *)
(***************************************************************************)
EXTENDS Naturals, Sequences

CONSTANTS Branches,   \* branch names; one of them is Target
          Target,     \* the branch merges go into, and the first one checked out
          Files,      \* tracked paths
          MaxCommits, \* bound: commits ever made
          MaxRounds,  \* bound: transactions ever opened
          NoTx        \* no transaction record on disk

VARIABLES tip,        \* branch -> commit, 0 while the branch does not exist
          head,       \* the branch checked out in the main worktree
          anc,        \* commit -> its ancestors, itself included
          touches,    \* commit -> files it changed
          local,      \* files with unstaged, and with staged, local changes
          merging,    \* MERGE_HEAD and the paths still unmerged in the index
          mtx,        \* the record in .modbit/merge-transaction.json
          pc,         \* the operation under way in the process, and its copy of mtx
          rounds,     \* transactions opened
          disturbed,  \* history: the checkout left the target, or a rollback was cut
                      \* short, since the record was opened
          exposed     \* history: commits made in the main worktree under a live record

mergeVars == <<tip, head, anc, touches, local, merging, mtx, pc, rounds,
              disturbed, exposed>>

Commits == DOMAIN anc
NoMerge == [head |-> 0, unmerged |-> {}]
Idle == [at |-> "idle"]
Here == tip[head]

\* The files the commits of one history changed that the other lacks.
Changed(a, b) == UNION {touches[c] : c \in anc[a] \ anc[b]}

Init ==
  /\ tip = [b \in Branches |-> IF b = Target THEN 1 ELSE 0]
  /\ head = Target
  /\ anc = <<{1}>>
  /\ touches = <<{}>>
  /\ local = [dirty |-> {}, staged |-> {}]
  /\ merging = NoMerge
  /\ mtx = NoTx
  /\ pc = Idle
  /\ rounds = 0
  /\ disturbed = FALSE
  /\ exposed = {}

-----------------------------------------------------------------------------
\* The commit a `git commit` makes on top of branch b: the next number, the
\* merge head as second parent when one is pending.
Commit(b, files, second) ==
  LET n == Len(anc) + 1
  IN  /\ n <= MaxCommits
      /\ anc' = Append(anc, {n} \cup anc[tip[b]] \cup (IF second = 0 THEN {} ELSE anc[second]))
      /\ touches' = Append(touches, files)
      /\ tip' = [tip EXCEPT ![b] = n]

Phases == {"Open", "Conflicted", "Validating", "Committed", "RolledBack"}
Terminal == {"Committed", "RolledBack"}

\* A record in any other phase refuses a new transaction.
Live == mtx # NoTx /\ mtx.phase \in Phases \ Terminal
Exposed == exposed' = IF Live THEN exposed \cup {Len(anc')} ELSE exposed

\* A `git commit -m` in the main worktree works only with nothing unmerged
\* and with something to record: a pending merge or staged changes.
CanConclude == merging.unmerged = {} /\ (merging.head # 0 \/ local.staged # {})

\* conclude_merge
ConcludeMerge ==
  /\ CanConclude
  /\ Commit(head, local.staged, merging.head)
  /\ merging' = NoMerge
  /\ local' = [local EXCEPT !.staged = {}]
  /\ Exposed

\* clone_session: a linked worktree on a new branch from the checkout's HEAD.
CloneSession(b) ==
  /\ pc = Idle /\ tip[b] = 0
  /\ tip' = [tip EXCEPT ![b] = Here]
  /\ UNCHANGED <<head, anc, touches, local, merging, mtx, pc, rounds, disturbed, exposed>>

\* open_root_session: a new branch off HEAD, checked out in the main worktree.
OpenRootSession(b) ==
  /\ pc = Idle /\ tip[b] = 0 /\ merging = NoMerge
  /\ tip' = [tip EXCEPT ![b] = Here]
  /\ head' = b
  /\ disturbed' = (disturbed \/ mtx # NoTx)
  /\ UNCHANGED <<anc, touches, local, merging, mtx, pc, rounds, exposed>>

\* commit_session_work in a linked worktree: add -A, commit.
CommitSessionWork(b, files) ==
  /\ b # head /\ b # Target /\ tip[b] # 0 /\ files # {}
  /\ Commit(b, files, 0)
  /\ UNCHANGED <<head, local, merging, mtx, pc, rounds, disturbed, exposed>>

\* commit_session_work of the root session: `add -A` also marks whatever a
\* merge left unmerged as resolved, and the commit concludes that merge.
CommitRootWork ==
  /\ pc = Idle
  /\ local.dirty \cup local.staged # {} \/ merging.head # 0
  /\ Commit(head, local.dirty \cup local.staged, merging.head)
  /\ local' = [dirty |-> {}, staged |-> {}]
  /\ merging' = NoMerge
  /\ Exposed
  /\ UNCHANGED <<head, mtx, pc, rounds, disturbed>>

\* The user or the agent edits a file of the main worktree.
EditFile(f) ==
  /\ f \notin local.dirty
  /\ local' = [local EXCEPT !.dirty = @ \cup {f}]
  /\ UNCHANGED <<tip, head, anc, touches, merging, mtx, pc, rounds, disturbed, exposed>>

-----------------------------------------------------------------------------
TxAt(source, rollbackPoint) ==
  [source |-> source, base |-> rollbackPoint, phase |-> "Open", conflicts |-> {},
   resolved |-> {}, failed |-> FALSE, commit |-> 0, asked |-> {}]

\* Mutant: the rollback point is the merge base, not the target's tip.
NewTxAtMergeBase(source) ==
  TxAt(source, CHOOSE c \in anc[tip[Target]] \cap anc[tip[source]] :
                 \A d \in anc[tip[Target]] \cap anc[tip[source]] : d <= c)

\* MergeTransaction::new, with the target's tip as the rollback point; asked
\* keeps the conflicts git first reported.
NewTx(source) == TxAt(source, tip[Target])

\* open_and_merge up to the first save: a live record refuses it, a terminal
\* one is removed; the target is checked out (git refuses while a merge is
\* unresolved or local changes are in the way) and its tip becomes the
\* rollback point.
OpenAndMerge(source) ==
  /\ pc = Idle /\ rounds < MaxRounds
  /\ ~Live
  /\ source # Target /\ tip[source] # 0
  /\ head = Target \/ (merging = NoMerge /\ local.dirty \cup local.staged = {})
  /\ head' = Target
  /\ mtx' = NewTx(source)
  /\ pc' = [at |-> "merge", tx |-> mtx']
  /\ rounds' = rounds + 1
  /\ disturbed' = FALSE
  /\ UNCHANGED <<tip, anc, touches, local, merging, exposed>>

\* start_merge: --no-ff --no-commit.  An already merged source succeeds with
\* nothing to commit; local changes in the way make git refuse, which the
\* code reports as a conflict without files; otherwise the files both sides
\* changed may conflict.
StartMerge ==
  LET src == tip[pc.tx.source]
      Refused == local.staged # {} \/ local.dirty \cap Changed(src, Here) # {}
                 \/ merging # NoMerge
      Outcome(conflicts, phase) ==
        pc' = [at |-> "outcome", tx |-> [pc.tx EXCEPT !.phase = phase, !.conflicts = conflicts,
                                                       !.asked = conflicts]]
  IN  /\ pc.at = "merge"
      /\ \/ /\ src \in anc[Here] /\ merging = NoMerge
            /\ Outcome({}, "Open")
            /\ UNCHANGED merging
         \/ /\ src \notin anc[Here] /\ Refused
            /\ Outcome(merging.unmerged, "Conflicted")
            /\ UNCHANGED merging
         \/ /\ src \notin anc[Here] /\ ~Refused
            /\ \E c \in SUBSET (Changed(src, Here) \cap Changed(Here, src)) :
                 /\ merging' = [head |-> src, unmerged |-> c]
                 /\ Outcome(c, IF c = {} THEN "Open" ELSE "Conflicted")
      /\ UNCHANGED <<tip, head, anc, touches, local, mtx, rounds, disturbed, exposed>>

\* A clean merge is concluded at once; HEAD becomes the record's commit.
ConcludeClean ==
  /\ pc.at = "outcome" /\ pc.tx.phase = "Open"
  /\ ConcludeMerge
  /\ pc' = [at |-> "outcome", tx |-> [pc.tx EXCEPT !.phase = "Validating",
                                                   !.commit = Len(anc')]]
  /\ UNCHANGED <<head, mtx, rounds, disturbed>>

\* The last save of open_and_merge, record_resolution and rollback.
SaveTx ==
  /\ pc.at = "save" \/ (pc.at = "outcome" /\ pc.tx.phase # "Open")
  /\ mtx' = pc.tx
  /\ pc' = Idle
  /\ UNCHANGED <<tip, head, anc, touches, local, merging, rounds, disturbed, exposed>>

\* record_resolution: stage the path, note it, and when it was the last one
\* go on to conclude the merge.
RecordResolution(f) ==
  LET left == mtx.conflicts \ {f}
      tx == [mtx EXCEPT !.conflicts = left, !.resolved = mtx.resolved \cup {f}]
  IN  /\ pc = Idle /\ mtx # NoTx /\ mtx.phase = "Conflicted"
      /\ local' = [dirty  |-> local.dirty \ {f},
                   staged |-> local.staged \cup (local.dirty \cap {f})]
      /\ merging' = [merging EXCEPT !.unmerged = @ \ {f}]
      /\ pc' = [at |-> IF left = {} THEN "conclude" ELSE "save", tx |-> tx]
      /\ UNCHANGED <<tip, head, anc, touches, mtx, rounds, disturbed, exposed>>

ConcludeResolved ==
  /\ pc.at = "conclude"
  /\ ConcludeMerge
  /\ pc' = [at |-> "save", tx |-> [pc.tx EXCEPT !.phase = "Validating", !.commit = Len(anc')]]
  /\ UNCHANGED <<head, mtx, rounds, disturbed>>

\* record_validation: one gate's verdict, kept with the record.
RecordValidation(passed) ==
  /\ pc = Idle /\ mtx # NoTx /\ mtx.phase = "Validating"
  /\ mtx' = [mtx EXCEPT !.failed = @ \/ ~passed]
  /\ UNCHANGED <<tip, head, anc, touches, local, merging, pc, rounds, disturbed, exposed>>

\* commit: refused while any recorded validation failed.
CommitTx ==
  /\ pc = Idle /\ mtx # NoTx /\ mtx.phase = "Validating" /\ ~mtx.failed
  /\ mtx' = [mtx EXCEPT !.phase = "Committed"]
  /\ UNCHANGED <<tip, head, anc, touches, local, merging, pc, rounds, disturbed, exposed>>

\* rollback (and recover_merge, which calls it in these two phases): `merge
\* --abort` needs a merge under way; `reset --hard` moves whatever branch is
\* checked out to the rollback point and drops local changes.  It is
\* incomplete if HEAD is still the merge commit.
RollbackConflicted ==
  /\ pc = Idle /\ mtx # NoTx /\ mtx.phase = "Conflicted"
  /\ merging.head # 0
  /\ merging' = NoMerge
  /\ pc' = [at |-> "save", tx |-> [mtx EXCEPT !.phase = "RolledBack"]]
  /\ UNCHANGED <<tip, head, anc, touches, local, mtx, rounds, disturbed, exposed>>

RollbackValidating ==
  /\ pc = Idle /\ mtx # NoTx /\ mtx.phase = "Validating"
  /\ tip' = [tip EXCEPT ![head] = mtx.base]
  /\ local' = [dirty |-> {}, staged |-> {}]
  /\ merging' = NoMerge
  /\ mtx.base # mtx.commit
  /\ pc' = [at |-> "save", tx |-> [mtx EXCEPT !.phase = "RolledBack"]]
  /\ UNCHANGED <<head, anc, touches, mtx, rounds, disturbed, exposed>>

\* A crash, or an error of git or of the disk, ends the operation where it is.
Interrupted ==
  /\ pc # Idle
  /\ pc' = Idle
  /\ disturbed' = (disturbed \/ pc.tx.phase = "RolledBack")
  /\ UNCHANGED <<tip, head, anc, touches, local, merging, mtx, rounds, exposed>>

Next ==
  \/ \E b \in Branches :
       \/ CloneSession(b)
       \/ OpenRootSession(b)
       \/ OpenAndMerge(b)
       \/ \E files \in SUBSET Files : CommitSessionWork(b, files)
  \/ \E f \in Files : EditFile(f) \/ RecordResolution(f)
  \/ \E passed \in BOOLEAN : RecordValidation(passed)
  \/ CommitRootWork
  \/ StartMerge
  \/ ConcludeClean
  \/ ConcludeResolved
  \/ SaveTx
  \/ CommitTx
  \/ RollbackConflicted
  \/ RollbackValidating
  \/ Interrupted

MergeSpec == Init /\ [][Next]_mergeVars

-----------------------------------------------------------------------------
\* A rolled back transaction left no trace on the target branch: neither its
\* merge commit nor a half finished merge.
RolledBackIsUnwound ==
  (mtx # NoTx /\ mtx.phase = "RolledBack" /\ ~disturbed)
    => mtx.commit \notin anc[tip[Target]] /\ merging = NoMerge

\* What `Committed` is documented to mean: the commit is on the target
\* branch, no gate failed, and every path git reported in conflict was
\* resolved through the record.
CommittedHasLanded ==
  (mtx # NoTx /\ mtx.phase = "Committed")
    => /\ mtx.commit \in anc[tip[Target]]
       /\ ~mtx.failed
       /\ mtx.conflicts = {} /\ mtx.asked \subseteq mtx.resolved

\* Merging, aborting and rolling back lose no commit but those made in the
\* main worktree under the record: session work and whatever the branches
\* held before the transaction stay reachable.
NothingElseIsLost ==
  Commits \ exposed \subseteq UNION {anc[tip[b]] : b \in {c \in Branches : tip[c] # 0}}

\* The merge transaction keeps its word through crashes and errors between
\* its steps (merge_transaction.rs rollback, commit, record_resolution).
MergeAccounted ==
  /\ RolledBackIsUnwound
  /\ ~disturbed => CommittedHasLanded
  /\ NothingElseIsLost

=============================================================================
