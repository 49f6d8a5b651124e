------------------------------ MODULE Worktree ------------------------------
(***************************************************************************)
(* The worktree of a run: the file service with its revision ledger and    *)
(* change journal (workspace/lib.rs), the edit tools and the checkpoint    *)
(* writer of the scheduler (scheduler.rs), and the repository index that   *)
(* is kept fresh from the journal (retrieval/task_index.rs, merkle.rs,     *)
(* dependencies.rs).  One thread runs the tools, so operations do not      *)
(* overlap; commands started by shell.run write behind the service, a call *)
(* of the filesystem may fail, and the core may crash between two steps.   *)
(***************************************************************************)
EXTENDS Naturals, Sequences, SequencesExt

CONSTANTS
  Paths, Contents,
  Binary,     \* contents with a NUL byte: not indexed
  Imports,    \* by content, the paths it imports
  Root,       \* the pseudo-directory of the top level
  DirOrder,   \* the directories, children before parents
  Parent,     \* directory of a path or of a directory; Root's is Root
  MaxRev,     \* bound: workspace revisions
  MaxFaults,  \* bound: writes of commands, failed calls, restarts
  MaxDeltas,  \* edits a persisted checkpoint can hold (MAX_JOURNAL_BYTES)
  Nothing

VARIABLES
  tree,     \* the files on disk
  ledger,   \* revision map in memory: revision, fingerprint and deletion by path
  wsrev,    \* workspace revision in memory
  saved,    \* revisions.json
  changes,  \* changes.jsonl
  op,       \* the operation under way
  idx,      \* the repository index
  edits,    \* the run's edit journal: first content and last content by path, edits
  ckpt,     \* its last persisted copy
  begun,    \* the files when the run began
  unseen,   \* paths whose last change will have no event in the journal
  foreign,  \* paths whose content the service did not write or adopt last
  others,   \* paths changed in this run other than by a change.apply that succeeded
  faults    \* writes of commands, failed calls and restarts so far

treeVars == <<tree, ledger, wsrev, saved, changes, op, idx, edits, ckpt, begun, unseen, foreign, others, faults>>

Maybe(S) == S \cup {Nothing}
Dirs     == ToSet(DirOrder)
AtRest   == op = Nothing
NoRecord == [rev |-> 0, sha |-> Nothing, deleted |-> TRUE]
NoEdits  == [first |-> [p \in Paths |-> Nothing], last |-> [p \in Paths |-> Nothing], n |-> 0]

-----------------------------------------------------------------------------
(***************************************************************************)
(* The index.  A digest is the thing digested: a content for a file, the   *)
(* named children for a directory.                                         *)
(***************************************************************************)
IsIndexable(c) == c # Nothing /\ c \notin Binary

ComputeDir(m, d) ==
  <<d, {<<p, m.leaves[p]>> : p \in {q \in Paths : Parent[q] = d /\ m.leaves[q] # Nothing}}
       \cup {<<s, m.dirs[s]>> : s \in {e \in Dirs : Parent[e] = d /\ m.dirs[e] # Nothing}}>>

\* A directory has a digest as long as it has a file or a subdirectory.
Kept(m, d) ==
  \/ \E p \in Paths : Parent[p] = d /\ m.leaves[p] # Nothing
  \/ \E s \in Dirs \ {d} : Parent[s] = d /\ m.dirs[s] # Nothing

\* The directories above a path.  The top level is one of them only for a file in it.
Ancestors(p) ==
  {d \in Dirs : \E s \in Dirs : s = Parent[p] /\ (d = s \/ d = Parent[s] \/ d = Parent[Parent[s]])}
    \ (IF Parent[p] = Root THEN {} ELSE {Root})

Digest(m, d) == IF Kept(m, d) THEN ComputeDir(m, d) ELSE Nothing

\* The touched directories, deepest first.
Digests(leaves, dirs, touched) ==
  FoldLeft(LAMBDA acc, d : IF d \notin touched THEN acc
                           ELSE [acc EXCEPT ![d] = Digest([leaves |-> leaves, dirs |-> acc], d)],
           dirs, DirOrder)

Recompute(leaves, dirs, touched) == [leaves |-> leaves, dirs |-> Digests(leaves, dirs, touched)]

MerkleBuild(files) ==
  Recompute(files, [d \in Dirs |-> Nothing],
            UNION {Ancestors(p) : p \in {q \in Paths : files[q] # Nothing}})

RootDigest(m) == ComputeDir(m, Root)

\* apply_changes: the leaves move, and the directories above them are recomputed.
ApplyChanges(m, fresh, touched) ==
  Recompute([p \in Paths |-> IF p \in touched THEN fresh[p] ELSE m.leaves[p]], m.dirs,
            UNION {Ancestors(p) : p \in touched})

\* Edges of a file to the indexed files it imports.
EdgesOf(p, c, known) == {<<p, q>> : q \in (Imports[c] \cap known) \ {p}}

\* walk_worktree and the cold build.
Indexed(files) == [p \in Paths |-> IF IsIndexable(files[p]) THEN files[p] ELSE Nothing]
Known(leaves)  == {p \in Paths : leaves[p] # Nothing}

BuildAt(files, rev) ==
  LET leaves == Indexed(files)
  IN  [merkle |-> MerkleBuild(leaves),
       edges |-> UNION {EdgesOf(p, leaves[p], Known(leaves)) : p \in Known(leaves)},
       rev |-> rev]

\* The last event of a path says that it is there.
Live(events, p) ==
  \E e \in events : e.path = p /\ ~e.deleted /\ \A f \in events : f.path = p => f.at <= e.at

\* apply_delta: the last event of a path decides; what is on disk now is what is indexed.
ApplyDelta(i, events, rev) ==
  LET touched == {e.path : e \in events}
      fresh   == [p \in Paths |-> IF Live(events, p) /\ IsIndexable(tree[p]) THEN tree[p] ELSE Nothing]
      merkle  == ApplyChanges(i.merkle, fresh, touched)
      known   == Known(merkle.leaves)
      moved   == {p \in touched : fresh[p] # Nothing}
      stay    == {e \in i.edges : e[1] \notin touched /\ e[2] \in known}
  IN  [merkle |-> merkle, edges |-> stay \cup UNION {EdgesOf(p, fresh[p], known) : p \in moved}, rev |-> rev]

\* Events of the journal the index has not folded in.
Pending == {e \in {[path |-> changes[n].path, deleted |-> changes[n].deleted, ws |-> changes[n].ws, at |-> n]
                    : n \in DOMAIN changes} : e.ws > idx.rev}

\* refresh_from_journal: what a refresh leaves of the index.
Refreshed ==
  IF Pending = {} THEN idx
  ELSE ApplyDelta(idx, Pending, CHOOSE w \in {e.ws : e \in Pending} : \A e \in Pending : e.ws <= w)

-----------------------------------------------------------------------------
Init ==
  /\ tree \in [Paths -> Maybe(Contents)] /\ begun = tree
  /\ ledger = [p \in Paths |-> NoRecord] /\ wsrev = 0
  /\ saved = [files |-> ledger, rev |-> 0]
  /\ changes = <<>> /\ op = Nothing
  /\ idx = BuildAt(tree, 0)
  /\ edits = NoEdits /\ ckpt = NoEdits
  /\ unseen = {} /\ foreign = Paths /\ others = {} /\ faults = 0

-----------------------------------------------------------------------------
(***************************************************************************)
(* The file service.  An operation changes the disk, then the ledger in    *)
(* memory and on disk, then appends its events.                            *)
(***************************************************************************)
Tracked(p)  == ~ledger[p].deleted
Revision(p) == IF Tracked(p) THEN ledger[p].rev ELSE 0

\* An operation on the files ps (several in a transaction), at the n-th; `rev' is the
\* revision it expects, `seen' the content it was computed from.
Begin(kind, ps, q, c) ==
  /\ AtRest /\ wsrev + Len(ps) <= MaxRev
  /\ op' = [kind |-> kind, ps |-> ps, n |-> 1, to |-> q, bytes |-> c, rev |-> Revision(ps[1]),
            seen |-> tree[ps[1]], at |-> "touch"]

\* create, replace with the current revision (apply_patch computes its content), delete
\* and move_file.
Start(kind, p, q, c) ==
  /\ kind = "create" => tree[p] = Nothing
  /\ kind \in {"delete", "move"} => tree[p] # Nothing
  /\ kind \in {"create", "replace"} <=> c # Nothing
  /\ kind = "move" <=> p # q
  /\ Begin(kind, <<p>>, q, c)
  /\ UNCHANGED <<tree, ledger, wsrev, saved, changes, idx, edits, ckpt, begun, unseen, foreign, others, faults>>

Record(p, c) == [ledger EXCEPT ![p] = [rev |-> ledger[p].rev + 1, sha |-> c, deleted |-> FALSE]]

\* adopt: an untracked file on disk enters the ledger; no event tells of it.  A read, a
\* proposal and an edit start with it.
Adopt(p) ==
  IF tree[p] = Nothing \/ Tracked(p)
  THEN UNCHANGED <<ledger, wsrev, saved, foreign>>
  ELSE /\ ledger' = Record(p, tree[p]) /\ wsrev' = wsrev + 1
       /\ saved' = [files |-> ledger', rev |-> wsrev']
       /\ foreign' = foreign \ {p}

FsRead(p) ==
  /\ AtRest /\ wsrev < MaxRev /\ tree[p] # Nothing /\ ~Tracked(p)
  /\ Adopt(p)
  /\ UNCHANGED <<tree, changes, op, idx, edits, ckpt, begun, unseen, others, faults>>

\* change.apply: adopt, read, check the unique match, then replace with the revision read.
ChangeApply(p, c) ==
  /\ AtRest /\ wsrev + 2 <= MaxRev /\ tree[p] \notin {Nothing, c}
  /\ Adopt(p)
  /\ op' = [kind |-> "apply", ps |-> <<p>>, n |-> 1, to |-> p, bytes |-> c, rev |-> ledger'[p].rev,
            seen |-> tree[p], at |-> "touch"]
  /\ UNCHANGED <<tree, changes, idx, edits, ckpt, begun, unseen, others, faults>>

\* apply_transaction: the revision of every file is checked before the first is replaced.
Transaction(ps, c) ==
  /\ \A n \in DOMAIN ps : Tracked(ps[n]) /\ tree[ps[n]] # Nothing
  /\ Begin("txn", ps, ps[1], c)
  /\ UNCHANGED <<tree, ledger, wsrev, saved, changes, idx, edits, ckpt, begun, unseen, foreign, others, faults>>

Fault(b) == IF b THEN faults < MaxFaults /\ faults' = faults + 1 ELSE UNCHANGED faults

path  == op.ps[op.n]
Files == ToSet(op.ps) \cup {op.to}
Wrote == {path} \cup (IF op.kind = "move" THEN {op.to} ELSE {})

\* The disk changes, file by file.  A stale revision, or a file a command took away, ends
\* the operation.  A moved file carries what the service knows of it.
Stale == \/ op.kind \in {"replace", "apply"} /\ Revision(path) # op.rev
         \/ op.kind \in {"delete", "move"} /\ tree[path] = Nothing

Touch ==
  /\ op # Nothing /\ op.at = "touch"
  /\ IF Stale
     THEN op' = Nothing /\ UNCHANGED <<tree, unseen, foreign, others>>
     ELSE /\ tree' = IF op.kind = "move" THEN [tree EXCEPT ![op.to] = tree[path], ![path] = Nothing]
                     ELSE [tree EXCEPT ![path] = op.bytes]
          /\ op' = IF op.n < Len(op.ps) THEN [op EXCEPT !.n = op.n + 1] ELSE [op EXCEPT !.n = 1, !.at = "commit"]
          /\ unseen' = unseen \ Wrote
          /\ foreign' = IF op.kind = "move" /\ path \in foreign THEN foreign \cup {op.to} ELSE foreign \ Wrote
          /\ others' = IF op.kind = "apply" THEN others ELSE others \cup Wrote
  /\ UNCHANGED <<ledger, wsrev, saved, changes, idx, edits, ckpt, begun, faults>>

Tombstone(p, c) == [rev |-> ledger[p].rev + 1, sha |-> c, deleted |-> TRUE]

\* Mutant: a move leaves the record of the target as it was.
RecordedMoveSource ==
  IF op.kind = "delete" THEN [ledger EXCEPT ![path] = Tombstone(path, Nothing)]
  ELSE IF op.kind = "move" THEN [ledger EXCEPT ![path] = Tombstone(path, ledger[path].sha)]
  ELSE Record(path, op.bytes)

\* The ledger after the operation.  A move gives the target the record of the source, its
\* fingerprint included, and the source a tombstone.
Recorded ==
  CASE op.kind = "delete" -> [ledger EXCEPT ![path] = Tombstone(path, Nothing)]
    [] op.kind = "move"   -> [ledger EXCEPT ![path] = Tombstone(path, ledger[path].sha),
                                            ![op.to] = [rev |-> ledger[path].rev + 1, sha |-> ledger[path].sha,
                                                        deleted |-> FALSE]]
    [] OTHER              -> Record(path, op.bytes)

\* save_revisions.  If it fails the operation ends in an error: the disk and the ledger in
\* memory have changed, revisions.json has not, and there will be no event.
Commit(ok) ==
  /\ op # Nothing /\ op.at = "commit" /\ Fault(~ok)
  /\ ledger' = Recorded /\ wsrev' = wsrev + 1
  /\ IF ok
     THEN /\ saved' = [files |-> ledger', rev |-> wsrev']
          /\ op' = IF op.n < Len(op.ps) THEN [op EXCEPT !.n = op.n + 1]
                   ELSE IF op.kind = "txn" THEN Nothing
                   ELSE [op EXCEPT !.at = "emit"]
          /\ unseen' = IF op.kind = "txn" THEN unseen \cup {path} ELSE unseen
          /\ UNCHANGED <<foreign, others>>
     ELSE /\ op' = Nothing /\ UNCHANGED saved
          /\ unseen' = unseen \cup Files /\ foreign' = foreign \cup (Files \ {path, op.to})
          /\ others' = others \cup Files
  /\ UNCHANGED <<tree, changes, idx, edits, ckpt, begun>>

\* emit_event.  A move is a deletion and a creation with one workspace revision.
Event(p, deleted) == [path |-> p, deleted |-> deleted, ws |-> wsrev]

Emit(ok) ==
  /\ op # Nothing /\ op.at = "emit" /\ Fault(~ok)
  /\ IF ok
     THEN /\ changes' = changes \o (IF op.kind = "move" THEN <<Event(path, TRUE), Event(op.to, FALSE)>>
                                    ELSE <<Event(path, op.kind = "delete")>>)
          /\ op' = IF op.kind = "apply" THEN [op EXCEPT !.at = "journal"] ELSE Nothing
          /\ UNCHANGED <<unseen, others>>
     ELSE /\ op' = Nothing /\ UNCHANGED changes
          /\ unseen' = unseen \cup Files /\ others' = others \cup Files
  /\ UNCHANGED <<tree, ledger, wsrev, saved, idx, edits, ckpt, begun, foreign>>

\* WorktreeJournalWriter::record: the first content of a path is its baseline; a journal
\* past the bound is no longer persisted.
JournalEdit ==
  /\ op # Nothing /\ op.at = "journal"
  /\ edits' = [first |-> [edits.first EXCEPT ![path] = IF edits.first[path] = Nothing THEN op.seen
                                                         ELSE edits.first[path]],
               last  |-> [edits.last EXCEPT ![path] = op.bytes], n |-> edits.n + 1]
  /\ ckpt' = IF edits'.n > MaxDeltas THEN ckpt ELSE edits'
  /\ op' = [op EXCEPT !.at = "refresh"]
  /\ UNCHANGED <<tree, ledger, wsrev, saved, changes, idx, begun, unseen, foreign, others, faults>>

\* A path is seen again when a refresh reads its current content.
SeenAgain == {p \in Paths : Live(Pending, p)}

RefreshIndex ==
  /\ idx' = Refreshed /\ op' = Nothing
  /\ unseen' = unseen \ SeenAgain
  /\ UNCHANGED <<tree, ledger, wsrev, saved, changes, edits, ckpt, begun, foreign, others, faults>>

\* The last step of change.apply.
AfterEdit == op # Nothing /\ op.at = "refresh" /\ RefreshIndex

\* Every query, and the end of a turn, folds the journal in before the index is read.
Query == AtRest /\ Pending # {} /\ RefreshIndex

-----------------------------------------------------------------------------
\* A command writes, or removes, a file behind the service.
Shell(p, c) ==
  /\ tree[p] # c /\ Fault(TRUE)
  /\ tree' = [tree EXCEPT ![p] = c]
  /\ unseen' = unseen \cup {p} /\ foreign' = foreign \cup {p} /\ others' = others \cup {p}
  /\ UNCHANGED <<ledger, wsrev, saved, changes, op, idx, edits, ckpt, begun>>

\* The core ends and a resumed run opens the worktree: the ledger is read back, the index
\* is built by a walk, the edit journal starts empty.
Restart ==
  /\ Fault(TRUE)
  /\ ledger' = saved.files /\ wsrev' = saved.rev
  /\ foreign' = foreign \cup {p \in Paths : saved.files[p] # ledger[p]}
                        \cup (IF op # Nothing /\ op.at \in {"touch", "commit"} THEN Files ELSE {})
  /\ idx' = BuildAt(tree, saved.rev)
  /\ op' = Nothing /\ edits' = NoEdits /\ ckpt' = NoEdits
  /\ begun' = tree /\ unseen' = {} /\ others' = {}
  /\ <<op, edits, idx>> # <<Nothing, NoEdits, idx'>>
  /\ UNCHANGED <<tree, saved, changes>>

Next ==
  \/ \E kind \in {"create", "replace", "delete", "move"}, p, q \in Paths, c \in Maybe(Contents) : Start(kind, p, q, c)
  \/ \E p \in Paths, c \in Contents : ChangeApply(p, c)
  \/ \E p, q \in Paths, c \in Contents : p # q /\ Transaction(<<p, q>>, c)
  \/ \E p \in Paths : FsRead(p)
  \/ Touch \/ JournalEdit \/ AfterEdit \/ Query \/ Restart
  \/ \E ok \in BOOLEAN : Commit(ok) \/ Emit(ok)
  \/ \E p \in Paths, c \in Maybe(Contents) : Shell(p, c)

TreeSpec == Init /\ [][Next]_treeVars

-----------------------------------------------------------------------------
\* Between operations the ledger names the content on disk, except of files written behind
\* the service or by an operation that did not finish.
LedgerNames ==
  AtRest => \A p \in Paths \ foreign : Tracked(p) => ledger[p].sha = tree[p]

\* No workspace revision is given to two changes: the journal never runs ahead of
\* revisions.json, whatever failed or crashed in between.
RevisionsAreFresh ==
  /\ \A n \in DOMAIN changes : changes[n].ws <= saved.rev
  /\ \A m, n \in DOMAIN changes : m < n => \/ changes[m].ws < changes[n].ws
                                           \/ changes[m].ws = changes[n].ws /\ changes[m].deleted

\* The index equals a cold build of what is on disk, but for paths changed without an
\* event, changes not yet folded in and the operation under way: its leaves path by path, its directory digests when
\* there is no such path, and every import edge is one a cold build would find.  The root
\* is compared only where no file lies at the top level (see RootIsColdBuild).
Behind == unseen \cup {e.path : e \in Pending} \cup (IF AtRest THEN {} ELSE Files)

LeavesAreCold == \A p \in Paths \ Behind : idx.merkle.leaves[p] = Indexed(tree)[p]
EdgesAreCold  == Behind = {} => idx.edges \subseteq BuildAt(tree, 0).edges
DirsAreCold   ==
  Behind = {} => \A d \in Dirs \ {Root} : idx.merkle.dirs[d] = BuildAt(tree, 0).merkle.dirs[d]

IndexIsColdBuild == LeavesAreCold /\ EdgesAreCold /\ DirsAreCold

\* The persisted edit journal rebuilds what change.apply wrote: baseline as the run found
\* the file, last content as it is on disk, for files nothing else changed in the run.
\* (A change.apply that failed after its write is such a change: the next one takes what
\* it left for the baseline.)
CheckpointRestores ==
  AtRest /\ edits.n <= MaxDeltas =>
    \A p \in Paths \ others :
      ckpt.last[p] # Nothing => ckpt.last[p] = tree[p] /\ ckpt.first[p] = begun[p]

\* What the worktree tells of itself is true: fingerprints, revisions, index, checkpoint.
WorktreeFaithful == LedgerNames /\ RevisionsAreFresh /\ IndexIsColdBuild /\ CheckpointRestores

\* merkle.rs says incremental and rebuilt roots are identical by construction.  They are
\* not when a file lies at the top level: the root then digests its own previous digest.
RootIsColdBuild ==
  Behind = {} => RootDigest(idx.merkle) = RootDigest(BuildAt(tree, 0).merkle)
=============================================================================
