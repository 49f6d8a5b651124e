----------------------------- MODULE ReviewDesk -----------------------------
(***************************************************************************)
(* The hunk review of a task worktree: surface.rs (diff_hunks,             *)
(* resolve_review_hunk, add_review_comment, review_checklist), review.rs   *)
(* (the generated checklist) and git/lib.rs (parse_hunks, reject_hunk).    *)
(*                                                                         *)
(* A hunk is an edit of the agent: at base line `at` it deletes `del`      *)
(* lines and adds `add`.  A decision names it by its new-file start line   *)
(* at a base revision, so it is re-found in a diff taken later, while the  *)
(* agent and the other reviewers go on.                                    *)
(***************************************************************************)
EXTENDS Integers, FiniteSets

CONSTANTS Edits,        \* hunks the agent may make: [path, at, del, add], never adjacent
          Reviewers,    \* surface connections
          MaxEdits,     \* bound: edits the agent makes or takes back
          MaxActs,      \* bound: review requests
          MaxBase       \* bound: base revisions (the repository's head at each start)

VARIABLES worktree, \* the edits present in the task worktree
          upstream, \* those the base revision already contains
          base,     \* base revision of the layout this core serves
          task,     \* running, parked (waiting or ready for review), completed or cancelled
          journal,  \* review events: [kind, path, start, base]; history: hunks, above, nodiff
          view,     \* the DiffHunksView the reviewers look at
          req,      \* request under way for each reviewer
          list,     \* the checklist answers given
          reversed, \* history: rejections applied, with what became of the request
          effort    \* [edits, acts]

reviewVars == <<worktree, upstream, base, task, journal, view, req, list, reversed, effort>>

NoReq == [at |-> "idle"]

\* Edits of the file before h: their lines decide where h starts.
Above(tree, h) == {e \in tree : e.path = h.path /\ e.at < h.at}

\* The lines that edits add and delete.
Added(edits) == UNION {{e} \X (1..e.add) : e \in edits}
Deleted(edits) == UNION {{e} \X (1..e.del) : e \in edits}

\* hunk_new_start of git's header, below the edits `above': a pure deletion names the
\* line before it.
NewStart(h, above) ==
  h.at + Cardinality(Added(above)) - Cardinality(Deleted(above)) - (IF h.add = 0 THEN 1 ELSE 0)

\* `git diff -U0 base`: what the worktree has and the base has not.
Diff == worktree \ upstream
Hunks == {[hunk |-> h, start |-> NewStart(h, Above(worktree, h)), above |-> Above(worktree, h)] :
            h \in Diff}

Init ==
  /\ worktree = Edits  \* what the agent did before anyone looked
  /\ upstream = {} /\ base = 1
  /\ task = "running"
  /\ journal = {}
  /\ view = {}
  /\ req = [r \in Reviewers |-> NoReq]
  /\ list = {}
  /\ reversed = {}
  /\ effort = [edits |-> 0, acts |-> 0]

-----------------------------------------------------------------------------
(* The task meanwhile.                                                     *)

\* The agent changes the worktree; it does not undo what was merged.
AgentEdit(e) ==
  /\ task = "running" /\ effort.edits < MaxEdits /\ e \notin upstream
  /\ worktree' = IF e \in worktree THEN worktree \ {e} ELSE worktree \cup {e}
  /\ effort' = [effort EXCEPT !.edits = @ + 1]
  /\ UNCHANGED <<upstream, base, task, journal, view, req, list, reversed>>

TaskMoves ==
  /\ \/ task = "running" /\ task' \in {"parked", "cancelled"}
     \/ task = "parked" /\ task' \in {"running", "completed", "cancelled"}
  /\ UNCHANGED <<worktree, upstream, base, journal, view, req, list, reversed, effort>>

Cut(r) == [r EXCEPT !.fate = "lost"]

\* The core dies: requests under way are gone, their effects are not.  The
\* next start takes the head of the repository for its base revision; the
\* task's work so far may have been merged there.
Restart(merged) ==
  /\ base < MaxBase
  /\ base' = base + 1
  /\ upstream' = upstream \cup merged
  /\ req' = [r \in Reviewers |-> NoReq]
  /\ reversed' = {IF x.fate = "open" THEN Cut(x) ELSE x : x \in reversed}
  /\ UNCHANGED <<worktree, task, journal, view, list, effort>>

-----------------------------------------------------------------------------
(* The surface.                                                            *)

\* GetDiffHunks: every hunk with its start line, at this base revision.
DiffHunks ==
  /\ view' = Hunks
  /\ view' # view
  /\ UNCHANGED <<worktree, upstream, base, task, journal, req, list, reversed, effort>>

Ask(r, shown, kind) ==
  /\ req[r] = NoReq /\ shown \in view /\ effort.acts < MaxActs
  /\ effort' = [effort EXCEPT !.acts = @ + 1]
  /\ req' = [req EXCEPT ![r] = [at |-> IF kind = "rejected" THEN "diff" ELSE "record",
                                kind |-> kind, path |-> shown.hunk.path,
                                start |-> shown.start, shown |-> shown,
                                found |-> {}, nodiff |-> FALSE, id |-> effort.acts]]
  /\ UNCHANGED <<worktree, upstream, base, task, journal, view, list, reversed>>

\* Mutant: the first hunk at or below the line, instead of the one at it.
SelectedFrom(path, start) ==
  LET below == {x \in Hunks : x.hunk.path = path /\ x.start >= start}
  IN  {x \in below : \A y \in below : y.hunk.at >= x.hunk.at}

\* reject_hunk takes the file's diff anew and selects the hunk that starts at
\* the line; a file without a diff is a success, a line without a hunk an error.
Selected(path, start) == {x \in Hunks : x.hunk.path = path /\ x.start = start}

RejectDiff(r) ==
  /\ req[r].at = "diff"
  /\ LET hit == Selected(req[r].path, req[r].start)
     IN  req' = [req EXCEPT ![r] =
           IF {h \in Diff : h.path = req[r].path} = {} THEN [@ EXCEPT !.at = "record", !.nodiff = TRUE]
           ELSE IF hit = {} THEN NoReq
           ELSE [@ EXCEPT !.at = "apply", !.found = hit]]
  /\ UNCHANGED <<worktree, upstream, base, task, journal, view, list, reversed, effort>>

\* `git apply --reverse --unidiff-zero`: added lines must still be there; a
\* pure deletion has no line to match and is put back whatever is there.
RejectApply(r) ==
  /\ req[r].at = "apply"
  /\ LET chosen == CHOOSE x \in req[r].found : TRUE
         h == chosen.hunk
         fits == h \in worktree \/ h.add = 0
     IN  /\ worktree' = worktree \ {h}
         /\ req' = [req EXCEPT ![r] = IF fits THEN [@ EXCEPT !.at = "record"] ELSE NoReq]
         /\ reversed' = IF fits
              THEN reversed \cup {[hunk |-> h, shown |-> req[r].shown, id |-> req[r].id,
                                   above |-> chosen.above, fate |-> "open"]}
              ELSE reversed
  /\ UNCHANGED <<upstream, base, task, journal, view, list, effort>>

Settled(id, fate) ==
  {IF x.id = id THEN [x EXCEPT !.fate = fate] ELSE x : x \in reversed}

\* The durable record, stamped with the base revision this core serves.
Record(r) ==
  /\ req[r].at = "record"
  /\ LET allowed == task # "cancelled"
     IN  /\ journal' = IF allowed
              THEN journal \cup {[kind |-> req[r].kind, path |-> req[r].path,
                                  start |-> req[r].start, base |-> base,
                                  hunks |-> {x.hunk : x \in {req[r].shown} \cup req[r].found},
                                  nodiff |-> req[r].nodiff,
                                  above |-> req[r].shown.above, id |-> req[r].id]}
              ELSE journal
         /\ reversed' = Settled(req[r].id, IF allowed THEN "recorded" ELSE "refused")
  /\ req' = [req EXCEPT ![r] = NoReq]
  /\ UNCHANGED <<worktree, upstream, base, task, view, list, effort>>

\* add_review_comment: one durable event, no effect on the worktree.
AddComment(shown) ==
  /\ effort.acts < MaxActs /\ task # "cancelled"
  /\ journal' = journal \cup {[kind |-> "comment", path |-> shown.hunk.path,
                               start |-> shown.start, base |-> base,
                               hunks |-> {shown.hunk}, nodiff |-> FALSE,
                               above |-> shown.above, id |-> effort.acts]}
  /\ effort' = [effort EXCEPT !.acts = @ + 1]
  /\ UNCHANGED <<worktree, upstream, base, task, view, req, list, reversed>>

\* review_checklist reads the diff, then the events of this base revision.
ChecklistHunks(r) ==
  /\ req[r] = NoReq /\ effort.acts < MaxActs
  /\ effort' = [effort EXCEPT !.acts = @ + 1]
  /\ req' = [req EXCEPT ![r] = [at |-> "rows", hunks |-> Hunks]]
  /\ UNCHANGED <<worktree, upstream, base, task, journal, view, list, reversed>>

\* generate_checklist: a hunk without comment or decision is asked for.
Reviewed(h) ==
  {e \in journal : e.base = base /\ e.path = h.hunk.path /\ e.start = h.start}
Checklist(hunks) == {h \in hunks : Reviewed(h) = {}}

ChecklistRows(r) ==
  /\ req[r].at = "rows"
  /\ list' = list \cup {[hunk |-> h.hunk, above |-> h.above,
                         asked |-> h \in Checklist(req[r].hunks),
                         by |-> Reviewed(h)] : h \in req[r].hunks}
  /\ req' = [req EXCEPT ![r] = NoReq]
  /\ UNCHANGED <<worktree, upstream, base, task, journal, view, reversed, effort>>

Next ==
  \/ \E e \in Edits : AgentEdit(e)
  \/ TaskMoves
  \/ \E merged \in {{}, worktree} : Restart(merged)
  \/ DiffHunks
  \/ \E shown \in view : AddComment(shown)
  \/ \E r \in Reviewers :
       \/ \E shown \in view, kind \in {"accepted", "rejected"} : Ask(r, shown, kind)
       \/ RejectDiff(r) \/ RejectApply(r) \/ Record(r)
       \/ ChecklistHunks(r) \/ ChecklistRows(r)

ReviewSpec == Init /\ [][Next]_reviewVars

-----------------------------------------------------------------------------
\* The hunk a rejection takes out is the one its reviewer was shown, unless in the
\* diff that selected it an edit above had come or gone (resolve_review_hunk's "ONLY
\* that hunk").
RejectsWhatWasShown ==
  \A x \in reversed : x.hunk = x.shown.hunk \/ x.above # x.shown.above

\* A rejection that took effect is recorded, unless the core died in between
\* or the task had been cancelled; a recorded one took effect, or named a file
\* that no longer differs ("must record an effect that already happened").
RejectionsRecorded ==
  /\ \A x \in reversed :
       \/ x.fate = "recorded" /\ \E e \in journal : e.id = x.id
       \/ x.fate = "open" /\ \E r \in Reviewers : req[r].at = "record" /\ req[r].id = x.id
       \/ x.fate = "lost" /\ base > 1
       \/ x.fate = "refused" /\ task = "cancelled"
  /\ \A e \in journal : e.kind = "rejected" =>
       e.nodiff \/ \E x \in reversed : x.id = e.id /\ x.hunk \in e.hunks

\* A hunk the checklist does not ask for was itself reviewed, unless an edit
\* above it came or went after the review (HunkInput.decided, .commented).
UnaskedWasReviewed ==
  \A i \in list : ~i.asked =>
    \E e \in i.by : i.hunk \in e.hunks \/ e.above # i.above

ReviewAccounted == RejectsWhatWasShown /\ RejectionsRecorded /\ UnaskedWasReviewed

=============================================================================
