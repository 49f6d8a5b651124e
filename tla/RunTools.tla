------------------------------ MODULE RunTools ------------------------------
(***************************************************************************)
(* The tools a run offers the model (core-runtime/scheduler.rs:            *)
(* build_worktree_registry over tools/lib.rs, schema.rs, media.rs and      *)
(* verification/lib.rs), and the staged pipeline of the tools crate        *)
(* (pipeline.rs), which checks arguments against the schema first.         *)
(*                                                                         *)
(* The remaining tools of the registry are modelled where their state is:  *)
(* change.* in Worktree, context.query and search.symbol in ContextDesk,   *)
(* external.call in EffectReceipts, a command's output in ExecBroker.      *)
(*                                                                         *)
(* A run executes one call at a time.  Besides the call there are the test *)
(* runner's process, whose pipes nobody reads, the media objects of the    *)
(* worktree, and the checkpointed cursors of its terminals.                *)
(***************************************************************************)
EXTENDS Naturals, Sequences, FiniteSets

CONSTANTS Contents,     \* contents a media file may have
          PipeCap,      \* what an output pipe holds before its writer blocks
          MaxOutput,    \* bound: output of a test runner
          MaxHandles,   \* terminals whose cursor the journal has room for
          MaxCalls,     \* bound: tool calls
          MaxCrashes,   \* bound: crashes of the core
          MaxRevokes    \* bound: grants taken away

VARIABLES grants,   \* the capability grants of the run
          call,     \* the tool call being executed
          proc,     \* the test runner of the call
          late,     \* its time is up
          report,   \* the report of run_plan on it
          file,     \* content of the media file
          objects,  \* content -> its object under .modbit/objects
          refs,     \* history: contents whose object reference was answered
          journal,  \* cursors in memory, newest last
          stored,   \* the newest checkpoint: epoch and cursors
          epoch,    \* next_epoch
          done,     \* history: the effector the last call ran, if it did
          count     \* calls, crashes and revocations so far

toolVars == <<grants, call, proc, late, report, file, objects, refs, journal, stored, epoch,
              done, count>>

-----------------------------------------------------------------------------
(* The registry                                                            *)

\* Per tool: effect class, whether it takes a required and an optional string.
Offer(effect, req, opt) == [effect |-> effect, req |-> req, opt |-> opt]
FsRead       == Offer("read", TRUE, FALSE)
FsList       == Offer("read", FALSE, TRUE)
SearchGrep   == Offer("read", TRUE, TRUE)
GitStatus    == Offer("read", FALSE, FALSE)
GitDiff      == Offer("read", FALSE, FALSE)
TestRun      == Offer("external", TRUE, TRUE)
ShellRun     == Offer("external", TRUE, FALSE)
ExternalList == Offer("read", FALSE, TRUE)

Registry ==
  [t \in {"fs.read", "fs.list", "search.grep", "git.status", "git.diff", "test.run",
          "shell.run", "external.list"} |->
     CASE t = "fs.read" -> FsRead [] t = "fs.list" -> FsList [] t = "search.grep" -> SearchGrep
       [] t = "git.status" -> GitStatus [] t = "git.diff" -> GitDiff [] t = "test.run" -> TestRun
       [] t = "shell.run" -> ShellRun [] t = "external.list" -> ExternalList]

Tools == DOMAIN Registry
Kinds == {"absent", "str", "num", "array"}

\* The arguments of a call: any value under each key the tool declares, and
\* perhaps a key it does not declare.
Args(t) ==
  [req : IF Registry[t].req THEN Kinds ELSE {"absent"},
   opt : IF Registry[t].opt THEN Kinds ELSE {"absent"}, extra : BOOLEAN]

\* ToolSchema::normalize: an unknown key, a value of another type and a missing
\* required parameter are rejected (no alias is declared, and every parameter
\* here is a string, which is never coerced).
Normalize(t, args) ==
  LET spec == Registry[t]
  IN  /\ ~args.extra
      /\ spec.req => args.req = "str"
      /\ args.opt \in {"absent", "str"}

\* What the handlers check themselves: the required argument, by as_str, and
\* argv, which may be an array as well.
Handled(t, args) ==
  Registry[t].req => args.req = "str" \/ (t = "shell.run" /\ args.req = "array")

\* as_str().unwrap_or: an optional value of another type counts as not given.
Given(t, args) == Registry[t].opt /\ args.opt = "str"

-----------------------------------------------------------------------------

NoCall == [at |-> "none", path |-> "", tool |-> "", args |-> [req |-> "absent",
           opt |-> "absent", extra |-> FALSE], granted |-> FALSE, content |-> 0]
NoProc == [at |-> "none", left |-> 0, pipe |-> 0, code |-> 0]
NoReport == [has |-> FALSE, passed |-> FALSE, timedOut |-> FALSE]

\* worktree_grants: one grant per tool.
Init ==
  /\ grants = Tools
  /\ call = NoCall /\ proc = NoProc /\ late = FALSE /\ report = NoReport
  /\ file \in Contents
  /\ objects = [c \in Contents |-> "none"]
  /\ refs = {}
  /\ journal = <<>> /\ stored = [epoch |-> 0, cursors |-> <<>>] /\ epoch = 1
  /\ done = {}
  /\ count = [calls |-> 0, crashes |-> 0, revokes |-> 0]

Finish == call' = NoCall

\* A tool call of the model, on the run's own path or through the pipeline.
Call(path, t, args) ==
  /\ call.at = "none" /\ count.calls < MaxCalls
  /\ count' = [count EXCEPT !.calls = count.calls + 1]
  /\ call' = [NoCall EXCEPT !.at = "check", !.path = path, !.tool = t, !.args = args]
  /\ done' = {} /\ proc' = NoProc /\ report' = NoReport /\ late' = FALSE
  /\ UNCHANGED <<grants, file, objects, refs, journal, stored, epoch>>

Revoke(t) ==
  /\ t \in grants /\ count.revokes < MaxRevokes
  /\ grants' = grants \ {t}
  /\ count' = [count EXCEPT !.revokes = count.revokes + 1]
  /\ UNCHANGED <<call, proc, late, report, file, objects, refs, journal, stored, epoch, done>>

\* Mutant: the pipeline asks policy before the arguments are normalised, and
\* takes its leave for both.
ChecksPolicyOnly(t, args) == t \in grants

\* run_pipeline, stages 1 and 2.
Checks(t, args) == Normalize(t, args) /\ t \in grants

\* ToolRegistry::execute: a denied decision refuses, and so do stages 1 to 3 of
\* the pipeline, a vetoing hook among them.
Check(veto) ==
  /\ call.at = "check"
  /\ LET t  == call.tool
         ok == IF call.path = "pipeline" THEN Checks(t, call.args) /\ ~veto ELSE t \in grants
     IN  call' = IF ok THEN [call EXCEPT !.at = "run", !.granted = t \in grants] ELSE NoCall
  /\ UNCHANGED <<grants, proc, late, report, file, objects, refs, journal, stored, epoch, done,
                 count>>

Ran == done' = {[tool |-> call.tool, path |-> call.path, args |-> call.args,
                           granted |-> call.granted, opted |-> Given(call.tool, call.args)]}

\* A handler that refuses its arguments.
Missing ==
  /\ call.at = "run" /\ ~Handled(call.tool, call.args)
  /\ Finish
  /\ UNCHANGED <<grants, proc, late, report, file, objects, refs, journal, stored, epoch, done,
                 count>>

Runs(t) == call.at = "run" /\ call.tool = t /\ Handled(t, call.args)

\* fs.list, search.grep, git.status, git.diff and external.list read and answer.
ReadOnlyTool ==
  /\ \E t \in {"fs.list", "search.grep", "git.status", "git.diff", "external.list"} : Runs(t)
  /\ Ran /\ Finish
  /\ UNCHANGED <<grants, proc, late, report, file, objects, refs, journal, stored, epoch, count>>

-----------------------------------------------------------------------------
(* test.run: one gate of run_plan                                          *)

\* The runner is spawned with its output in pipes; what it will print and how it
\* will exit is its own.  An unknown runner, or a failed spawn, is an error.
Spawn(output, code, works) ==
  /\ Runs("test.run")
  /\ IF works THEN /\ proc' = [at |-> "running", left |-> output, pipe |-> 0, code |-> code]
                   /\ late' = FALSE
                   /\ call' = [call EXCEPT !.at = "gate"] /\ Ran
     ELSE Finish /\ UNCHANGED <<proc, late, done>>
  /\ UNCHANGED <<grants, report, file, objects, refs, journal, stored, epoch, count>>

\* External: a process that writes blocks once the pipe is full.
Prints ==
  /\ proc.at = "running" /\ proc.left > 0 /\ proc.pipe < PipeCap
  /\ proc' = [proc EXCEPT !.left = proc.left - 1, !.pipe = proc.pipe + 1]
  /\ UNCHANGED <<grants, call, late, report, file, objects, refs, journal, stored, epoch, done,
                 count>>

Exits ==
  /\ proc.at = "running" /\ proc.left = 0
  /\ proc' = [proc EXCEPT !.at = "exited"]
  /\ UNCHANGED <<grants, call, late, report, file, objects, refs, journal, stored, epoch, done,
                 count>>

TimeUp ==
  /\ call.at = "gate" /\ ~late /\ late' = TRUE
  /\ UNCHANGED <<grants, call, proc, report, file, objects, refs, journal, stored, epoch, done,
                 count>>

\* One look of the loop: the deadline first, then try_wait.  The cancel flag of
\* the run is not consulted.
GateEnds ==
  /\ call.at = "gate" /\ (late \/ proc.at = "exited")
  /\ report' = [has |-> TRUE, timedOut |-> late, passed |-> ~late /\ proc.code = 0]
  /\ proc' = IF late /\ proc.at = "running" THEN [proc EXCEPT !.at = "killed"] ELSE proc
  /\ Finish
  /\ UNCHANGED <<grants, late, file, objects, refs, journal, stored, epoch, done, count>>

-----------------------------------------------------------------------------
(* fs.read of a media file: content-addressed objects                      *)

Edit(c) ==
  /\ c # file /\ file' = c
  /\ UNCHANGED <<grants, call, proc, late, report, objects, refs, journal, stored, epoch, done,
                 count>>

\* The bytes are read once; an oversized or unknown file is refused by ingest.
ReadMedia(fits) ==
  /\ Runs("fs.read")
  /\ IF fits THEN call' = [call EXCEPT !.at = "put", !.content = file] /\ Ran
     ELSE Finish /\ UNCHANGED done
  /\ UNCHANGED <<grants, proc, late, report, file, objects, refs, journal, stored, epoch, count>>

\* ObjectStore::put: written unless the path exists, then referred to.
Put ==
  /\ call.at = "put"
  /\ objects' = IF objects[call.content] = "none" THEN [objects EXCEPT ![call.content] = "whole"] ELSE objects
  /\ refs' = refs \cup {call.content}
  /\ Finish
  /\ UNCHANGED <<grants, proc, late, report, file, journal, stored, epoch, done, count>>

-----------------------------------------------------------------------------
(* shell.run: the terminal's cursor                                        *)

\* record_surface: the newest cursor of a handle replaces the older one, and a
\* checkpoint of the next epoch is written, unless the journal grew too large.
RecordSurface(handle, position) ==
  LET others == SelectSeq(journal, LAMBDA m : m.handle # handle)
      now    == Append(others, [handle |-> handle, position |-> position])
  IN  /\ journal' = now
      /\ epoch' = epoch + 1
      /\ stored' = IF Len(now) <= MaxHandles /\ epoch > stored.epoch
                   THEN [epoch |-> epoch, cursors |-> now] ELSE stored

\* Every command gets a broker run, hence a handle, of its own.
ShellDone ==
  /\ Runs("shell.run")
  /\ RecordSurface(epoch, 1)
  /\ Ran /\ Finish
  /\ UNCHANGED <<grants, proc, late, report, file, objects, refs, count>>

\* No broker is configured, or the broker fails.
ShellFails ==
  /\ Runs("shell.run") /\ Finish
  /\ UNCHANGED <<grants, proc, late, report, file, objects, refs, journal, stored, epoch, done,
                 count>>

-----------------------------------------------------------------------------

\* The core dies and a new run begins: what was on disk stays, a half-written
\* object too, and so does a test runner, which nobody waits for any more.
Restart ==
  /\ count.crashes < MaxCrashes
  /\ count' = [count EXCEPT !.crashes = count.crashes + 1]
  /\ objects' = IF call.at = "put" /\ objects[call.content] = "none"
                THEN [objects EXCEPT ![call.content] = "torn"] ELSE objects
  /\ call' = NoCall
  /\ proc' = IF proc.at = "running" THEN [proc EXCEPT !.at = "orphan"] ELSE proc
  /\ late' = FALSE /\ report' = NoReport
  /\ journal' = <<>> /\ epoch' = 1 /\ stored' = [epoch |-> 0, cursors |-> <<>>]
  /\ grants' = Tools
  /\ done' = {}
  /\ UNCHANGED <<file, refs>>

Next ==
  \/ \E p \in {"run", "pipeline"}, t \in Tools : \E a \in Args(t) : Call(p, t, a)
  \/ \E t \in Tools : Revoke(t)
  \/ \E v \in BOOLEAN : Check(v)
  \/ Missing \/ ReadOnlyTool
  \/ \E n \in 0..MaxOutput, code \in 0..1, w \in BOOLEAN : Spawn(n, code, w)
  \/ Prints \/ Exits \/ TimeUp \/ GateEnds
  \/ \E c \in Contents : Edit(c)
  \/ \E f \in BOOLEAN : ReadMedia(f)
  \/ Put \/ ShellDone \/ ShellFails \/ Restart

ToolSpec == Init /\ [][Next]_toolVars

-----------------------------------------------------------------------------
(* Properties                                                              *)

\* An effector ran only with a grant; on the pipeline only with arguments the
\* schema accepts, and then it acts on exactly the ones that were given.
EffectsTyped ==
  \A d \in done :
    /\ d.granted
    /\ d.path = "pipeline" => Normalize(d.tool, d.args)
    /\ Normalize(d.tool, d.args) => (d.opted <=> d.args.opt # "absent")

\* A report of test.run is about a runner that is gone, says passed only of one
\* that exited with 0, and failed only of one that did not or ran out of time.
ReportTruthful ==
  report.has /\ call.at # "gate" =>
    /\ proc.at \in {"exited", "killed"}
    /\ report.passed => proc.at = "exited" /\ proc.code = 0
    /\ ~report.passed => report.timedOut \/ proc.code # 0

\* An object the model was referred to exists, and holds the bytes of its digest
\* unless a crash tore its write: later puts find the path and keep the torn one.
ObjectsTrue == \A c \in refs : objects[c] # "none" /\ (count.crashes = 0 => objects[c] = "whole")

\* The stored checkpoint never misses a cursor there was room for.
CursorsStored ==
  Len(journal) <= MaxHandles => stored.cursors = journal

\* The four together, about build_worktree_registry, schema.rs, media.rs,
\* verification/lib.rs and record_surface.
ToolsSound == EffectsTyped /\ ReportTruthful /\ ObjectsTrue /\ CursorsStored

\* schema.rs:1-5: "anything unrepairable is REJECTED before any effector runs".
MalformedIsRejected == \A d \in done : Normalize(d.tool, d.args)

=============================================================================
