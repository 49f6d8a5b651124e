---------------------------- MODULE ContextDesk ----------------------------
(***************************************************************************)
(* What one task's agent is shown of its repository (scheduler.rs:         *)
(* build_context_pack, TaskIndexWriter and the search and change tools),   *)
(* the pack compiler behind it (context/pack_compiler.rs, planner.rs) and  *)
(* the headless language server it asks (diagnostics/lsp.rs).              *)
(*                                                                         *)
(* The agent calls one tool at a time; the language server is a process of *)
(* its own that answers late, out of turn, or never.  A file is its        *)
(* version.                                                                *)
(***************************************************************************)
EXTENDS Naturals, Sequences, FiniteSets, SequencesExt

CONSTANTS Files,        \* the files of the worktree
          DefFile,      \* the file the asked symbol is defined in
          Sizes,        \* sizes a fragment may have
          Budget,       \* the pack's budget
          MaxEdits,     \* bound: versions of a file
          MaxAsks       \* bound: language-server requests sent

VARIABLES file,     \* per file: its version on disk
          evidence, \* paths with retrieval evidence
          pack,     \* the compiled pack while it is built, else <<>>
          lsp,      \* the session: [st, next, opened], opened: file -> version didOpen'ed
          server,   \* the server: [up, inbox, outbox]
          ask,      \* the symbol query in progress: [at, id, wanted, defs]
          reply,    \* the last language-server answer: [mixed, behind]
          surfaced, \* history: files whose path or content reached the agent
          proposed  \* history: files an accepted proposal was about

deskVars == <<file, evidence, pack, lsp, server, ask, reply, surfaced, proposed>>

Asking(at, id, wanted, defs) == [at |-> at, id |-> id, wanted |-> wanted, defs |-> defs]
AskAt(at) == Asking(at, ask.id, ask.wanted, ask.defs)
NoAsk == Asking("idle", 0, "", 0)
NoReply == [mixed |-> FALSE, behind |-> FALSE]
NoServer == [up |-> FALSE, inbox |-> <<>>, outbox |-> <<>>]

Init ==
  /\ file = [f \in Files |-> 1]
  /\ evidence = {}
  /\ pack = <<>>
  /\ lsp = [st |-> "none", next |-> 1, opened |-> <<>>]
  /\ server = NoServer
  /\ ask = Asking("start", 0, "", 0)
  /\ reply = NoReply
  /\ surfaced = {}
  /\ proposed = {}

-----------------------------------------------------------------------------
(* The context pack                                                        *)

Fragment(path, size, value, critical) ==
  [path |-> path, size |-> size, value |-> value, critical |-> critical]

\* The brief is critical; then the workspace map and the head of each index hit.
Fragments(brief, map, head, score) ==
  <<Fragment("task:brief", brief, 100, TRUE), Fragment("workspace:top-level", map, 50, FALSE)>>
  \o [i \in 1..Cardinality(Files) |->
        LET f == SetToSeq(Files)[i] IN Fragment(f, head[f], 60 + score[f], FALSE)]

Used(fs) == FoldSeq(LAMBDA f, n : n + f.size, 0, fs)

\* pack_with_budget: the critical fragments first, or an error; then by value,
\* each one that still fits; the others become handles.
PackWithBudget(fs, budget) ==
  LET crit == SelectSeq(fs, LAMBDA f : f.critical)
      rest == SortSeq(SelectSeq(fs, LAMBDA f : ~f.critical), LAMBDA a, b : a.value > b.value)
      take(f, p) == IF Used(p.packed) + f.size <= budget
                    THEN [p EXCEPT !.packed = Append(@, f)]
                    ELSE [p EXCEPT !.handles = Append(@, f)]
  IN  IF Used(crit) > budget THEN [ok |-> FALSE, packed |-> <<fs[1]>>, handles |-> <<>>]
      ELSE FoldLeft(LAMBDA p, f : take(f, p),
                    [ok |-> TRUE, packed |-> crit, handles |-> <<>>], rest)

\* build_context_pack at the start of the run; a pack that does not hold even
\* the brief ships the brief alone.
BuildContextPack(brief, map, head, score) ==
  /\ ask.at = "start"
  /\ LET fs == Fragments(brief, map, head, score)
     IN  pack' = <<[all |-> fs, out |-> PackWithBudget(fs, Budget)]>>
  /\ ask' = AskAt("packed")
  /\ UNCHANGED <<file, evidence, lsp, server, reply, surfaced, proposed>>

\* The packed files are the first retrieval evidence of the task.
PackShipped ==
  /\ ask.at = "packed"
  /\ LET files == {pack[1].out.packed[i].path : i \in DOMAIN pack[1].out.packed} \cap Files
     IN  evidence' = files /\ surfaced' = files
  /\ pack' = <<>> /\ ask' = NoAsk
  /\ UNCHANGED <<file, lsp, server, reply, proposed>>

-----------------------------------------------------------------------------
(* The tools                                                               *)

Idle == ask.at = "idle"

Seen(fs) == evidence' = evidence \cup fs /\ surfaced' = surfaced \cup fs

\* fs.read, and search.grep over the files themselves.
Read(f) ==
  /\ Idle /\ Seen({f})
  /\ UNCHANGED <<file, pack, lsp, server, ask, reply, proposed>>

\* plan: the cheapest level that serves the query.
Plan(s) ==
  CASE s.engineering \/ s.few -> "engineering"
    [] ~(s.engineering \/ s.few) /\ s.structural -> "structural"
    [] ~(s.engineering \/ s.few) /\ ~s.structural /\ (s.terms \/ ~s.hit) -> "hybrid"
    [] OTHER -> "exact"

\* The modes a caller names, and the ones the planner routes "auto" to.
Modes == {"exact", "regex", "path", "fused", "impact"} \cup
         {Plan(s) : s \in [engineering : BOOLEAN, few : BOOLEAN, structural : BOOLEAN,
                           terms : BOOLEAN, hit : BOOLEAN]}

\* What a mode answers under "hits" counts as evidence; the dependents of an
\* impact query and the definitions of a routed symbol query do not.
HitsOf(mode, hits) == IF mode \in {"impact", "structural"} THEN {} ELSE hits

\* context.query: answer from the freshened index (module Worktree), record
\* the hits.
ContextQuery(mode, hits) ==
  /\ Idle
  /\ evidence' = evidence \cup HitsOf(mode, hits)
  /\ surfaced' = surfaced \cup hits
  /\ UNCHANGED <<file, pack, lsp, server, ask, reply, proposed>>

\* change.propose writes nothing; without evidence it is refused.
Propose(f) ==
  /\ Idle /\ f \in evidence
  /\ proposed' = proposed \cup {f}
  /\ UNCHANGED <<file, evidence, pack, lsp, server, ask, reply, surfaced>>

\* change.apply, which asks for no evidence, or a command edits a file.
Edited(f) ==
  /\ file[f] < MaxEdits /\ file' = [file EXCEPT ![f] = @ + 1]
  /\ UNCHANGED <<evidence, pack, lsp, server, ask, reply, surfaced, proposed>>

-----------------------------------------------------------------------------
(* search.symbol and the language server                                   *)

\* A request goes out under the next id.
Server(up, inbox, outbox) == [up |-> up, inbox |-> inbox, outbox |-> outbox]
Sent(srv, kind) == Server(srv.up, Append(srv.inbox, [id |-> lsp.next, kind |-> kind]), srv.outbox)

\* LspSession::spawn starts the server and sends it initialize.
Spawned == Server(TRUE, <<[id |-> lsp.next, kind |-> "initialize"]>>, <<>>)
Session(st, next, opened) == [st |-> st, next |-> next, opened |-> opened]

\* The tree-sitter answer is the evidence; a session is spawned once, and a
\* failed spawn is never tried again.
SearchSymbol ==
  /\ Idle
  /\ Seen({DefFile})
  /\ CASE lsp.st = "none" /\ lsp.next <= MaxAsks ->
            /\ server' = Spawned
            /\ lsp' = Session(lsp.st, lsp.next + 1, lsp.opened)
            /\ ask' = Asking("reading", lsp.next, "initialize", 0)
            /\ UNCHANGED reply
       [] lsp.st = "live" /\ lsp.next < MaxAsks ->
            /\ ask' = Asking("open", 0, "", 0) /\ UNCHANGED <<lsp, server, reply>>
       [] OTHER -> reply' = NoReply /\ UNCHANGED <<lsp, server, ask>>
  /\ UNCHANGED <<file, pack, proposed>>

\* ensure_open: didOpen once per file and session, then the definition request.
EnsureOpen ==
  /\ ask.at = "open"
  /\ server' = Sent(server, "definition")
  /\ lsp' = Session(lsp.st, lsp.next + 1, IF lsp.opened = <<>> THEN <<file[DefFile]>> ELSE lsp.opened)
  /\ ask' = Asking("reading", lsp.next, "definition", ask.defs)
  /\ UNCHANGED <<file, evidence, pack, reply, surfaced, proposed>>

\* Mutant: any response is taken for the one that is awaited.
MatchesAny(frame) == frame.kind # "notification"

\* read_response skips notifications and the answers to other ids.
Matches(frame) == frame.kind # "notification" /\ frame.id = ask.id

Failed ==
  /\ lsp' = IF ask.wanted = "initialize" THEN Session("failed", lsp.next, lsp.opened) ELSE lsp
  /\ server' = IF ask.wanted = "initialize" THEN NoServer ELSE server
  /\ ask' = NoAsk
  /\ reply' = NoReply

\* One frame is read; a blocking read, so the deadline is only looked at
\* between frames.
ReadFrame ==
  /\ ask.at = "reading" /\ server.outbox # <<>>
  /\ LET frame == Head(server.outbox)
         rest  == Server(server.up, server.inbox, Tail(server.outbox))
     IN  CASE ~Matches(frame) ->
                 /\ server' = rest /\ ask' = AskAt("checking")
                 /\ UNCHANGED <<lsp, reply>>
            [] Matches(frame) /\ frame.kind = "error" ->
                 /\ lsp' = IF ask.wanted = "initialize" THEN Session("failed", lsp.next, lsp.opened) ELSE lsp
                 /\ server' = IF ask.wanted = "initialize" THEN NoServer ELSE rest
                 /\ ask' = NoAsk /\ reply' = NoReply
            [] Matches(frame) /\ frame.kind # "error" /\ ask.wanted = "initialize" ->
                 /\ lsp' = Session("live", lsp.next, lsp.opened)
                 /\ server' = rest /\ ask' = AskAt("open")
                 /\ UNCHANGED reply
            [] Matches(frame) /\ frame.kind # "error" /\ ask.wanted = "definition" ->
                 /\ server' = Sent(rest, "references")
                 /\ lsp' = Session(lsp.st, lsp.next + 1, lsp.opened)
                 /\ ask' = Asking("reading", lsp.next, "references", frame.answers)
                 /\ UNCHANGED reply
            [] OTHER ->
                 /\ server' = rest /\ ask' = NoAsk
                 /\ reply' = [mixed |-> frame.answers # ask.id \/ ask.defs + 1 # ask.id,
                               behind |-> lsp.opened[1] < file[DefFile]]
                 /\ UNCHANGED lsp
  /\ UNCHANGED <<file, evidence, pack, surfaced, proposed>>

\* The deadline has passed, or not.
CheckDeadline(passed) ==
  /\ ask.at = "checking"
  /\ IF passed THEN Failed
     ELSE ask' = AskAt("reading") /\ UNCHANGED <<lsp, server, reply>>
  /\ UNCHANGED <<file, evidence, pack, surfaced, proposed>>

\* The server has exited and its output is drained: Closed.
StreamEnds ==
  /\ ask.at = "reading" /\ ~server.up /\ server.outbox = <<>>
  /\ Failed
  /\ UNCHANGED <<file, evidence, pack, surfaced, proposed>>

\* External: the server answers its requests in any order, rejects one, sends
\* a notification of its own, or exits.
ServerAnswers(i, kind) ==
  /\ server.up /\ Len(server.outbox) < 2
  /\ server' = Server(TRUE, RemoveAt(server.inbox, i),
                      Append(server.outbox, [id |-> server.inbox[i].id, kind |-> kind,
                                             answers |-> server.inbox[i].id]))
  /\ UNCHANGED <<file, evidence, pack, lsp, ask, reply, surfaced, proposed>>

ServerNotifies ==
  /\ server.up /\ server.outbox = <<>>
  /\ server' = Server(TRUE, server.inbox, <<[id |-> 0, kind |-> "notification", answers |-> 0]>>)
  /\ UNCHANGED <<file, evidence, pack, lsp, ask, reply, surfaced, proposed>>

ServerExits ==
  /\ server.up /\ server' = Server(FALSE, server.inbox, server.outbox)
  /\ UNCHANGED <<file, evidence, pack, lsp, ask, reply, surfaced, proposed>>

AgentNext ==
  \/ \E b, m \in Sizes, h \in [Files -> Sizes], s \in [Files -> {0, 20}] : BuildContextPack(b, m, h, s)
  \/ PackShipped
  \/ \E f \in Files : Read(f) \/ Propose(f)
  \/ \E mode \in Modes, hits \in SUBSET Files : ContextQuery(mode, hits)
  \/ SearchSymbol \/ EnsureOpen \/ ReadFrame \/ StreamEnds
  \/ \E passed \in BOOLEAN : CheckDeadline(passed)

Next ==
  \/ AgentNext
  \/ \E f \in Files : Edited(f)
  \/ \E i \in DOMAIN server.inbox, kind \in {"result", "error"} : ServerAnswers(i, kind)
  \/ ServerNotifies \/ ServerExits

DeskSpec == Init /\ [][Next]_deskVars

-----------------------------------------------------------------------------
\* The pack never exceeds its budget unless it is the brief alone, always
\* holds the brief, drops nothing silently, and a fragment only became a
\* handle when the ones that precede it in value left no room for it.
PackExact ==
  pack # <<>> =>
    LET all == pack[1].all
        out == pack[1].out
        before(f) == {i \in DOMAIN out.packed : out.packed[i].critical \/ out.packed[i].value >= f.value}
        size(is) == Used([i \in 1..Cardinality(is) |-> out.packed[SetToSeq(is)[i]]])
    IN  /\ out.packed[1] = all[1]
        /\ out.ok => /\ Used(out.packed) <= Budget
                     /\ ToSet(out.packed) \cup ToSet(out.handles) = ToSet(all)
                     /\ \A i \in DOMAIN out.handles :
                          size(before(out.handles[i])) + out.handles[i].size > Budget
        /\ ~out.ok => all[1].size > Budget

\* A language-server answer is the server's answer to that very request, and
\* its two halves belong to one query, whatever arrives late from earlier ones;
\* a proposal only passes for a file the agent was shown.
AnswersBelong == ~reply.mixed /\ proposed \subseteq surfaced

\* What the agent is shown and told: the pack and the answers.
DeskAnswersRight == PackExact /\ AnswersBelong

\* "Requests are bounded by a timeout" (lsp.rs): a symbol query ends.
RequestsAreBounded == (ask.at = "reading") ~> (ask.at \in {"idle", "open"})

=============================================================================
