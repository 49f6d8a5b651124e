----------------------------- MODULE AgentTurns -----------------------------
(***************************************************************************)
(* The conversation of one task's run (one_agent.rs): every turn compacts  *)
(* it to the input budget (compaction/hot_path.rs), sends it to the model, *)
(* executes and answers the calls the model issued, and checkpoints it.    *)
(* Compaction plans are also computed ahead by worker threads; a core that *)
(* dies resumes from the last checkpoint.                                  *)
(*                                                                         *)
(* A message carries no text: a tool result knows the call it answers, the *)
(* call whose output it shows and whether that was cut short.  Sizes are   *)
(* tokens.                                                                 *)
(***************************************************************************)
EXTENDS Naturals, Sequences, SequencesExt, FiniteSets, FiniteSetsExt

CONSTANTS Budget,        \* max_input_tokens
          FullSize, ShortSize, SummarySize, \* of a result, whole or cut, and of a summary
          MaxTurns,      \* max_turns
          MaxCalls,      \* bound: calls of one model turn
          MaxNotes,      \* bound: steer notes
          MaxWorkers,    \* bound: compaction workers at a time
          MaxCrashes,    \* bound: crashes
          MaxErrors,     \* bound: calls that do not succeed
          MaxBlocks,     \* bound: turns with tools, over all runs of the task
          NoPlan

VARIABLES conv,     \* the model-visible conversation
          at,       \* where the run is: "boundary", "ready", "tools" or an outcome
          turn,     \* turns used
          todo,     \* calls of the turn still to answer
          sepoch,   \* structure_epoch
          slot,     \* the precomputed plan and the epoch it was computed in
          workers,  \* worker threads: snapshot and epoch
          ckpt,     \* durable: the last checkpointed conversation
          steps,    \* durable: tool steps, "started", "ok" or "refused"
          newest,   \* history: the calls of the latest turn with tools
          notes, crashes, errors, blocks

turnVars == <<conv, at, turn, todo, sepoch, slot, workers, ckpt, steps, newest, notes, crashes, errors, blocks>>

Prompt  == [role |-> "user", what |-> "prompt"]
Note    == [role |-> "user", what |-> "note"]
Summary == [role |-> "user", what |-> "summary"]
Calls(ids) == [role |-> "calls", ids |-> ids]
ToolResult(c, err) == [role |-> "result", call |-> c, body |-> c, short |-> FALSE, err |-> err]

Init ==
  /\ conv = <<Prompt>> /\ at = "boundary" /\ turn = 0 /\ todo = <<>>
  /\ sepoch = 0 /\ slot = NoPlan /\ workers = {}
  /\ ckpt = <<>> /\ steps = <<>> /\ newest = <<>>
  /\ notes = 0 /\ crashes = 0 /\ errors = 0 /\ blocks = 0

-----------------------------------------------------------------------------
(* hot_path.rs: what to cut so that the conversation fits.                 *)

Size(m) ==
  CASE m.role = "result" -> IF m.short THEN ShortSize ELSE FullSize
    [] m.role = "user"   -> IF m.what = "summary" THEN SummarySize ELSE 1
    [] OTHER             -> 1

Tokens(c) == FoldLeft(LAMBDA sum, m : sum + Size(m), 0, c)

\* recent_block_start: the last message with tool calls, or the end.
Recent(c) ==
  LET calls == {i \in DOMAIN c : c[i].role = "calls"}
  IN IF calls = {} THEN Len(c) + 1 ELSE Max(calls)

\* Mutant: the block leaves its last result behind.
BlockEndShort(c, s) == s + Len(c[s].ids)

\* The first index after the results that follow the calls at s.
BlockEnd(c, s) ==
  Min({e \in (s + 1)..(Len(c) + 1) : e = Len(c) + 1 \/ c[e].role # "result"})

\* One stage: the candidates in order, each taken while the rest is over budget.
Stage(acc, indices, Saving(_), Action(_)) ==
  FoldLeft(LAMBDA a, i :
             IF a.left <= Budget \/ Saving(i) = 0 THEN a
             ELSE [left |-> a.left - Saving(i), actions |-> Append(a.actions, Action(i))],
           acc, indices)

Sorted(S) == SetToSortSeq(S, <)
Monus(a, b) == IF a > b THEN a - b ELSE 0

\* plan_compaction: old results are cut, then old blocks summarized, then the
\* recent results cut.
PlanCompaction(c) ==
  LET results == {i \in DOMAIN c : c[i].role = "result"}
      recent  == Recent(c)
      old     == {i \in DOMAIN c : c[i].role = "calls" /\ i > 1 /\ i < recent}
      cut(i)  == [a |-> "truncate", i |-> i, body |-> c[i].body]
      cuts(i) == IF c[i].short THEN 0 ELSE FullSize - ShortSize
      fold(s) == [a |-> "summarize", s |-> s, e |-> BlockEnd(c, s)]
      folds(s) == Monus(1 + ShortSize * (BlockEnd(c, s) - s - 1), SummarySize)
      one   == Stage([left |-> Tokens(c), actions |-> <<>>],
                     Sorted({i \in results : i < recent}), cuts, cut)
      two   == Stage(one, Sorted(old), folds, fold)
      three == Stage(two, Sorted({i \in results : i >= recent}), cuts, cut)
  IN IF three.actions = <<>> THEN NoPlan ELSE three.actions

\* The caller's side of one action (one_agent.rs); the guards are its own.
Act(c, action) ==
  CASE action.a = "truncate" ->
         IF action.i \in DOMAIN c /\ c[action.i].role = "result"
         THEN [c EXCEPT ![action.i].body = action.body, ![action.i].short = TRUE]
         ELSE c
    [] action.a = "summarize" ->
         IF action.s < action.e /\ action.e <= Len(c) + 1
         THEN SubSeq(c, 1, action.s - 1) \o <<Summary>> \o SubSeq(c, action.e, Len(c))
         ELSE c

\* The actions are applied last to first.
Compacted(c, plan) == FoldLeft(Act, c, Reverse(plan))

-----------------------------------------------------------------------------
(* The turn boundary.                                                      *)

\* take_steer_notes: a note of the user joins the conversation.
Steer ==
  /\ at = "boundary" /\ notes < MaxNotes /\ turn < MaxTurns
  /\ notes' = notes + 1
  /\ conv' = Append(conv, Note)
  /\ UNCHANGED <<at, turn, todo, sepoch, slot, workers, ckpt, steps, newest, crashes, errors, blocks>>

\* Above a fifth of the budget a worker plans ahead on a copy.
SpawnWorker ==
  /\ at = "boundary" /\ Tokens(conv) > Budget \div 5
  /\ Cardinality(workers) < MaxWorkers
  /\ workers' = workers \cup {[epoch |-> sepoch, snap |-> conv]}
  /\ UNCHANGED <<conv, at, turn, todo, sepoch, slot, ckpt, steps, newest, notes, crashes, errors, blocks>>

\* A worker ends at any later time, in any order, and overwrites the slot.
WorkerEnds(w) ==
  /\ w \in workers
  /\ workers' = workers \ {w}
  /\ slot' = LET p == PlanCompaction(w.snap)
             IN IF p = NoPlan THEN NoPlan ELSE [epoch |-> w.epoch, plan |-> p]
  /\ UNCHANGED <<conv, at, turn, todo, sepoch, ckpt, steps, newest, notes, crashes, errors, blocks>>

\* The stale check: the structure is the one the plan was computed in.
Current(s) == s # NoPlan /\ s.epoch = sepoch

\* The slot is taken; a stale or missing plan is computed now.
Compact ==
  /\ at = "boundary" /\ turn < MaxTurns
  /\ turn' = turn + 1
  /\ slot' = NoPlan
  /\ LET plan == IF Current(slot) THEN slot.plan ELSE PlanCompaction(conv)
     IN IF plan = NoPlan THEN UNCHANGED <<conv, sepoch>>
        ELSE conv' = Compacted(conv, plan) /\ sepoch' = sepoch + 1
  /\ at' = "ready"
  /\ UNCHANGED <<todo, workers, ckpt, steps, newest, notes, crashes, errors, blocks>>

\* max_turns, a stop or a pause: the run ends at the boundary.
EndAtBoundary ==
  /\ at = "boundary"
  /\ \/ turn = MaxTurns /\ at' = "failed"
     \/ turn < MaxTurns /\ at' \in {"cancelled", "paused"}
  /\ UNCHANGED <<conv, turn, todo, sepoch, slot, workers, ckpt, steps, newest, notes, crashes, errors, blocks>>

-----------------------------------------------------------------------------
(* The model turn.                                                         *)

\* The model answers without calls: the run completes.
Complete ==
  /\ at = "ready" /\ at' = "completed"
  /\ UNCHANGED <<conv, turn, todo, sepoch, slot, workers, ckpt, steps, newest, notes, crashes, errors, blocks>>

TransportFails ==
  /\ at = "ready" /\ at' = "error"
  /\ UNCHANGED <<conv, turn, todo, sepoch, slot, workers, ckpt, steps, newest, notes, crashes, errors, blocks>>

\* The assistant turn is recorded exactly as issued.
Issue(n) ==
  /\ at = "ready"
  /\ LET ids == [j \in 1..n |-> <<blocks, j>>]
     IN conv' = Append(conv, Calls(ids)) /\ todo' = ids /\ newest' = ids
  /\ at' = "tools"
  /\ blocks < MaxBlocks /\ blocks' = blocks + 1
  /\ UNCHANGED <<turn, sepoch, slot, workers, ckpt, steps, notes, crashes, errors>>

\* Arguments that are no JSON object: never executed, still answered.
Reject ==
  /\ at = "tools" /\ todo # <<>>
  /\ conv' = Append(conv, ToolResult(Head(todo), TRUE))
  /\ todo' = Tail(todo)
  /\ errors < MaxErrors /\ errors' = errors + 1
  /\ UNCHANGED <<at, turn, sepoch, slot, workers, ckpt, steps, newest, notes, crashes, blocks>>

StepOf(c) == IF \E s \in DOMAIN steps : steps[s].call = c
             THEN steps[CHOOSE s \in DOMAIN steps : steps[s].call = c].row ELSE "none"

StepStarts ==
  /\ at = "tools" /\ todo # <<>> /\ StepOf(Head(todo)) = "none"
  /\ steps' = Append(steps, [call |-> Head(todo), row |-> "started"])
  /\ at' = "running"
  /\ UNCHANGED <<conv, turn, todo, sepoch, slot, workers, ckpt, newest, notes, crashes, errors, blocks>>

\* Executed, denied by the policy or failed: recorded, then answered.
StepFinishes(ok) ==
  /\ at = "running"
  /\ steps' = [steps EXCEPT ![Len(steps)].row = IF ok THEN "ok" ELSE "refused"]
  /\ conv' = Append(conv, ToolResult(Head(todo), ~ok))
  /\ todo' = Tail(todo) /\ at' = "tools"
  /\ (~ok => errors < MaxErrors) /\ errors' = errors + (IF ok THEN 0 ELSE 1)
  /\ UNCHANGED <<turn, sepoch, slot, workers, ckpt, newest, notes, crashes, blocks>>

\* Every call is answered: checkpoint, unless the conversation is too large for one.
EndTurn(fits) ==
  /\ at = "tools" /\ todo = <<>>
  /\ ckpt' = IF fits THEN conv ELSE ckpt
  /\ at' = "boundary"
  /\ UNCHANGED <<conv, turn, todo, sepoch, slot, workers, steps, newest, notes, crashes, errors, blocks>>

\* The core dies and resumes the task: the last checkpoint and a note.
CrashAndResume ==
  /\ at \in {"boundary", "ready", "tools", "running"} /\ crashes < MaxCrashes
  /\ crashes' = crashes + 1
  /\ conv' = (IF ckpt = <<>> THEN <<Prompt>> ELSE ckpt) \o <<Note>>
  /\ at' = "boundary" /\ turn' = 0 /\ todo' = <<>>
  /\ sepoch' = 0 /\ slot' = NoPlan /\ workers' = {}
  /\ newest' = LET c == {i \in DOMAIN ckpt : ckpt[i].role = "calls"}
               IN IF c = {} THEN <<>> ELSE ckpt[Max(c)].ids
  /\ UNCHANGED <<ckpt, steps, notes, errors, blocks>>

Next ==
  \/ Steer \/ SpawnWorker \/ Compact \/ EndAtBoundary
  \/ \E w \in workers : WorkerEnds(w)
  \/ Complete \/ TransportFails \/ \E n \in 1..MaxCalls : Issue(n)
  \/ Reject \/ StepStarts \/ \E ok \in BOOLEAN : StepFinishes(ok)
  \/ \E fits \in BOOLEAN : EndTurn(fits)
  \/ CrashAndResume

TurnSpec == Init /\ [][Next]_turnVars

-----------------------------------------------------------------------------
(* The requests and the properties.                                        *)

\* openai_request_body: a message per item, results keyed by tool_call_id.
OpenAiBody(c) ==
  [i \in DOMAIN c |->
     CASE c[i].role = "calls"  -> [role |-> "assistant", ids |-> c[i].ids]
       [] c[i].role = "result" -> [role |-> "tool", ids |-> <<c[i].call>>]
       [] OTHER                -> [role |-> "user", ids |-> <<>>]]

\* anthropic_request_body: a result is a block of a user message.
AnthropicBody(c) ==
  [i \in DOMAIN c |->
     CASE c[i].role = "calls"  -> [role |-> "assistant", ids |-> c[i].ids]
       [] c[i].role = "result" -> [role |-> "user", ids |-> <<c[i].call>>]
       [] OTHER                -> [role |-> "user", ids |-> <<>>]]

\* Every call is answered right behind its message, in order, and nothing else is.
Answered(body) ==
  LET calls == {i \in DOMAIN body : body[i].role = "assistant"}
      answers == {i \in DOMAIN body : body[i].role # "assistant" /\ body[i].ids # <<>>}
  IN /\ \A i \in calls : \A j \in DOMAIN body[i].ids :
          i + j \in answers /\ body[i + j].ids = <<body[i].ids[j]>>
     /\ \A k \in answers : \E i \in calls : k - i \in DOMAIN body[i].ids

\* What either provider is sent, and what a resumed run starts from, is well formed:
\* compaction, stale plans, notes and crashes never part a call from its answer.
RequestsWellFormed ==
  /\ at = "ready" => conv[1] = Prompt /\ Answered(OpenAiBody(conv)) /\ Answered(AnthropicBody(conv))
  /\ Answered(OpenAiBody(ckpt))

\* The block of the latest tools turn is never summarized away before the model saw it.
NewestSurvives ==
  (at \in {"boundary", "ready"} /\ newest # <<>>) =>
    \E i \in DOMAIN conv : conv[i].role = "calls" /\ conv[i].ids = newest

\* The conversation and the step rows agree on what ran and how it ended.
StepsAgree ==
  \A i \in DOMAIN conv :
    conv[i].role = "result" =>
      /\ StepOf(conv[i].call) # "started"
      /\ ~conv[i].err => StepOf(conv[i].call) = "ok"
      /\ StepOf(conv[i].call) = "ok" => ~conv[i].err

\* The three parts of a sound conversation.
TurnsExact == RequestsWellFormed /\ NewestSurvives /\ StepsAgree

\* A result shows the output of the call it answers.  hot_path.rs and one_agent.rs rely
\* on the reverse order for that ("earlier indices stay valid"), but cuts of old results
\* are listed before the summaries, so they are applied after them, to shifted indices.
ResultsAreTheirOwn ==
  \A i \in DOMAIN conv : conv[i].role = "result" => conv[i].body = conv[i].call
=============================================================================
