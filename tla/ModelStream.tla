---------------------------- MODULE ModelStream ----------------------------
(***************************************************************************)
(* One model invocation: providers/transport.rs streams the response over  *)
(* HTTP with bounded retries, scheduler.rs collects the parsed events and  *)
(* gateway.rs assembles the fragments of tool calls.                       *)
(*                                                                         *)
(* Three tasks: run_attempt reads the provider and fills the attempt's     *)
(* channel, the supervisor forwards it and decides on retries, the run's   *)
(* thread consumes.  A frame is a record of its attempt `a', its number    *)
(* `n' in that attempt, its kind and, for a tool call, the call's index.   *)
(* The endpoint sends at most one tool-call entry in a frame.  Text,       *)
(* arguments and token counts are left out: a frame number stands for the  *)
(* characters it carries.                                                  *)
(***************************************************************************)
EXTENDS Naturals, Sequences, SequencesExt

CONSTANTS MaxAttempts,  \* RetryPolicy::max_attempts
          MaxFrames,    \* bound: frames of an attempt
          MaxCalls      \* bound: tool calls of a response

VARIABLES provider,  \* "openai" or "anthropic"
          io,        \* the attempt's task: "idle", "connecting", "streaming", "ended"
          sent,      \* history: the frames the provider sent, per attempt
          inbox,     \* the attempt's channel
          sup,       \* the supervisor: where it is, its attempt, first_token
          token,     \* the transport's CancellationToken
          outbox,    \* the stream's channel
          events,    \* parsed events collected by the run's thread
          answer,    \* what the invocation returned: "none", "ok", "error", "cancelled"
          stop       \* the cancel flag of the run

streamVars == <<provider, io, sent, inbox, sup, token, outbox, events, answer, stop>>

Init ==
  /\ provider \in {"openai", "anthropic"}
  /\ io = "idle" /\ sent = <<>> /\ inbox = <<>>
  /\ sup = [at |-> "idle", first |-> FALSE]
  /\ token = FALSE /\ outbox = <<>>
  /\ events = <<>> /\ answer = "none" /\ stop = FALSE

Attempt == Len(sent)
Error(e) == [t |-> "error", e |-> e]
Eof == [t |-> "eof"]

-----------------------------------------------------------------------------
(* run_attempt: connect, then one frame at a time.                         *)

\* auth_headers fails closed: without a credential nothing is sent.
Refuse ==
  /\ sup.at = "idle" /\ answer = "none"
  /\ answer' = "error"
  /\ UNCHANGED <<provider, io, sent, inbox, sup, token, outbox, events, stop>>

\* stream(), or the next round of the supervisor's loop after the backoff.
StartAttempt ==
  /\ sup.at \in {"idle", "backoff"} /\ answer = "none"
  /\ sup' = [at |-> "forwarding", first |-> FALSE]
  /\ io' = "connecting" /\ sent' = Append(sent, <<>>) /\ inbox' = <<>>
  /\ UNCHANGED <<provider, token, outbox, events, answer, stop>>

EndIo(item) == io' = "ended" /\ inbox' = Append(inbox, item)

Connected ==
  /\ io = "connecting" /\ answer = "none"
  /\ io' = "streaming"
  /\ UNCHANGED <<provider, sent, inbox, sup, token, outbox, events, answer, stop>>

\* No response, or one whose status is not a success.
NotConnected ==
  /\ io = "connecting" /\ answer = "none"
  /\ \E e \in {"timeout", "busy", "refused", "interrupted"} : EndIo(Error(e))
  /\ UNCHANGED <<provider, sent, sup, token, outbox, events, answer, stop>>

\* `cancel' is raced against the request and against every chunk.
IoCancelled ==
  /\ io \in {"connecting", "streaming"} /\ token /\ answer = "none"
  /\ EndIo(Error("cancelled"))
  /\ UNCHANGED <<provider, sent, sup, token, outbox, events, answer, stop>>

Frames == sent[Attempt]
Opened == {i \in 1..MaxCalls : \E n \in DOMAIN Frames : Frames[n].k = "open" /\ Frames[n].i = i}
Finished == \E n \in DOMAIN Frames : Frames[n].k = "finish"

\* What the endpoint may send next: text and calls, the end of the message (a
\* finish_reason or a message_delta), and what follows it.
Sendable(f) ==
  IF Finished THEN f.k \in {"usage", "done"}
  ELSE \/ f.k \in {"text", "finish"}
       \/ f.k = "open" /\ f.i \notin Opened /\ \A j \in 1..(f.i - 1) : j \in Opened
       \/ f.k = "args" /\ f.i \in Opened

\* A usage-bearing frame: OpenAI's usage chunk, Anthropic's message_delta.
CarriesUsage(f) == f.k = "usage" \/ (provider = "anthropic" /\ f.k = "finish")

\* A `data:' line is complete: the usage snapshot goes out, then the payload.
Frame(k, i) ==
  LET f == [a |-> Attempt, n |-> Len(Frames) + 1, k |-> k, i |-> i]
      noted == IF CarriesUsage(f) THEN Append(inbox, [t |-> "usage"]) ELSE inbox
  IN /\ io = "streaming" /\ answer = "none" /\ Len(Frames) < MaxFrames
     /\ Sendable(f) /\ (k = "usage" => provider = "openai")
     /\ sent' = [sent EXCEPT ![Attempt] = Append(Frames, f)]
     /\ inbox' = Append(noted, [t |-> "data", f |-> f])
     /\ UNCHANGED <<provider, io, sup, token, outbox, events, answer, stop>>

\* The body ends, breaks, or the deadline passes.
StreamEnds ==
  /\ io = "streaming" /\ answer = "none"
  /\ EndIo(Eof) \/ EndIo(Error("interrupted")) \/ EndIo(Error("timeout"))
  /\ UNCHANGED <<provider, sent, sup, token, outbox, events, answer, stop>>

-----------------------------------------------------------------------------
(* The supervisor.                                                         *)

Retriable(e) == e \in {"timeout", "busy"}  \* busy: status 429 or a 5xx

\* Mutant: a retry is allowed whatever has been delivered.
MayRetryAlways(e) == Attempt < MaxAttempts /\ Retriable(e)

MayRetry(e) == ~sup.first /\ Attempt < MaxAttempts /\ Retriable(e)

\* The end of an attempt: io.abort(), then a retry or one terminal event.
Settle(e) ==
  /\ io' = "ended" /\ inbox' = <<>>
  /\ IF e # "none" /\ MayRetry(e)
     THEN sup' = [at |-> "backoff", first |-> sup.first] /\ UNCHANGED outbox
     ELSE /\ sup' = [at |-> "ended", first |-> sup.first]
          /\ outbox' = Append(outbox, IF e = "none" THEN Eof ELSE Error(e))

Forward ==
  /\ sup.at = "forwarding" /\ answer = "none" /\ inbox # <<>>
  /\ LET item == Head(inbox)
     IN IF item.t \in {"usage", "data"}
        THEN /\ sup' = [at |-> sup.at, first |-> sup.first \/ item.t = "data"]
             /\ outbox' = Append(outbox, item)
             /\ inbox' = Tail(inbox)
             /\ UNCHANGED io
        ELSE Settle(IF item.t = "eof" THEN "none" ELSE item.e)
  /\ UNCHANGED <<provider, sent, token, events, answer, stop>>

SeesCancel ==
  /\ sup.at = "forwarding" /\ token /\ answer = "none"
  /\ Settle("cancelled")
  /\ UNCHANGED <<provider, sent, token, events, answer, stop>>

-----------------------------------------------------------------------------
(* The consumer: LiveGatewayTransport::stream.                             *)

\* parse_openai_sse_payload: a finish_reason and [DONE] both complete the message.
ParseOpenAi(f) ==
  CASE f.k = "open"  -> [e |-> "fragment", f |-> f, id |-> TRUE]
    [] f.k = "args"  -> [e |-> "fragment", f |-> f, id |-> FALSE]
    [] f.k = "usage" -> [e |-> "usage", f |-> f]
    [] f.k \in {"finish", "done"} -> [e |-> "completed", f |-> f]
    [] OTHER         -> [e |-> "delta", f |-> f]

\* parse_anthropic_sse_payload: the id and name come with content_block_start, the
\* arguments with input_json_delta; message_delta and message_stop complete.
ParseAnthropic(f) ==
  CASE f.k = "open" -> [e |-> "fragment", f |-> f, id |-> TRUE]
    [] f.k = "args" -> [e |-> "fragment", f |-> f, id |-> FALSE]
    [] f.k \in {"finish", "done"} -> [e |-> "completed", f |-> f]
    [] OTHER        -> [e |-> "delta", f |-> f]

Parse(f) == IF provider = "openai" THEN ParseOpenAi(f) ELSE ParseAnthropic(f)

Recv ==
  /\ answer = "none" /\ outbox # <<>>
  /\ outbox' = Tail(outbox)
  /\ LET item == Head(outbox)
     IN /\ events' = IF item.t = "data" THEN Append(events, Parse(item.f)) ELSE events
        /\ answer' = CASE item.t = "eof" -> "ok" [] item.t = "error" -> "error"
                       [] OTHER -> "none"
  /\ UNCHANGED <<provider, io, sent, inbox, sup, token, stop>>

StopRun ==
  /\ ~stop /\ answer = "none" /\ stop' = TRUE
  /\ UNCHANGED <<provider, io, sent, inbox, sup, token, outbox, events, answer>>

\* A caller that abandons the request fires the stream's cancel handle.
FireToken ==
  /\ stop /\ ~token /\ answer = "none" /\ token' = TRUE
  /\ UNCHANGED <<provider, io, sent, inbox, sup, outbox, events, answer, stop>>

\* The 100 ms tick sees the flag: the invocation ends and its tasks with it.
TickStop ==
  /\ stop /\ answer = "none" /\ sup.at # "idle"
  /\ answer' = "cancelled"
  /\ UNCHANGED <<provider, io, sent, inbox, sup, token, outbox, events, stop>>

Next ==
  \/ Refuse \/ StartAttempt \/ Connected \/ NotConnected \/ IoCancelled \/ StreamEnds
  \/ \E k \in {"text", "finish", "usage", "done"} : Frame(k, 0)
  \/ \E k \in {"open", "args"}, i \in 1..MaxCalls : Frame(k, i)
  \/ Forward \/ SeesCancel \/ Recv \/ StopRun \/ FireToken \/ TickStop

StreamSpec == Init /\ [][Next]_streamVars

-----------------------------------------------------------------------------
(* ToolCallAssembler.                                                      *)

\* A fragment with a call id belongs to the partial of that id, one without to the
\* first partial of its index.
Matches(p, ev) ==
  IF ev.id THEN p.call = <<ev.f.a, ev.f.i>> ELSE p.index = ev.f.i

Fragment(acc, ev) ==
  LET at == {p \in DOMAIN acc.parts : Matches(acc.parts[p], ev)}
      new == [call |-> IF ev.id THEN <<ev.f.a, ev.f.i>> ELSE <<>>, index |-> ev.f.i,
              named |-> ev.id, args |-> <<ev.f.n>>]
  IN IF at = {} THEN [acc EXCEPT !.parts = Append(@, new)]
     ELSE LET p == CHOOSE q \in at : \A r \in at : q <= r
          IN [acc EXCEPT !.parts[p].args = Append(@, ev.f.n)]

\* Completed: the identified calls come out once, in the provider's order.
Flush(acc) ==
  LET known(p) == p.call # <<>> /\ p.named
                  /\ \A c \in DOMAIN acc.calls : acc.calls[c].call # p.call
  IN [acc EXCEPT !.parts = <<>>, !.calls = @ \o SelectSeq(acc.parts, known)]

\* feed, for every event; one_agent.rs keeps the text and the requests.
Feed(acc, ev) ==
  CASE ev.e = "fragment"  -> Fragment(acc, ev)
    [] ev.e = "completed" -> [Flush(acc) EXCEPT !.done = TRUE]
    [] ev.e = "delta"     -> [acc EXCEPT !.text = Append(@, ev.f)]
    [] OTHER              -> [acc EXCEPT !.usage = @ + 1]

Assembled ==
  FoldLeft(Feed, [parts |-> <<>>, calls |-> <<>>, text |-> <<>>, usage |-> 0, done |-> FALSE],
           events)

-----------------------------------------------------------------------------
(* Properties.                                                             *)

\* What the run consumes is a prefix of what the provider sent in one attempt: no
\* retry repeats a frame, whatever fails and whenever.
NothingReplayed ==
  \A n \in DOMAIN events :
    /\ events[n].f.a = Attempt
    /\ events[n].f.n = n

\* The calls of the response are in the result once each, in the order the provider
\* opened them and with every fragment of their arguments, however they interleave.
CallsAreWhole ==
  (answer = "ok" /\ Assembled.done) =>
    LET opens == SelectSeq(Frames, LAMBDA f : f.k = "open")
        argsOf(i) == SelectSeq(Frames, LAMBDA f : f.k \in {"open", "args"} /\ f.i = i)
    IN /\ Len(Assembled.calls) = Len(opens)
       /\ \A c \in DOMAIN opens :
            LET want == argsOf(opens[c].i)
            IN /\ Assembled.calls[c].index = opens[c].i
               /\ Assembled.calls[c].args = [x \in DOMAIN want |-> want[x].n]

\* Both: what the runtime acts on is exactly what one attempt of the provider said.
StreamExact == NothingReplayed /\ CallsAreWhole
=============================================================================
