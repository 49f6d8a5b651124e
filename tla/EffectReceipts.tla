--------------------------- MODULE EffectReceipts ---------------------------
(***************************************************************************)
(* External tool calls and their receipts: external.call and the run's     *)
(* ledger (scheduler.rs), the hash-chained receipt file (effects/lib.rs)   *)
(* and the pool of MCP server sessions (mcp/lib.rs).                       *)
(*                                                                         *)
(* Every run opens the ledger file for itself and chains from the head it  *)
(* read then; runs of several tasks overlap.  A receipt is known by a      *)
(* fresh number, which stands for its chain hash.                          *)
(***************************************************************************)
EXTENDS Naturals, Sequences, FiniteSets

CONSTANTS Runs,         \* task runs, each at most once
          MaxCalls,     \* bound: external calls made
          MaxSlips      \* bound: crashes, failed and torn writes, server failures

VARIABLES book,     \* per ledger file: its lines on disk
          run,      \* per run: [at, book, head, client, tool]
          calls,    \* external calls: [run, done, lost]
          slips,    \* faults so far
          clouded   \* history: ledger files with an overlap of writers or a write fault

receiptVars == <<book, run, calls, slips, clouded>>

Books == {"main", "fallback"}
Genesis == 0
NotRunning == [at |-> "new", book |-> "main", head |-> Genesis, client |-> "none", tool |-> 0]

Init ==
  /\ book = [b \in Books |-> <<>>]
  /\ run = [r \in Runs |-> NotRunning]
  /\ calls = <<>>
  /\ slips = 0
  /\ clouded = {}

-----------------------------------------------------------------------------
(* The chain                                                               *)

\* Chain::verify: each receipt links to the one before it.
Verifies(lines) ==
  \A i \in DOMAIN lines :
    lines[i].whole /\ lines[i].prev = (IF i = 1 THEN Genesis ELSE lines[i - 1].hash)

LastHash(lines) == IF lines = <<>> THEN Genesis ELSE lines[Len(lines)].hash

\* Ledger::open takes a file only if all of it parses and verifies.
Opens(b) == Verifies(book[b])

Live(b) == {r \in Runs : run[r].at \in {"open", "called"} /\ run[r].book = b}

\* The run opens the ledger; one that does not verify is left alone for the
\* fallback file, and when that does not verify either the run panics.
OpenLedger(r) ==
  /\ run[r].at = "new"
  /\ LET good == {b \in Books : Opens(b)}
         b == IF "main" \in good THEN "main" ELSE "fallback"
     IN  IF good = {} THEN run' = [run EXCEPT ![r].at = "panicked"] /\ UNCHANGED clouded
         ELSE /\ run' = [run EXCEPT ![r] = [@ EXCEPT !.at = "open", !.book = b,
                                                     !.head = LastHash(book[b])]]
              /\ clouded' = IF Live(b) # {} THEN clouded \cup {b} ELSE clouded
  /\ UNCHANGED <<book, calls, slips>>

-----------------------------------------------------------------------------
(* The call                                                                *)

\* McpPool::client: a session is spawned on first use and kept, dead or alive.
Spawn(r, works) ==
  /\ run[r].at = "open" /\ run[r].client = "none"
  /\ works \/ slips < MaxSlips
  /\ slips' = IF works THEN slips ELSE slips + 1
  /\ run' = [run EXCEPT ![r].client = IF works THEN "live" ELSE "none"]
  /\ UNCHANGED <<book, calls, clouded>>

\* call_tool: the server does the work and answers; or rejects the call; or
\* dies, before or after doing the work, and the call fails as Closed.
WorkDone(how) == CASE how = "answers" -> {TRUE} [] how = "rejects" -> {FALSE} [] OTHER -> BOOLEAN

\* external.call: an error returns before any receipt.
CallTool(r, how) ==
  /\ run[r].at = "open" /\ run[r].client = "live" /\ Len(calls) < MaxCalls
  /\ how = "dies" => slips < MaxSlips
  /\ slips' = IF how = "dies" THEN slips + 1 ELSE slips
  /\ \E done \in WorkDone(how) :
       calls' = Append(calls, [run |-> r, done |-> done, lost |-> how # "answers"])
  /\ run' = [run EXCEPT ![r] = [@ EXCEPT
               !.at = IF how = "answers" THEN "called" ELSE "open",
               !.client = IF how = "dies" THEN "dead" ELSE "live",
               !.tool = Len(calls) + 1]]
  /\ UNCHANGED <<book, clouded>>

\* A dead session is never spawned again: every later call fails.
CallDead(r) ==
  /\ run[r].at = "open" /\ run[r].client = "dead"
  /\ run' = [run EXCEPT ![r].at = "ended"]
  /\ UNCHANGED <<book, calls, slips, clouded>>

Receipt(r, whole) == [prev |-> run[r].head, hash |-> run[r].tool, whole |-> whole]

\* Mutant: the head is not advanced with the chain.
AppendKeepsHead(r, how) ==
  /\ run[r].at = "called" /\ how = "written"
  /\ run' = [run EXCEPT ![r].at = "open"]
  /\ book' = [book EXCEPT ![run[r].book] = Append(@, Receipt(r, TRUE))]
  /\ UNCHANGED <<calls, slips, clouded>>

\* Ledger::append: the chain in memory first, then the file; the caller drops
\* the error of a write that failed.
AppendReceipt(r, how) ==
  /\ run[r].at = "called"
  /\ run' = [run EXCEPT ![r].at = "open", ![r].head = run[r].tool]
  /\ CASE how = "written" ->
            /\ book' = [book EXCEPT ![run[r].book] = Append(@, Receipt(r, TRUE))]
            /\ UNCHANGED <<calls, slips, clouded>>
       [] how = "failed" ->
            /\ slips < MaxSlips /\ slips' = slips + 1
            /\ clouded' = clouded \cup {run[r].book}
            /\ calls' = [calls EXCEPT ![run[r].tool].lost = TRUE]
            /\ UNCHANGED book

End(r) ==
  /\ run[r].at = "open" /\ run' = [run EXCEPT ![r].at = "ended"]
  /\ UNCHANGED <<book, calls, slips, clouded>>

\* The core dies with all its runs; a receipt being written may be torn.
Crash ==
  /\ slips < MaxSlips /\ slips' = slips + 1
  /\ \E torn \in SUBSET {r \in Runs : run[r].at = "called"} :
       /\ Cardinality(torn) <= 1
       /\ book' = [b \in Books |->
            IF \E r \in torn : run[r].book = b
            THEN Append(book[b], Receipt(CHOOSE r \in torn : TRUE, FALSE)) ELSE book[b]]
       /\ clouded' = clouded \cup {run[r].book : r \in torn}
  /\ calls' = [i \in DOMAIN calls |->
       IF run[calls[i].run].at = "called" /\ run[calls[i].run].tool = i
       THEN [calls[i] EXCEPT !.lost = TRUE] ELSE calls[i]]
  /\ run' = [r \in Runs |-> IF run[r].at \in {"open", "called"}
                            THEN [run[r] EXCEPT !.at = "ended"] ELSE run[r]]

Next ==
  \/ \E r \in Runs :
       \/ OpenLedger(r) \/ End(r) \/ CallDead(r)
       \/ \E works \in BOOLEAN : Spawn(r, works)
       \/ \E how \in {"answers", "rejects", "dies"} : CallTool(r, how)
       \/ \E how \in {"written", "failed"} : AppendReceipt(r, how)
  \/ Crash

ReceiptSpec == Init /\ [][Next]_receiptVars

-----------------------------------------------------------------------------
\* Line j of file b is a whole receipt of call i.
ReceiptOf(b, j, i) == book[b][j].whole /\ book[b][j].hash = i

Receipted(i) == \E b \in Books : \E j \in DOMAIN book[b] : ReceiptOf(b, j, i)

\* A work done by a server has its receipt on disk or about to be written,
\* unless the call failed on the way back, the write failed or the core died;
\* every whole receipt is of a call that was answered, once; and a file that
\* one run at a time has written, without a write fault, verifies.
ReceiptsAccounted ==
  /\ \A i \in DOMAIN calls :
       /\ calls[i].done /\ ~calls[i].lost /\ ~Receipted(i) =>
            run[calls[i].run].at = "called" /\ run[calls[i].run].tool = i
       /\ Receipted(i) => calls[i].done
  /\ \A b, c \in Books : \A j \in DOMAIN book[b], k \in DOMAIN book[c] :
       /\ book[b][j].whole => book[b][j].hash \in DOMAIN calls
       /\ book[b][j].whole /\ ReceiptOf(c, k, book[b][j].hash) => b = c /\ j = k
  /\ \A b \in Books \ clouded : Verifies(book[b])

\* "Loads the existing chain (if any) so the hash continues" (effects/lib.rs):
\* without a fault the ledger of the core verifies at every moment.
LedgerVerifies == slips = 0 => Verifies(book["main"])

=============================================================================
