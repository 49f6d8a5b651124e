----------------------------- MODULE EventDaemon -----------------------------
(***************************************************************************)
(* The SSE event stream of the headless core (daemon.rs over               *)
(* store.rs:events_since_global) and the journal that keeps each client's  *)
(* cursor across restarts (protocol-state/lib.rs).                         *)
(*                                                                         *)
(* A client either keeps its own offset and passes it as `since`, or gives *)
(* a name and lets the daemon remember.  Bytes written to a socket are in  *)
(* the pipe until the client reads them; a lost connection empties it.     *)
(***************************************************************************)
EXTENDS Naturals, Sequences, FiniteSets, FiniteSetsExt

CONSTANTS Keepers,      \* clients that pass the offset of the last event they got
          Named,        \* clients that leave the cursor to the daemon
          Batch,        \* EVENTS_BATCH
          MaxLog,       \* bound: events committed
          MaxFaults     \* bound: connections lost and core crashes

Clients == Keepers \cup Named

VARIABLES log,      \* rowid of the newest committed event
          feed,     \* per client: the serving thread
          pipe,     \* per client: events written to the socket, not yet read
          got,      \* per client: events read, in order
          lines,    \* the cursor journal on disk
          mem,      \* its records in memory; FALSE when the journal could not be opened
          faults,   \* connections lost and crashes so far
          sent,     \* history: newest event written to a client's sockets
          spilled   \* history: events that were in a pipe when it was lost

daemonVars == <<log, feed, pipe, got, lines, mem, faults, sent, spilled>>

Closed == [at |-> "closed", since |-> 0]
Opened(records) == [ok |-> TRUE, records |-> records]

Init ==
  /\ log = 0
  /\ feed = [c \in Clients |-> Closed]
  /\ pipe = [c \in Clients |-> <<>>]
  /\ got = [c \in Clients |-> <<>>]
  /\ lines = <<>>
  /\ mem = Opened(<<>>)
  /\ faults = 0
  /\ sent = [c \in Clients |-> 0]
  /\ spilled = [c \in Clients |-> {}]

Commit ==
  /\ log < MaxLog /\ log' = log + 1
  /\ UNCHANGED <<feed, pipe, got, lines, mem, faults, sent, spilled>>

-----------------------------------------------------------------------------
(* The cursor journal                                                      *)

Parses(line) == line.kind = "record"

\* ProtocolStateStore::open: a line that does not parse is a torn tail when it
\* is the last one, and an error anywhere else.
OpenJournal(file) ==
  LET bad == {i \in DOMAIN file : ~Parses(file[i])}
  IN  IF \E i \in bad : i # Len(file) THEN [ok |-> FALSE, records |-> <<>>]
      ELSE Opened(IF bad = {} THEN file ELSE SubSeq(file, 1, Len(file) - 1))

\* append writes behind whatever the file ends with: after a torn tail there is
\* no newline, and the two run together into one line that does not parse.
Appended(line) ==
  IF lines # <<>> /\ lines[Len(lines)].kind = "torn"
  THEN [lines EXCEPT ![Len(lines)] = [line EXCEPT !.kind =
          IF line.kind = "torn" THEN "torn" ELSE "garbled"]]
  ELSE Append(lines, line)

\* last_cursor: the latest record of the client wins.
LastCursor(c) ==
  LET mine == {i \in DOMAIN mem.records : mem.records[i].client = c}
  IN  IF mem.ok /\ mine # {} THEN mem.records[Max(mine)].offset ELSE 0

-----------------------------------------------------------------------------
(* The stream                                                              *)

Last(c) == IF got[c] = <<>> THEN 0 ELSE got[c][Len(got[c])]

\* GET /events: an explicit `since`, else the persisted cursor, else 0.
Connect(c) ==
  /\ feed[c] = Closed /\ pipe[c] = <<>>
  /\ feed' = [feed EXCEPT ![c] = [at |-> "poll",
                since |-> IF c \in Keepers THEN Last(c) ELSE LastCursor(c)]]
  /\ UNCHANGED <<log, pipe, got, lines, mem, faults, sent, spilled>>

\* events_since_global: at most Batch events behind the offset, and the new one.
EventsSince(since) ==
  LET new == IF log < since + Batch THEN log ELSE since + Batch
  IN  [events |-> [i \in 1..(new - since) |-> since + i], offset |-> new]

\* Mutant: the cursor is journalled before the events are written.
PollCursorFirst(c) ==
  /\ feed[c].at = "poll" /\ feed[c].since < log
  /\ LET page == EventsSince(feed[c].since)
     IN  /\ feed' = [feed EXCEPT ![c] = [at |-> "poll", since |-> page.offset]]
         /\ lines' = Appended([kind |-> "record", client |-> c, offset |-> page.offset])
         /\ mem' = [mem EXCEPT !.records = Append(@, [kind |-> "record", client |-> c,
                                                      offset |-> page.offset])]
  /\ UNCHANGED <<log, pipe, got, faults, sent, spilled>>

\* One poll writes the page to the socket ...
Poll(c) ==
  /\ feed[c].at = "poll" /\ feed[c].since < log
  /\ LET page == EventsSince(feed[c].since)
     IN  /\ pipe' = [pipe EXCEPT ![c] = @ \o page.events]
         /\ feed' = [feed EXCEPT ![c] = [at |-> "persist", since |-> page.offset]]
         /\ sent' = [sent EXCEPT ![c] = IF page.offset > @ THEN page.offset ELSE @]
  /\ UNCHANGED <<log, got, lines, mem, faults, spilled>>

\* ... then journals the cursor of a named client; a failure is only logged.
\* (A poll that finds nothing journals the same cursor again, which changes no
\* answer of last_cursor and is left out.)
Persist(c, works) ==
  /\ feed[c].at = "persist"
  /\ feed' = [feed EXCEPT ![c].at = "poll"]
  /\ IF c \in Named /\ mem.ok /\ works
     THEN LET r == [kind |-> "record", client |-> c, offset |-> feed[c].since]
          IN  lines' = Appended(r) /\ mem' = [mem EXCEPT !.records = Append(@, r)]
     ELSE UNCHANGED <<lines, mem>>
  /\ UNCHANGED <<log, pipe, got, faults, sent, spilled>>

Read(c) ==
  /\ pipe[c] # <<>>
  /\ got' = [got EXCEPT ![c] = Append(@, Head(pipe[c]))]
  /\ pipe' = [pipe EXCEPT ![c] = Tail(@)]
  /\ UNCHANGED <<log, feed, lines, mem, faults, sent, spilled>>

Spill(cs) ==
  /\ pipe' = [c \in Clients |-> IF c \in cs THEN <<>> ELSE pipe[c]]
  /\ spilled' = [c \in Clients |-> IF c \in cs
       THEN spilled[c] \cup {pipe[c][i] : i \in DOMAIN pipe[c]} ELSE spilled[c]]

\* The connection is lost; the thread ends at its next write.
Drop(c) ==
  /\ feed[c].at # "closed" /\ faults < MaxFaults
  /\ faults' = faults + 1
  /\ feed' = [feed EXCEPT ![c] = Closed]
  /\ Spill({c})
  /\ UNCHANGED <<log, got, lines, mem, sent>>

\* The core dies, perhaps in the middle of an append, and its next boot opens
\* the journal; one that cannot be opened leaves the daemon without cursors.
Stop(torn) ==
  /\ faults < MaxFaults
  /\ faults' = faults + 1
  /\ feed' = [c \in Clients |-> Closed]
  /\ Spill(Clients)
  /\ torn => \E c \in Named : feed[c].at # "closed" /\ mem.ok
  /\ lines' = IF torn THEN Appended([kind |-> "torn", client |-> "", offset |-> 0]) ELSE lines
  /\ mem' = OpenJournal(IF torn THEN Appended([kind |-> "torn", client |-> "", offset |-> 0])
                        ELSE lines)
  /\ UNCHANGED <<log, got, sent>>

Next ==
  \/ Commit
  \/ \E c \in Clients : Connect(c) \/ Poll(c) \/ Read(c) \/ Drop(c)
  \/ \E c \in Clients, works \in BOOLEAN : Persist(c, works)
  \/ \E torn \in BOOLEAN : Stop(torn)

DaemonSpec == Init /\ [][Next]_daemonVars

-----------------------------------------------------------------------------
\* A client that passes its own offset gets every event once and in order,
\* whatever connections and cores it loses (the offset is the global rowid).
KeepersGetAll ==
  \A c \in Keepers : \A i \in DOMAIN got[c] : got[c][i] = i

\* The daemon never remembers a cursor beyond what it has written, through
\* torn lines and restarts, and a named client misses nothing but what was on
\* the wire of a lost connection.
NamedMissOnlySpilled ==
  \A c \in Named :
    /\ LastCursor(c) <= sent[c]
    /\ LET seen == {got[c][i] : i \in DOMAIN got[c]}
       IN  (seen # {} => (1..Max(seen)) \ seen \subseteq spilled[c])

StreamAccounted == KeepersGetAll /\ NamedMissOnlySpilled

\* "replay is at-least-once by construction" (daemon.rs:sse_stream): a client
\* that has caught up and has nothing on the wire has every event.
ReplayIsAtLeastOnce ==
  \A c \in Clients : (feed[c].at = "poll" /\ feed[c].since = log /\ pipe[c] = <<>>) =>
    {got[c][i] : i \in DOMAIN got[c]} = 1..log

=============================================================================
