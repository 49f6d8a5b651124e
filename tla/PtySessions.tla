---------------------------- MODULE PtySessions ----------------------------
(***************************************************************************)
(* Interactive terminal sessions (terminal/pty.rs) and their clients       *)
(* (terminal/client.rs): named sessions of the broker, each with a child,  *)
(* a buffer of everything it printed, and a thread that drains the         *)
(* terminal into that buffer.                                              *)
(*                                                                         *)
(* Every operation holds the lock of the session table to its end; a write *)
(* blocks in it while the terminal's input queue is full.  A name that was *)
(* cancelled may be spawned again: a life counts the children of a name.   *)
(***************************************************************************)
EXTENDS Naturals

CONSTANTS Names,        \* session ids
          Users,        \* clients
          InputCap,     \* what the terminal's input queue holds
          Chunk,        \* max bytes of one read
          MaxOutput,    \* bound: output of a child
          MaxLives,     \* bound: children per name
          MaxCalls      \* bound: calls per user

VARIABLES table,    \* session table: the names that have a session
          life,     \* per name: children so far
          child,    \* per name: "none", "running", "exited" or "killed"
          printed,  \* per name: bytes the child has written
          tty,      \* per name: bytes not drained yet
          buffer,   \* per name: length of the session's output buffer
          alive,    \* per name: the session's flag
          input,    \* per name: bytes in the terminal's input queue
          lock,     \* holder of the table's lock: a user, or "free"
          call,     \* per user: the call it makes
          seen,     \* per user: name -> what it collected: [life, offset, gap]
          made      \* per user: calls so far

ptyVars == <<table, life, child, printed, tty, buffer, alive, input, lock, call, seen, made>>

NoCall == [at |-> "none", op |-> "", name |-> "", left |-> 0]
Unread == [life |-> 0, offset |-> 0, gap |-> FALSE]

Init ==
  /\ table = {}
  /\ life = [n \in Names |-> 0] /\ child = [n \in Names |-> "none"]
  /\ printed = [n \in Names |-> 0] /\ tty = [n \in Names |-> 0]
  /\ buffer = [n \in Names |-> 0] /\ alive = [n \in Names |-> FALSE]
  /\ input = [n \in Names |-> 0]
  /\ lock = "free"
  /\ call = [u \in Users |-> NoCall]
  /\ seen = [u \in Users |-> [n \in Names |-> Unread]]
  /\ made = [u \in Users |-> 0]

\* A client calls; the broker answers one call of a connection at a time.
Call(u, op, n, bytes) ==
  /\ call[u].at = "none" /\ made[u] < MaxCalls
  /\ made' = [made EXCEPT ![u] = made[u] + 1]
  /\ call' = [call EXCEPT ![u] = [at |-> "asked", op |-> op, name |-> n, left |-> bytes]]
  /\ UNCHANGED <<table, life, child, printed, tty, buffer, alive, input, lock, seen>>

Serves(u, op) == call[u].at = "asked" /\ call[u].op = op /\ lock = "free"
Answer(u) == call' = [call EXCEPT ![u] = NoCall]

\* No session of that name, or one that is there already.
Refuse(u) ==
  /\ call[u].at = "asked" /\ lock = "free"
  /\ IF call[u].op = "spawn" THEN call[u].name \in table
     ELSE call[u].name \notin table /\ call[u].op # "kill"
  /\ Answer(u)
  /\ UNCHANGED <<table, life, child, printed, tty, buffer, alive, input, lock, seen, made>>

\* A fresh terminal and child, an empty buffer and its reader thread.
Spawn(u) ==
  /\ Serves(u, "spawn")
  /\ LET n == call[u].name IN
     /\ n \notin table /\ life[n] < MaxLives
     /\ table' = table \cup {n}
     /\ life' = [life EXCEPT ![n] = life[n] + 1]
     /\ child' = [child EXCEPT ![n] = "running"]
     /\ printed' = [printed EXCEPT ![n] = 0] /\ tty' = [tty EXCEPT ![n] = 0]
     /\ buffer' = [buffer EXCEPT ![n] = 0] /\ alive' = [alive EXCEPT ![n] = TRUE]
     /\ input' = [input EXCEPT ![n] = 0]
  /\ Answer(u)
  /\ UNCHANGED <<lock, seen, made>>

\* External: the child prints, reads its input, or ends.
Prints(n) ==
  /\ child[n] = "running" /\ printed[n] < MaxOutput
  /\ printed' = [printed EXCEPT ![n] = printed[n] + 1] /\ tty' = [tty EXCEPT ![n] = tty[n] + 1]
  /\ UNCHANGED <<table, life, child, buffer, alive, input, lock, call, seen, made>>

Consume(n) ==
  /\ child[n] = "running" /\ input[n] > 0
  /\ input' = [input EXCEPT ![n] = input[n] - 1]
  /\ UNCHANGED <<table, life, child, printed, tty, buffer, alive, lock, call, seen, made>>

Exit(n) ==
  /\ child[n] = "running"
  /\ child' = [child EXCEPT ![n] = "exited"]
  /\ UNCHANGED <<table, life, printed, tty, buffer, alive, input, lock, call, seen, made>>

\* The reader thread moves what the terminal holds into the buffer ...
Drain(n) ==
  /\ tty[n] > 0 /\ n \in table
  /\ buffer' = [buffer EXCEPT ![n] = buffer[n] + tty[n]] /\ tty' = [tty EXCEPT ![n] = 0]
  /\ UNCHANGED <<table, life, child, printed, alive, input, lock, call, seen, made>>

\* ... and ends when there is no more and no child holds the terminal.
DrainEnds(n) ==
  /\ n \in table /\ alive[n] /\ child[n] # "running" /\ tty[n] = 0
  /\ alive' = [alive EXCEPT ![n] = FALSE]
  /\ UNCHANGED <<table, life, child, printed, tty, buffer, input, lock, call, seen, made>>

\* PtyBroker::read: how many bytes there are from the offset, and the end of them,
\* which is the end of the buffer when the offset lies beyond.
Slice(offset, len) ==
  LET end == IF offset + Chunk < len THEN offset + Chunk ELSE len
  IN  [bytes |-> IF offset < len THEN end - offset ELSE 0, next |-> end]

\* The client reads on from where it is, and continues from the offset answered.
ReadPty(u) ==
  /\ Serves(u, "read")
  /\ LET n    == call[u].name
         mine == seen[u][n]
         page == Slice(mine.offset, buffer[n])
     IN  /\ n \in table
         /\ seen' = [seen EXCEPT ![u][n] =
              [life   |-> life[n],
               offset |-> page.next,
               gap    |-> mine.gap \/ (mine.life # life[n] /\ mine.offset > 0)
                                   \/ page.next # mine.offset + page.bytes]]
  /\ Answer(u)
  /\ UNCHANGED <<table, life, child, printed, tty, buffer, alive, input, lock, made>>

\* PtyBroker::write: the table's lock and the session's are held until the last
\* byte is in the terminal's queue.
WriteStarts(u) ==
  /\ Serves(u, "write") /\ call[u].name \in table
  /\ lock' = u
  /\ call' = [call EXCEPT ![u].at = "writing"]
  /\ UNCHANGED <<table, life, child, printed, tty, buffer, alive, input, seen, made>>

WriteByte(u) ==
  /\ call[u].at = "writing" /\ call[u].left > 0
  /\ LET n == call[u].name IN
     /\ child[n] = "running" /\ input[n] < InputCap
     /\ input' = [input EXCEPT ![n] = input[n] + 1]
  /\ call' = [call EXCEPT ![u].left = call[u].left - 1]
  /\ UNCHANGED <<table, life, child, printed, tty, buffer, alive, lock, seen, made>>

\* All bytes are written, or the terminal has no child any more.
WriteEnds(u) ==
  /\ call[u].at = "writing"
  /\ call[u].left = 0 \/ child[call[u].name] # "running"
  /\ lock' = "free" /\ Answer(u)
  /\ UNCHANGED <<table, life, child, printed, tty, buffer, alive, input, seen, made>>

\* Mutant: the session is dropped and its child left running.
KillForgets(u) ==
  /\ Serves(u, "kill")
  /\ table' = table \ {call[u].name}
  /\ Answer(u)
  /\ UNCHANGED <<life, child, printed, tty, buffer, alive, input, lock, seen, made>>

\* PtyBroker::kill: the session is dropped and its child killed; a name without
\* a session is no error.
Kill(u) ==
  /\ Serves(u, "kill")
  /\ LET n == call[u].name IN
     /\ child' = [child EXCEPT ![n] = IF n \in table /\ child[n] = "running" THEN "killed"
                                     ELSE child[n]]
     /\ table' = table \ {n}
  /\ Answer(u)
  /\ UNCHANGED <<life, printed, tty, buffer, alive, input, lock, seen, made>>

Next ==
  \/ \E u \in Users, n \in Names :
       \/ \E op \in {"spawn", "read", "kill"} : Call(u, op, n, 0)
       \/ Call(u, "write", n, InputCap + 1)
  \/ \E u \in Users : Refuse(u) \/ Spawn(u) \/ ReadPty(u) \/ WriteStarts(u) \/ WriteByte(u)
                      \/ WriteEnds(u) \/ Kill(u)
  \/ \E n \in Names : Prints(n) \/ Consume(n) \/ Exit(n) \/ Drain(n) \/ DrainEnds(n)

PtySpec == Init /\ [][Next]_ptyVars

\* The broker serves its calls, and the reader threads run; nothing makes a
\* child read, print or end.
PtyFair ==
  /\ \A u \in Users : WF_ptyVars(Refuse(u) \/ Spawn(u) \/ ReadPty(u) \/ Kill(u))
                      /\ WF_ptyVars(WriteStarts(u)) /\ WF_ptyVars(WriteByte(u) \/ WriteEnds(u))
  /\ \A n \in Names : WF_ptyVars(Drain(n) \/ DrainEnds(n))

FairPtySpec == PtySpec /\ PtyFair

-----------------------------------------------------------------------------
(* Properties                                                              *)

\* A reader that stays with one child has its output from the first byte on; the
\* offset it holds lies beyond the buffer only when the name was respawned.
ReadersContiguous ==
  \A u \in Users, n \in Names :
    LET s == seen[u][n] IN
    /\ s.life = life[n] => s.offset <= buffer[n]
    /\ s.gap => life[n] > 1

\* Nothing a child printed is lost: it is in the terminal or in the buffer, and a
\* session that is not alive any more has all of it in the buffer.
OutputKept ==
  \A n \in table : /\ buffer[n] + tty[n] = printed[n]
                   /\ ~alive[n] => buffer[n] = printed[n]

\* A child outlives its session never, and a session that is in the table has a
\* flag that turns false only after its child ended.
ChildrenOwned ==
  \A n \in Names : /\ child[n] = "running" => n \in table
                   /\ n \in table /\ ~alive[n] => child[n] # "running"

\* The three together, about PtyBroker and ExecdClient's pty calls.
PtySound == ReadersContiguous /\ OutputKept /\ ChildrenOwned

\* pty.rs:1-6: "the caller can write to its stdin, read accumulated output,
\* resize, and kill": a cancel is answered, whatever the child does.
CancelIsAnswered == \A u \in Users : [](call[u].op = "kill" => <>(call[u].at = "none"))

=============================================================================
