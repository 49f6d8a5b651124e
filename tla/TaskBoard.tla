----------------------------- MODULE TaskBoard -----------------------------
(***************************************************************************)
(* What the store promises a client that watches its tasks: a board with   *)
(* one state per task, on which a task appears as created and then moves   *)
(* only along the edges of the state machine of crates/domain.             *)
(***************************************************************************)
EXTENDS TaskLifecycle

CONSTANT Tasks
VARIABLE board   \* the state of each task, None before it appears

Init == board = [t \in Tasks |-> None]

Appear(t) ==
  /\ board[t] = None
  /\ board' = [board EXCEPT ![t] = "created"]

Move(t, ev) ==
  /\ board[t] \in AcceptedFrom(ev)
  /\ board' = [board EXCEPT ![t] = StateAfter(@, ev)]

Next == \E t \in Tasks : Appear(t) \/ \E ev \in TaskEvents : Move(t, ev)

Spec == Init /\ [][Next]_board

\* A terminal task never leaves its terminal state, whatever command follows.
TerminalIsFinal ==
  [][\A t \in Tasks : board[t] \in Terminal => board'[t] = board[t]]_board
=============================================================================
