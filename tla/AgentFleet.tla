----------------------------- MODULE AgentFleet -----------------------------
(***************************************************************************)
(* The agent graph of agent_fleet.rs: nodes in memory, and a journal that  *)
(* gets one line with the whole node for every change and is read back,    *)
(* last line of an agent first, when the core boots.                       *)
(*                                                                         *)
(* A write to the journal may fail without a byte written, with the whole  *)
(* line written, or in the middle of the line; a crash may also cut it.    *)
(* What the next append writes then ends up on the same line.              *)
(***************************************************************************)
EXTENDS Naturals, Sequences, FiniteSets, FiniteSetsExt

CONSTANTS Agents,       \* agent ids, each generated once
          Keys,         \* idempotency keys of spawn calls
          MaxCursor,    \* bound: tool events of an agent
          MaxLines,     \* bound: lines of the journal
          MaxFaults     \* bound: failed writes, and crashes inside a write

VARIABLES nodes,    \* memory: AgentFleet.nodes, NoNode for an agent without one
          keys,     \* memory: AgentFleet.idempotency
          lines,    \* disk: the journal
          core,     \* "up", "poisoned" (a panic under the mutex) or "dead" (boot failed)
          born,     \* history: each agent's identity when it was spawned
          ahead,    \* history: agents whose last write since the boot was reported as failed
          ended,    \* history: agents a steer cancelled, and reported so
          revived,  \* history: agents given a status again after that
          faults

fleetVars == <<nodes, keys, lines, core, born, ahead, ended, revived, faults>>

NoNode == [agent |-> "none"]
Live == {"foreground", "background", "parked"}
Has(a) == nodes[a] # NoNode

Init ==
  /\ nodes = [a \in Agents |-> NoNode] /\ keys = [k \in Keys |-> "none"]
  /\ lines = <<>> /\ core = "up"
  /\ born = [a \in Agents |-> NoNode] /\ ahead = {} /\ ended = {} /\ revived = {}
  /\ faults = 0

-----------------------------------------------------------------------------
(* The journal                                                             *)

Torn == [agent |-> "torn"]

\* A line behind a torn one is written on that line, which then never parses.
Written(file, line) ==
  IF file # <<>> /\ file[Len(file)] = Torn
  THEN [file EXCEPT ![Len(file)] = IF line = Torn THEN Torn ELSE [agent |-> "garbled"]]
  ELSE Append(file, line)

Parses(line) == line.agent \in Agents

\* AgentFleet::load: a later line of an agent replaces the earlier one.
Latest(file, a) ==
  LET mine == {i \in DOMAIN file : file[i].agent = a}
  IN  IF mine = {} THEN NoNode ELSE file[Max(mine)]

LoadedKeys(file) ==
  [k \in Keys |-> LET mine == {i \in DOMAIN file : Parses(file[i]) /\ file[i].key = k}
                  IN  IF mine = {} THEN "none" ELSE file[Max(mine)].agent]

\* persist_node of `node': it works, or it is reported as failed.
Persist(node, works) ==
  /\ core = "up" /\ Len(lines) < MaxLines
  /\ \/ works /\ lines' = Written(lines, node) /\ UNCHANGED faults
     \/ /\ ~works /\ faults < MaxFaults /\ faults' = faults + 1
        /\ lines' \in {lines, Written(lines, node), Written(lines, Torn)}
  /\ ahead' = IF works THEN ahead \ {node.agent} ELSE ahead \cup {node.agent}
  /\ UNCHANGED core

-----------------------------------------------------------------------------
(* The operations                                                          *)

Identity(n) == [agent |-> n.agent, parent |-> n.parent, root |-> n.root, key |-> n.key,
                capsule |-> n.capsule]

\* AgentFleet::spawn (spawn_child differs in the task it binds): the key is bound
\* before the node is written.
Spawn(parent, a, k, capsule, works) ==
  /\ born[a] = NoNode /\ (k # "none" => keys[k] = "none")
  /\ parent # "none" => Has(parent)
  /\ LET node == [agent |-> a, parent |-> parent, key |-> k, capsule |-> capsule,
                  root |-> IF parent = "none" THEN a ELSE nodes[parent].root,
                  status |-> "foreground", cursor |-> 0]
     IN  /\ Persist(node, works)
         /\ keys' = IF k # "none" THEN [keys EXCEPT ![k] = a] ELSE keys
         /\ nodes' = IF works THEN [nodes EXCEPT ![a] = node] ELSE nodes
         /\ born' = [born EXCEPT ![a] = Identity(node)]
  /\ UNCHANGED <<ended, revived>>

\* A replayed key indexes the node it names, and panics when there is none.
Reattach(k) ==
  /\ core = "up" /\ keys[k] # "none" /\ ~Has(keys[k])
  /\ core' = "poisoned"
  /\ UNCHANGED <<nodes, keys, lines, born, ahead, ended, revived, faults>>

\* The node is changed in memory first, whatever the write does.
Update(a, node, works) ==
  /\ Has(a)
  /\ Persist(node, works)
  /\ nodes' = [nodes EXCEPT ![a] = node]
  /\ revived' = IF a \in ended /\ node.status \in Live THEN revived \cup {a} ELSE revived
  /\ UNCHANGED <<keys, born>>

\* transition, by set_background, set_foreground, park and (if parked) resume.
Transition(a, to, works) ==
  /\ Update(a, [nodes[a] EXCEPT !.status = to], works)
  /\ UNCHANGED ended

AdvanceCursor(a, works) ==
  /\ Has(a) /\ nodes[a].cursor < MaxCursor
  /\ Update(a, [nodes[a] EXCEPT !.cursor = @ + 1], works)
  /\ UNCHANGED ended

\* steer: refused for an agent that has ended; only a cancel changes the node.
Steer(a, command, works) ==
  /\ Has(a) /\ nodes[a].status \notin {"completed", "cancelled"}
  /\ Update(a, IF command = "cancel" THEN [nodes[a] EXCEPT !.status = "cancelled"]
               ELSE nodes[a], works)
  /\ ended' = IF command = "cancel" THEN ended \cup {a} ELSE ended

\* Mutant: the child itself is sent to the background.
RequestEffectSelf(a, works) ==
  /\ Has(a) /\ nodes[a].capsule = "no_expansion" /\ nodes[a].parent # "none"
  /\ Update(nodes[a].parent, [nodes[a] EXCEPT !.status = "background"], works)
  /\ UNCHANGED ended

\* request_protected_effect of an agent that may not prompt: its parent is put in
\* the background, and the request refused.
RequestEffect(a, works) ==
  /\ Has(a) /\ nodes[a].capsule = "no_expansion" /\ nodes[a].parent # "none"
  /\ Has(nodes[a].parent)
  /\ Update(nodes[a].parent, [nodes[nodes[a].parent] EXCEPT !.status = "background"], works)
  /\ UNCHANGED ended

\* The core stops, perhaps in the middle of a write, and boots again: a journal
\* with a line that does not parse ends it with exit code 1.
Restart(torn) ==
  /\ core # "dead"
  /\ torn => core = "up" /\ Len(lines) < MaxLines /\ faults < MaxFaults
  /\ faults' = IF torn THEN faults + 1 ELSE faults
  /\ LET file == IF torn THEN Written(lines, Torn) ELSE lines
     IN  /\ lines' = file
         /\ IF \A i \in DOMAIN file : Parses(file[i])
            THEN /\ core' = "up"
                 /\ nodes' = [a \in Agents |-> Latest(file, a)]
                 /\ keys' = LoadedKeys(file)
            ELSE core' = "dead" /\ UNCHANGED <<nodes, keys>>
  /\ ahead' = {} /\ ended' = ended \ ahead
  /\ UNCHANGED <<born, revived>>

Next ==
  \/ \E a \in Agents, works \in BOOLEAN :
       \/ \E p \in Agents \cup {"none"}, k \in Keys \cup {"none"},
             c \in {"expansion", "no_expansion"} : Spawn(p, a, k, c, works)
       \/ \E to \in Live : Transition(a, to, works)
       \/ \E command \in {"steer", "cancel"} : Steer(a, command, works)
       \/ AdvanceCursor(a, works) \/ RequestEffect(a, works)
  \/ \E k \in Keys : Reattach(k)
  \/ \E torn \in BOOLEAN : Restart(torn)

FleetSpec == Init /\ [][Next]_fleetVars

-----------------------------------------------------------------------------
(* Properties                                                              *)

\* REQ-EV-0047: the lineage.  Every edge of agent_graph ends at a node of the same
\* root, through transitions and restarts, unless the parent's own spawn failed.
AgentGraph == {<<nodes[a].parent, a>> : a \in {b \in Agents : Has(b) /\ nodes[b].parent # "none"}}
LineageKept ==
  core = "up" => \A e \in AgentGraph : Has(e[1]) /\ nodes[e[1]].root = nodes[e[2]].root

\* REQ-EV-0008: an agent stays what it was spawned as (parent, root, key, capsule),
\* and what may be resolved through its capsule with it.
IdentityKept ==
  \A a \in Agents : Has(a) => nodes[a].agent = a /\ Identity(nodes[a]) = born[a]

\* REQ-EV-0049: the next boot, if there is one, finds the agents as they are now,
\* but for those whose last write was reported as failed.
NextBootAgrees ==
  core = "up" /\ (\A i \in DOMAIN lines : Parses(lines[i])) =>
    \A a \in Agents \ ahead : Latest(lines, a) = nodes[a]

\* REQ-EV-0007: no two agents have the same key, and a key names its agent.
OneAgentPerKey ==
  \A a, b \in Agents : Has(a) /\ Has(b) /\ nodes[a].key = nodes[b].key /\ a # b
                         => nodes[a].key = "none"

\* REQ-EV-0009: a cancelled agent stays cancelled, unless somebody gives it another
\* status (which its own children do when they ask for an effect) or the
\* cancellation was never written.
CancelStands ==
  \A a \in ended \ (revived \cup ahead) : Has(a) => nodes[a].status \notin Live

\* A panic is possible only behind a spawn whose write failed.
PanicsExplained == core = "poisoned" => ahead # {}

FleetSound ==
  LineageKept /\ IdentityKept /\ NextBootAgrees /\ OneAgentPerKey /\ CancelStands /\ PanicsExplained

\* "resumable from the same state after a Core restart" (agent_fleet.rs:340-341): a
\* restart leads to a core that is up.
ParkedIsResumable == core # "dead"

=============================================================================
