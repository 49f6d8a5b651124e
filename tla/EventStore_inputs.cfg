\* Two sessions (one of them may be a fork), two tasks, client-chosen input ids,
\* and rebuilds of the projections at any point.
SPECIFICATION RebuildSpec
CONSTANTS
  Sessions = {s1, s2}
  Tasks = {t1, t2}
  Runs = {}
  Inputs = {i1, i2}
  Leases = {}
  Kinds = {"CreateSession", "CreateTask", "QueueTask", "StartTask", "FailTask",
           "QueueTaskInput", "AskSideQuestion", "ForkSession", "RewindSession",
           "SteerTask", "SetGoal"}
  NoArg = NoArg
  NoRow = NoRow
  NoLease = NoLease
  MaxCommands = 7
  MaxLog = 8
INVARIANTS
  
  AppliedExactlyOnce
  InputQueueFaithful
PROPERTY RebuildReproduces
