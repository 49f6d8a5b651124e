\* A rejected command that leaves rows behind.
SPECIFICATION Spec
CONSTANTS
  Sessions = {s1, s2}
  Tasks = {t1, t2}
  Runs = {}
  Inputs = {i1, i2}
  Leases = {}
  Kinds = {"CreateSession", "CreateTask", "QueueTask", "StartTask", "FailTask",
           "QueueTaskInput", "AskSideQuestion", "ForkSession", "RewindSession"}
  NoArg = NoArg
  NoRow = NoRow
  NoLease = NoLease
  MaxCommands = 7
  MaxLog = 8
INVARIANT RejectedAppendsNothing
