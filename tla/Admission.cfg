\* Two connection threads, a parent and its children, one key, one crash.
SPECIFICATION Spec
CONSTANTS
  Tasks = {t1, t2, t3}
  Existing = {t1}
  Handlers = {h1, h2}
  Keys = {k1}
  NoKey = NoKey
  Repos = {}
  Default = Default
  Paths <- MCPaths
  Scopes <- MCScopes
  NoTask = NoTask
  Idle = Idle
  ClientEvents = {"task_cancelled", "task_started", "task_ready_for_review"}
  Faults = {"journal", "scopes"}
  MaxChildren = 1
  MaxRequests = 3
  MaxCrashes = 1
SYMMETRY Symmetry
INVARIANTS
  WriteScopesDisjoint
  RefusedHoldsNothing
  
  OneNodePerKey
CHECK_DEADLOCK FALSE
