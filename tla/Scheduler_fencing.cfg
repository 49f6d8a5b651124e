\* Two cores on one store: the one that boots later takes the session over.
SPECIFICATION Spec
CONSTANTS
  Tasks = {t1}
  Cores = {c1, c2}
  Requests = {"start", "stop", "pause"}
  Faults = {"provider"}
  NoRun = NoRun
  MaxTurns = 3
  MaxRequests = 2
  MaxStarts = 1
  MaxCrashes = 0
INVARIANTS
  StoppedRunIsBounded
CHECK_DEADLOCK FALSE
