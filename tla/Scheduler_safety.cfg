\* One core with every fault and request, a crash and a restart.
SPECIFICATION Spec
CONSTANTS
  Tasks = {t1}
  Cores = {c1}
  Requests = {"start", "stop", "pause", "steer", "review"}
  Faults = {"allocation", "resume", "lease", "provider"}
  NoRun = NoRun
  MaxTurns = 2
  MaxRequests = 4
  MaxStarts = 2
  MaxCrashes = 1
INVARIANTS
  TypeOK
  FreshRunIsFirst
PROPERTIES
  ReviewFollowsCompletion
CHECK_DEADLOCK FALSE
