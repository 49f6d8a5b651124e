\* A paused task that is started again.
SPECIFICATION FairSpec
CONSTANTS
  Tasks = {t1}
  Cores = {c1}
  Requests = {"start", "pause"}
  Faults = {}
  NoRun = NoRun
  MaxTurns = 1
  MaxRequests = 3
  MaxStarts = 2
  MaxCrashes = 0
PROPERTIES
  ResumedTaskRuns
CHECK_DEADLOCK FALSE
