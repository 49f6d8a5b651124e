\* One session, one task, every lifecycle command and the goal.
SPECIFICATION Spec
CONSTANTS
  Sessions = {s1}
  Tasks = {t1}
  Runs = {}
  Inputs = {}
  Leases = {}
  Kinds = {"CreateSession", "CreateTask", "QueueTask", "StartTask", "TaskWaiting",
           "TaskReadyForReview", "CompleteTask", "FailTask", "CancelTask",
           "SteerTask", "ResolveReviewHunk", "AddReviewComment", "SetGoal"}
  NoArg = NoArg
  NoRow = NoRow
  NoLease = NoLease
  MaxCommands = 8
  MaxLog = 8
INVARIANTS
  RowMatchesFold
  CompletedWasReviewed
  GoalHonoured
PROPERTY ImplementsBoard
