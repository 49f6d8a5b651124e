SPECIFICATION Spec
CONSTANT NoPlan = NoPlan
INVARIANTS RunExact ToolsAccounted EventsReachReaders  
           
CHECK_DEADLOCK FALSE
