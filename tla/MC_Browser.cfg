SPECIFICATION FairSpec
CONSTANTS
  None = None
  QuickReturn = FALSE MaxOpsPerMessage = 2 MaxInstances = 2 MaxSockets = 2
  Budgets <- Scenarios
INVARIANTS TypeOK    
PROPERTIES Settles DisposedLetsGo
CHECK_DEADLOCK FALSE
