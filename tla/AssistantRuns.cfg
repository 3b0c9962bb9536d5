CONSTANTS
  Kinds = {"chat", "task", "workflow"}
  MaxTasks = 2
  MaxCrashes = 1
  RecoverOnStartup = {TRUE, FALSE}
  None = None
SPECIFICATION Spec
CHECK_DEADLOCK FALSE
INVARIANTS TypeOK NoOrphan SoleExecutor LinkedFirst ReplyStands NotStranded
PROPERTY RequestEnds
