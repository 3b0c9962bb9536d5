\* One cancel against the executor.
CONSTANTS
  Supervisor = sup
  Workers = {}
  Invocations = {i1}
  Requests = {r1}
  Ops = {"cancel"}
  Outputs = {t1}
  RecoverOnStartup = FALSE
  MaxRestarts = 0
  MaxErrors = 0
  None = None
SPECIFICATION Spec
PROPERTY CancelledIsFinal
CHECK_DEADLOCK FALSE
