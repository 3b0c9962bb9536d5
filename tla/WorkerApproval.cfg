\* A worker's tool call needs an approval; no request, no crash.
CONSTANTS
  Supervisor = sup
  Workers = {w1}
  Invocations = {i1}
  Requests = {}
  Ops = {}
  Outputs = {t1}
  RecoverOnStartup = FALSE
  MaxRestarts = 0
  MaxErrors = 0
  None = None
SPECIFICATION Spec
PROPERTY WaitingRunNotFailed
CHECK_DEADLOCK FALSE
