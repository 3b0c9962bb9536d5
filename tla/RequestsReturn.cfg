\* Two requests of any kind wait for the executor, and one call raises.
CONSTANTS
  Supervisor = sup
  Workers = {}
  Invocations = {i1}
  Requests = {r1, r2}
  Ops = {"approve", "reject", "cancel", "resume"}
  Outputs = {t1}
  RecoverOnStartup = TRUE
  MaxRestarts = 0
  MaxErrors = 1
  None = None
SPECIFICATION FairSpec
PROPERTY RequestsReturn
\* Every request may have been made and answered.
CHECK_DEADLOCK FALSE
