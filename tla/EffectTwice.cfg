\* One approval, one resume and one crash.
CONSTANTS
  Supervisor = sup
  Workers = {}
  Invocations = {i1}
  Requests = {r1, r2}
  Ops = {"approve", "resume"}
  Outputs = {t1}
  RecoverOnStartup = FALSE
  MaxRestarts = 1
  MaxErrors = 0
  None = None
SPECIFICATION Spec
INVARIANT EffectAtMostOnce
CHECK_DEADLOCK FALSE
