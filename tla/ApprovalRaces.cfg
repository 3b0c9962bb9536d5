\* Two API requests of any kind race with the executor and with each other.
CONSTANTS
  Supervisor = sup
  Workers = {w1}
  Invocations = {i1, i2}
  Requests = {r1, r2}
  Ops = {"approve", "reject", "cancel", "resume"}
  Outputs = {t1, "empty"}
  RecoverOnStartup = FALSE
  MaxRestarts = 0
  MaxErrors = 1
  None = None
SPECIFICATION Spec
SYMMETRY Symmetry
INVARIANTS GatedToolNeedsApproval RepeatedEffectNeedsInterrupt EndIsLogged RunServed WaitingRunDoesNotReason
PROPERTY KeepsContract
\* Every request may have been made and answered.
CHECK_DEADLOCK FALSE
