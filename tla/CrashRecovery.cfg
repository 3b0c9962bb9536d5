\* Crashes and shutdowns at any point, with recovery at startup.
CONSTANTS
  Supervisor = sup
  Workers = {w1, w2}
  Invocations = {i1}
  Requests = {r1, r2}
  Ops = {"approve", "resume"}
  Outputs = {t1}
  RecoverOnStartup = TRUE
  MaxRestarts = 1
  MaxErrors = 1
  None = None
SPECIFICATION Spec
SYMMETRY Symmetry
INVARIANTS TypeOK CompletedRunHasCheckpoint NoResultLost MergedOnce OrphansNeedInterrupt RunServed
PROPERTY KeepsContract
\* Every request may have been made and answered.
CHECK_DEADLOCK FALSE
