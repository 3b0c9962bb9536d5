\* One approval, no crash.
CONSTANTS
  Supervisor = sup
  Workers = {}
  Invocations = {i1}
  Requests = {r1}
  Ops = {"approve"}
  Outputs = {t1}
  RecoverOnStartup = FALSE
  MaxRestarts = 0
  MaxErrors = 0
  None = None
SPECIFICATION FairSpec
PROPERTY ApprovedRunResumes
CHECK_DEADLOCK FALSE
