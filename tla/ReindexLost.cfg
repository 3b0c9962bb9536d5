\* A file is removed while a reindex runs; no call fails and nothing crashes.
CONSTANTS
  Paths = {1, 2}
  Unsupported = {}
  Contents = {a}
  Blank = {}
  Registrars = {g1}
  MaxChanges = 1
  MaxFailures = 0
  None = None
SPECIFICATION Spec
PROPERTY ReindexKeepsLastGood
CHECK_DEADLOCK FALSE
