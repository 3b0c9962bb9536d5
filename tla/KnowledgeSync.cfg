\* Two supported files and an unsupported one; one change to the files and one
\* failing call or crash, at any point.
CONSTANTS
  Paths = {1, 2, 3}
  Unsupported = {3}
  Contents = {a, b, c}
  Blank = {c}
  Registrars = {g1}
  MaxChanges = 1
  MaxFailures = 1
  None = None
SPECIFICATION FairSpec
INVARIANTS TypeOK CountsMatch StaleNeedsCut
PROPERTIES SuccessIsFresh FailedReindexRestores IngestKeepsChunks SyncReturns
\* The only registration may be lost in a crash.
CHECK_DEADLOCK FALSE
