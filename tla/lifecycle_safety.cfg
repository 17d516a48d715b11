SPECIFICATION Spec
CONSTANTS
  Captures = {c1}
  Jobs = {j1, j2}
  Clients = {h1, h2}
  Work <- MCWork
  MaxRestarts = 1
  Contention = TRUE
  GraphRequests = TRUE
  NoCapture = NoCapture
  NoJob = NoJob
SYMMETRY Symmetric
INVARIANT TypeOK
INVARIANT AnalysesExclusive
INVARIANT CompletedIsWhole
INVARIANT AnalysisGraphIsCurrent
INVARIANT OrphansOnlyIfOvertaken
INVARIANT StoredFilesExist
PROPERTY TerminalJobsStay
CHECK_DEADLOCK FALSE
PROPERTY ImplementsService
