SPECIFICATION FairSpec
CONSTANTS
  Captures = {c1}
  Jobs = {j1, j2}
  Clients = {h1, h2}
  Work <- MCShortWork
  MaxRestarts = 1
  Contention = FALSE
  GraphRequests = FALSE
  NoCapture = NoCapture
  NoJob = NoJob
PROPERTY ActiveCapturesSettle
PROPERTY StartedJobsFinish
CHECK_DEADLOCK FALSE
