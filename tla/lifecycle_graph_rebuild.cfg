SPECIFICATION FairSpec
CONSTANTS
  Captures = {c1}
  Jobs = {j1}
  Clients = {h1, h2}
  Work <- MCShortWork
  MaxRestarts = 0
  Contention = FALSE
  GraphRequests = TRUE
  NoCapture = NoCapture
  NoJob = NoJob
PROPERTY StartedJobsFinish
CHECK_DEADLOCK FALSE
