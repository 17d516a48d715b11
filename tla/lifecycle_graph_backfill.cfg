SPECIFICATION Spec
CONSTANTS
  Captures = {c1}
  Jobs = {j1, j2}
  Clients = {h1, h2}
  Work <- MCShortWork
  MaxRestarts = 0
  Contention = FALSE
  GraphRequests = TRUE
  NoCapture = NoCapture
  NoJob = NoJob
INVARIANT BackfillRaceSafe
CHECK_DEADLOCK FALSE
