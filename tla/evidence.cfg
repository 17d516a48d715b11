CONSTANTS
  FbInternal = {1, 2, 5, 6}
  TxGrain = 4
  ExTraffic <- MCTraffic
  ExMaxPackets = 5
  SeCaptures <- MCCaptures
  GsGraphs <- MCGraphs
  GsMaxDepth = 4
  GsMaxPaths = 2
  GsPathCap = 4
  GsNodeCap = 5
  GsHardCap = 6
SPECIFICATION EvidenceSpec
INVARIANT EvidenceTypeOK
INVARIANT FbConversations
INVARIANT TxNoneLost
INVARIANT TxOwnConnection
INVARIANT HpConserved
INVARIANT TlShowsAll
INVARIANT SeFailuresCounted
INVARIANT SeIncidents
INVARIANT GsPathsSound
INVARIANT GsReach
CHECK_DEADLOCK FALSE
