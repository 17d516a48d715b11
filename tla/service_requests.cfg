CONSTANTS
  RlKeys = {k1, k2}
  RlThreads = {t1, t2}
  RlWindow = 3
  RlLimit = 2
  RlCleanupEvery = 3
  RlMaxClock = 8
  RlMaxCalls = 5
  ScThreads = {t1, t2}
  ScEnvs <- MCEnvs
  ScBodies <- MCBodies
  ScMaxPosts = 3
  ScMaxBoots = 1
  AsTabs = {b1, b2}
  AsHandshakeTtl = 2
  AsJwksTtl = 1
  AsTokenTtl = 1
  AsLeeway = 0
  AsSessionTtl = 1
  AsMaxClock = 4
  AsMaxLogins = 2
  AsMaxRotations = 1
  AsMaxConfigs = 2
  CsCases = {k1, k2, k3}
  CsCaptures = {c1, c2}
  CsClients = {q1, q2}
  CsListed = 2
  CsMaxRequests = 2
  RsSessions = {"s1", "s2", "s3"}
  RsRows = {"r1", "r2"}
  RsUnits <- MCUnits
  RsAttempts = 3
  JwJobs = {"j1", "j2"}
  JwMaxPolls = 2
SPECIFICATION ServiceSpec
SYMMETRY MCSymmetric
INVARIANT ServiceTypeOK
INVARIANT RlLimitHolds
INVARIANT RlRefusesOnlyAtLimit
INVARIANT ScRestartAgrees
INVARIANT ScDurableIsComplete
PROPERTY ScNeverDisabled
INVARIANT AsSessionOfLastLogin
INVARIANT AsRotationHeals
INVARIANT AsLeaverIsOut
INVARIANT CsMembershipKept
INVARIANT CsGraphNamesItsCases
INVARIANT CsDeletedIsGone
PROPERTY RsAllOrNothing
PROPERTY RsOthersKept
INVARIANT JwNoSilentEnd
CHECK_DEADLOCK FALSE
