CONSTANTS
  ScThreads = {t1}
  ScEnvs <- MCEnvs
  ScBodies <- MCBodies
  ScMaxPosts = 2
  ScMaxBoots = 0
SPECIFICATION ScSpec
INVARIANT ScNoRestartNeeded
CHECK_DEADLOCK FALSE
