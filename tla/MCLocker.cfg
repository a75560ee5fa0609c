CONSTANTS
  c1 = c1
  c2 = c2
  c3 = c3
  k1 = k1
  k2 = k2
  k3 = k3
  Nobody = Nobody
  Orphan = Orphan
  NoKey = NoKey
  Callers <- MCCallers
  Keys <- MCKeys
  SlowKeys <- MCSlowKeys
  Mode = "redis"
  Faulty = TRUE
SPECIFICATION FairSpec
INVARIANT TypeOK
INVARIANT MutualExclusion
PROPERTY OnlyOwnLockReleased
PROPERTY LockComesBack
PROPERTY ImplementsMutex
