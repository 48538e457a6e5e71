SPECIFICATION FairSpec
CONSTANTS
  w1 = w1
  j1 = j1
  s1 = s1
  s2 = s2
  NoSpec = NoSpec
  Webhooks = {w1}
  JWTs = {j1}
  Specs = {s1, s2}
  MaxChanges = 2
CHECK_DEADLOCK FALSE
INVARIANT NothingStale
PROPERTIES NoOpenAuthenticatorReplaced CacheFollowsCluster DeletedLeavesCacheIfOthersExist
