SPECIFICATION FairSpec
CONSTANTS
  p1 = p1
  p2 = p2
  d1 = d1
  d2 = d2
  i1 = i1
  i2 = i2
  u1 = u1
  k1 = k1
  k2 = k2
  k3 = k3
  k4 = k4
  r1 = r1
  NoKey = NoKey
  NoDomain = NoDomain
  NoCell = NoCell
  Pods = {p1, p2}
  Leader = p1
  Domains = {d1, d2}
  Starts <- MCStarts
  Issuers = {i1, i2}
  Usages = {u1}
  Readers = {r1}
  Keys = {k1, k2, k3, k4}
  MaxChanges = 1
INVARIANTS CachedKeysWereStored SettledIsNamed
PROPERTIES ValidKeyNeverReplaced CacheFollowsSecrets
