SPECIFICATION Spec
CONSTANTS
  AuthorizeCodeLifespan = 1
  AccessTokenLifespan = 2
  RefreshTokenLifespan = 2
  StorageMargin = 1
  MinimumRepeatInterval = 1
  GiveUpAfter = 1
  MaxCacheLag = 1
  MaxRequestTime = 1
  MaxRefreshes = 1
  MaxTime = 10
  RequestsMayFail = FALSE
CHECK_DEADLOCK FALSE
INVARIANTS TypeOK NoLiveSessionRevoked OnlyLatestRevoked LatestRevokedAtTheEnd RefreshFindsAccessToken RedemptionFindsSession
