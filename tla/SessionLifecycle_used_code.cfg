SPECIFICATION Spec
CONSTANTS
  AuthorizeCodeLifespan = 1
  AccessTokenLifespan = 1
  RefreshTokenLifespan = 1
  StorageMargin = 1
  MinimumRepeatInterval = 1
  GiveUpAfter = 1
  MaxCacheLag = 1
  MaxRequestTime = 0
  MaxRefreshes = 1
  MaxTime = 6
  RequestsMayFail = TRUE
CHECK_DEADLOCK FALSE
INVARIANT UsedCodeTokenIsElsewhere
