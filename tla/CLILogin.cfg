SPECIFICATION FairSpec
CONSTANTS
  Processes = {p1, p2}
  NoToken = NoToken
  First = First
  MaxPosts = 2
  MaxAge = 1
INVARIANTS
  CachedTokenIsLive
  OnlyCallbacksBlock
PROPERTIES
  LoginsEnd
