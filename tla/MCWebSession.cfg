SPECIFICATION FairSpec
CONSTANTS
  Requests = {r1, r2}
  Refreshes = {f1, f2}
  Calls = {r1, r2, f1, f2}
  Tabs = {t1, t2}
  NoTab = NoTab
  NoRequest = NoRequest
  MaxTokens = 3
  MaxAge = 2
  MaxSends = 3
  MaxFaults = 1
INVARIANTS
  NoFalseReuse
  LiveTokensAccounted
  LogoutRevokes
PROPERTIES
  QueuedIsSettled
