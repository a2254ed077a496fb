SPECIFICATION Spec
CONSTANTS
  r1 = r1
  r2 = r2
  Accounts = {1, 2}
  Providers <- MCProviders
  BaseBackoff = 1
  MaxBackoff = 1
  AuthPenalty = 1
  ServerPenalty = 1
  RetryAfters = {0}
  Requests <- MCRequests
  Snapshots <- AllSnapshots
  Calls <- AllCalls
  UpstreamStatuses = {200, 401}
PROPERTIES EventuallyEnds
CHECK_DEADLOCK FALSE
