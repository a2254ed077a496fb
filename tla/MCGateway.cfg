SPECIFICATION Spec
CONSTANTS
  r1 = r1
  r2 = r2
  Accounts = {1, 2}
  Providers <- MCProviders
  BaseBackoff = 2
  MaxBackoff = 2
  AuthPenalty = 1
  ServerPenalty = 1
  RetryAfters = {0}
  Requests <- MCRequests
  Snapshots <- ChatSnapshots
  Calls <- ChatCalls
  UpstreamStatuses = {200, 404, 429, 500}
SYMMETRY Interchangeable
INVARIANTS AccountOfCandidate AnswerSummarisesAttempts CaptureOfOneAttempt SuccessIsTold
PROPERTIES FailoverBeforeFirstByte CoolingAvoided PoolSpec
CHECK_DEADLOCK FALSE
