SPECIFICATION SharesSpec
CONSTANTS
  Accounts = {1, 2, 3}
  Providers <- MCProviders
  BaseBackoff = 2
  MaxBackoff = 3
  AuthPenalty = 2
  ServerPenalty = 1
  RetryAfters = {0, 1, 4}
INVARIANTS PoolTypeOK CreditConserved ClaimsAreBounded SharesAreFair
