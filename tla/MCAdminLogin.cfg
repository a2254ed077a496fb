SPECIFICATION Spec
CONSTANTS
  c1 = c1
  c2 = c2
  c3 = c3
  secret = secret
  other = other
  Clients <- MCClients
  Passwords <- MCPasswords
  NoPassword = NoPassword
  Tokens = {1}
  NoToken = 0
  Limit = 2
  LockTime = 2
  SessionTTL = 2
SYMMETRY Alike
INVARIANTS TypeOK OneGuessEach VerdictsAreCurrent
PROPERTIES LockOutLasts
