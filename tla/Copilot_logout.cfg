SPECIFICATION TokensSpec
CONSTANTS
  Developers = {ann}
  ModelCalls = {m1, m2}
  Logins = {l1}
  MaxGrants = 2
  MaxLogouts = 1
  MaxTokenFailures = 0
CHECK_DEADLOCK FALSE
INVARIANTS
  LogoutHolds
