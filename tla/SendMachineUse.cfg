SPECIFICATION Spec
CONSTANTS
  Machines = {1, 2}
  Posts = {2}
  Uploads = {2}
  Repeatable = {}
  Followers = {2}
  Tokens = {1}
  NHosts = 2
  Lanes = 2
  MaxConn = 2
  MaxTargets = 1
  Budget = 3
  RetryBudget = 1
  MaxRedirects = 2
INVARIANTS
  AtMostMaxConn
  PostedOnce
  SecretsStayHome
  NewConnectionAfterFailure
PROPERTIES
  EveryRequestEnds
CHECK_DEADLOCK FALSE
