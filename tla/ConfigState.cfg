SPECIFICATION ConfigSpec
CONSTANTS
  Nil = Nil
  Accounts = {u1}
  Tokens = {t1, t2}
  Filters = {f1}
  RowIds = {1, 2}
  Reqs = {r1, r2}
  PoolSize = 1
  SessionLife = 1
  MaxClock = 2
  MaxRequests = 4
  MaxMishaps = 2
INVARIANTS
  LogoutHolds
  FilterStaysInForce
PROPERTIES
  RequestsAnswered
CHECK_DEADLOCK FALSE
