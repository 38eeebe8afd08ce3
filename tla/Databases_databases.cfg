\* Two requests against every operation with two worker threads and pools of one connection.
\* The loop may wait in TRUNCATE for ever, so deadlock is not checked.
SPECIFICATION Spec
CONSTANTS
  Requests = {r1, r2}
  main = main
  copy = copy
  Databases = {main, copy}
  Default = main
  Pools = {p1, p2, p3, p4}
  Workers = 2
  PoolSize = 1
  Calls <- MCCalls
  Operations <- MCOperations
  MaxOperations = 2
  Null = Null
SYMMETRY Symmetry
INVARIANTS
  RegisteredIsOpen
  QuietRequestsSucceed
  KnownIsReady
PROPERTIES
  RestoreKeepsData
CHECK_DEADLOCK FALSE
