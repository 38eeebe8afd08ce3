\* Two requests, one worker thread, pools of one connection: a request that has a
\* connection waits for a thread while one that has a thread waits for a connection.
\* The loop may wait in TRUNCATE for ever, so deadlock is not checked.
SPECIFICATION Spec
CONSTANTS
  Requests = {r1, r2}
  main = main
  copy = copy
  Databases = {main, copy}
  Default = main
  Pools = {p1, p2, p3, p4}
  Workers = 1
  PoolSize = 1
  Calls <- AnsweredCalls
  Operations <- AnsweredOperations
  MaxOperations = 1
  Null = Null
PROPERTIES
  AnsweredUnlessStuck
CHECK_DEADLOCK FALSE
