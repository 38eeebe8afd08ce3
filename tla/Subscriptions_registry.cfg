\* Two concurrent requests on one subscription: safety, the refinement and the
\* liveness.  SubscriptionsProofs has the safety part for any number of requests.
\* The server may stop for good (see LoopStuck), so deadlock is
\* not checked here.
SPECIFICATION FairSpec
CONSTANTS
  Requests = {r1, r2}
  Keys = {k1}
  c1 = c1
  Configs = {c1}
  Bodies <- MCBodies
  Null = Null
  Absent = Absent
INVARIANTS TypeOK NoStaleWrite LocksAreOwned
PROPERTIES RegistrySpec AnsweredUnlessStuck
CHECK_DEADLOCK FALSE
