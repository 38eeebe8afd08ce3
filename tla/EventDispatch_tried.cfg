\* Liveness: a batch of two events or one after the other, two subscriptions, one of
\* which may have null for events.  Without crashes, which forget every task.
SPECIFICATION FairSpec
CONSTANTS
  r1 = r1
  r2 = r2
  p1 = p1
  p2 = p2
  s1 = s1
  s2 = s2
  Null = Null
  Requests = {r1}
  Subscribers = {p1}
  Subs = {s1, s2}
  Owner <- SameOwner
  Types = {"delta"}
  Deltas = {"delta"}
  Announced <- OneType
  Docs <- TriedDocs
  MaxEvents = 2
  LogSize = 1
  MaxCrashes = 0
PROPERTY
  EveryoneIsTried
