\* Two requests race, one batch of two events at most, over one subscription.
SPECIFICATION Spec
CONSTANTS
  r1 = r1
  r2 = r2
  p1 = p1
  p2 = p2
  s1 = s1
  s2 = s2
  Null = Null
  Requests = {r1, r2}
  Subscribers = {p1}
  Subs = {s1}
  Owner <- OneOwner
  Types = {"updated", "delta"}
  Deltas = {"delta"}
  Announced <- MCAnnounced
  Docs <- RaceDocs
  MaxEvents = 2
  LogSize = 1
  MaxCrashes = 1
INVARIANTS
  TypeOK
  InactiveMissesLaterEvents
  InOrder
