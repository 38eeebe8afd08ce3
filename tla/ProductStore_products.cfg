\* Two concurrent requests of every kind.  Where the server stops for good as
\* LoopStuck says, TLC looks no further: any other deadlock is an error.
SPECIFICATION Spec
CONSTANTS
  Requests = {r1, r2}
  i1 = i1
  i2 = i2
  u1 = u1
  u2 = u2
  u3 = u3
  u4 = u4
  v = v
  bad = bad
  Ids = {i1, i2}
  Blank = Blank
  Uuids = {u1, u2, u3, u4}
  Vals = {v, bad}
  Invalid = {bad}
  Nulled = Nulled
  Absent = Absent
  Null = Null
  Calls <- MCCalls
  Stored <- MCStored
SYMMETRY Symmetry
INVARIANTS
  TypeOK
  NeverStuck
PROPERTIES
  Only500s
  UuidKept
  EventsMatchRows
  AcceptedIsStored
  ChangesAreAnnounced
CONSTRAINT GoesOn
