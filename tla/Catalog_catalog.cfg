\* Two concurrent requests of every kind.  The loop may wait for a batch that ended in
\* an error (see LoopStuck in ProductStore), so deadlock is not checked here.
SPECIFICATION Spec
CONSTANTS
  Requests = {r1, r2}
  a1 = a1
  a2 = a2
  f1 = f1
  f2 = f2
  o1 = o1
  v1 = v1
  select = select
  text = text
  red = red
  Attributes = {a1, a2}
  Families = {f1, f2}
  Options = {o1}
  Variants = {v1}
  SelectTypes = {select}
  OtherTypes = {text}
  Labels = {red}
  Bad = Bad
  Nulled = Nulled
  Absent = Absent
  Null = Null
  Calls <- MCCalls
  Stored <- MCStored
SYMMETRY Symmetry
INVARIANTS
  TypeOK
PROPERTIES
  ChildrenFit
  EventsMatchRows
  AcceptedIsStored
CHECK_DEADLOCK FALSE
