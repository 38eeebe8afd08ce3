\* The same requests against the rule that a PATCH leaves the other properties alone.
SPECIFICATION Spec
CONSTANTS
  Requests = {r1, r2}
  main = main
  other = other
  channel = channel
  family = family
  labels = labels
  unit = unit
  en = en
  fr = fr
  eur = eur
  Databases = {main, other}
  Columned = {channel}
  Documents = {family}
  Objects = {labels}
  Plains = {unit}
  Modelled = {unit}
  Keys = {en, fr}
  Values = {eur}
  Wrong = Wrong
  Nulled = Nulled
  Absent = Absent
  Null = Null
  Calls <- MCCalls
  Started = {main}
  MaxOperations = 1
SYMMETRY Symmetry
PROPERTY
  UntouchedProperties
