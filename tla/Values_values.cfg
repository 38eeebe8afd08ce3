\* One document of each entity, one attribute with any rules and one without, a family
\* and two options.
SPECIFICATION Spec
CONSTANTS
  a = a
  b = b
  f = f
  red = red
  blue = blue
  Attributes = {a, b}
  Families = {f}
  Options = {red, blue}
  Rules <- MCRules
  Data <- MCData
  Bodies <- MCBodies
  LengthOf <- MCLengthOf
  NumberOf <- MCNumberOf
  DateOf <- MCDateOf
  Matching <- MCMatching
  NaN = NaN
  Infinity = Infinity
  None = None
  Absent = Absent
  Null = Null
PROPERTY AcceptedFits
