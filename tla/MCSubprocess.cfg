SPECIFICATION Spec
CONSTANTS
  i1 = i1
  i2 = i2
  a1 = a1
  a2 = a2
  Callers = {c1, c2}
  Inputs = {i1, i2}
  Answer <- MCAnswer
  Paths = {p1, p2, p3, p4}
  NoPath = NoPath
  MaxCalls = 2
INVARIANTS PathsApart LeakBound
PROPERTIES CallsAnswered CallsReturn
CHECK_DEADLOCK FALSE
