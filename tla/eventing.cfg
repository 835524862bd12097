SPECIFICATION Spec
CONSTANTS
  s1 = s1
  s2 = s2
  k1 = k1
  k2 = k2
  Subs = {s1, s2}
  Callers = {k1, k2}
  None = None
  MaxState = 1
  MaxCalls = 3
CHECK_DEADLOCK FALSE
INVARIANT RenewableIsCurrent
PROPERTY EventsInOrder
