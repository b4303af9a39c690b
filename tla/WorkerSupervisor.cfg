SPECIFICATION FairSpec
CONSTANTS
  w1 = w1
  w2 = w2
  s1 = s1
  s2 = s2
  shared = shared
  own = own
  Workers = {w1, w2}
  Sources = {s1, s2}
  Controls = {shared, own}
  ControlOf <- MCControlOf
  Policies <- MCPolicies
  UsizeMax = 16
INVARIANTS LeasesCounted WorkWithinReservations NoOrphans OkIsTimely ChildPoolsFit
PROPERTY RunsEnd
