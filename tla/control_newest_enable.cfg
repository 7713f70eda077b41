SPECIFICATION Spec
CONSTANTS
  s1 = s1
  s2 = s2
  c1 = c1
  c2 = c2
  r1 = r1
  Sessions = {s1, s2}
  Connections = {c1, c2}
  ConnectionOf <- TwoSockets
  Requests = {r1}
  MaxSeq = 2
  MayLeave = TRUE
PROPERTY NewestEnableTakesEffect
CHECK_DEADLOCK FALSE
