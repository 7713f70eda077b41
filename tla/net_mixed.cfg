SPECIFICATION Spec
CONSTANTS
  a1 = a1
  b1 = b1
  s1 = s1
  Sessions = {s1}
  MaxSeq = 0
  Async = {a1}
  Blocking = {b1}
  Requests = {a1, b1}
  Kinds <- OneAnswer
  Responses = {"challenge"}
  Permits = 1
  MaxHops = 0
  MaxAuth = 0
  PatternLists = {{a1, b1}}
  MaxRequests = 2
  MayExpire = TRUE
INVARIANTS PausesAgree OneDecisionPerPause
CHECK_DEADLOCK FALSE
