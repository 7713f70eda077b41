SPECIFICATION FairSpec
CONSTANTS
  a1 = a1
  b1 = b1
  s1 = s1
  Sessions = {s1}
  MaxSeq = 0
  Async = {a1}
  Blocking = {b1}
  Requests = {a1, b1}
  Kinds <- AllAnswers
  Responses = {"body", "empty", "challenge", "error"}
  Permits = 1
  MaxHops = 1
  MaxAuth = 1
  PatternLists = {{a1, b1}}
  MaxRequests = 1
  MayExpire = TRUE
INVARIANTS TypeOK EndsOnce OneHolder
PROPERTY ImplementsLifecycle
CHECK_DEADLOCK FALSE
