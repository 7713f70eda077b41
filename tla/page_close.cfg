SPECIFICATION Spec
CONSTANTS
  Callers = {c1}
  Closers = {k1}
  Answerers = {a1}
  MaxJobs = 1
  MaxLoads = 1
  MaxDialogs = 1
  MaxOverruns = 1
  CanPanic = TRUE
PROPERTY CloseEndsThread
CHECK_DEADLOCK FALSE
