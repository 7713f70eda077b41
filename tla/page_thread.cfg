SPECIFICATION Spec
CONSTANTS
  Callers = {c1, c2}
  Closers = {k1, k2}
  Answerers = {}
  MaxJobs = 2
  MaxLoads = 1
  MaxDialogs = 0
  MaxOverruns = 1
  CanPanic = FALSE
INVARIANTS TypeOK JobsRunInOrder ClosedAfterClose SuspendedIsReported
PROPERTY TimeoutIsFinal
SYMMETRY Symmetry
CHECK_DEADLOCK FALSE
