SPECIFICATION Spec
CONSTANTS
  Connections = {k1, k2}
  Commands = {c1, c2}
  Capacity = 1
  CanCrash = TRUE
INVARIANTS TypeOK AnsweredOnce WaitsForSomething
PROPERTIES EveryEvaluationAnswered
CHECK_DEADLOCK FALSE
