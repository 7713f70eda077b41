SPECIFICATION Spec
CONSTANTS
  Threads = {t1, t2}
  Contexts = {c1, c2}
  Default = c1
  Pages = {p1, p2}
  Paths = {deny}
  FirstPath = deny
  MaxPages = 1
SYMMETRY Symmetry
INVARIANTS TypeOK NobodyLeftBehind
CHECK_DEADLOCK FALSE
