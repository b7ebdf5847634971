SPECIFICATION Spec
CONSTANTS
  Producers = {p1, p2, p3}
  Consumers = {c1, c2}
  StressN = 1
  NULL = NULL
  DependencyOrder = TRUE
SYMMETRY Symmetry
INVARIANTS
  Visible
  TakenOnce
  DrainedIfSeen
