SPECIFICATION Spec
CONSTANTS
  Producers = {p1}
  Consumers = {c1, c2}
  StressN = 3
  Node = {n1, n2, n3}
  NULL = NULL
SYMMETRY Symmetry
INVARIANTS
  TypeOK
  ChainOK
  NoABA
  MemorySafety
  ExactlyOnce
  Drained
