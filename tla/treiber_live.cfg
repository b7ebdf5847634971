SPECIFICATION FairSpec
CONSTANTS
  Producers = {p1, p2}
  Consumers = {c1, c2}
  StressN = 1
  Node = {n1, n2}
  NULL = NULL
PROPERTIES
  Linearizable
  Termination
