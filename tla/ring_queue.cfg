SPECIFICATION Spec
CONSTANTS
  Item = {a, b, c, d}
  Capacities = {0, 1, 2, 3, 4}
  MaxCap = 3
  Uninit = Uninit
INVARIANTS
  TypeOK
  OwnershipOK
PROPERTIES
  Fifo
