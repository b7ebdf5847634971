SPECIFICATION Spec
CONSTANTS
  Key = {1, 2, 3}
  Value = {v1}
  Empty = Empty
  Torn = Torn
  NotFound = NotFound
  Threshold = 2
  Base = 10
  Width = 1
  MaxTables = 3
  IoFaults = TRUE
INVARIANTS
  ReadYourWrite
  NewestFirst
PROPERTIES
  Immutable
  ImplementsStore
