SPECIFICATION FairSpec
CONSTANTS
  MAX_COROUTINES = 5
  Spawns = 4
  YieldCounts = {0, 1, 3}
INVARIANTS
  TypeOK
  NoBadSwitch
  CurrentRuns
  CompletionOK
PROPERTIES
  FairTurns
  Termination
