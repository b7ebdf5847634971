SPECIFICATION ArenaSpec
CONSTANTS
  Word = 256
  Bases = {16, 24}
  Capacities = {0, 2, 13}
  Header = 3
  Sizes = {0, 2, 5}
  Aligns = {1, 4, 8}
INVARIANTS
  BlocksOK
