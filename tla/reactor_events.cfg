SPECIFICATION Spec
CONSTANTS
  Client = {c1, c2, c3}
  None = None
  MaxFd = 2
  MAX_EVENTS = 2
  BUF_SIZE = 1
  SndBuf = 1
  MaxSend = 1
  MaxTotal = 3
  Resets = TRUE
  Faults = TRUE
SYMMETRY Symmetry
INVARIANTS
  RightConnection
  FdTable
  NoLostInput
