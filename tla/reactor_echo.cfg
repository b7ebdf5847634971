SPECIFICATION FairSpec
CONSTANTS
  Client = {c1, c2}
  None = None
  MaxFd = 2
  MAX_EVENTS = 2
  BUF_SIZE = 2
  SndBuf = 3
  MaxSend = 3
  MaxTotal = 4
  Resets = FALSE
  Faults = FALSE
INVARIANTS
  EchoVerbatim
  NoLostConnection
PROPERTIES
  Answered
  Released
