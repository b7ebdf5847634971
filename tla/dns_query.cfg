SPECIFICATION FairSpec
CONSTANTS
  Process = {1, 2}
  IdSpace = 4
  Domain <- MCDomain
  Port = {s1}
  Answers <- MCAnswers
  Stray <- MCStray
  None = None
  MAX_LABEL_SEGMENT = 2
  MAX_LABEL_TOTAL = 7
  EncodedSize = 9
  RespSize = 86
INVARIANTS
  AsksRight
  OwnAnswer
  PrintsAnswer
  InBounds
PROPERTIES
  Termination
