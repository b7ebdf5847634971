SPECIFICATION Spec
CONSTANTS
  FirstByte = {0, 1, 2}
INVARIANTS
  Verdict
  NoEscape
  ContextsFreed
