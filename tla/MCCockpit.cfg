SPECIFICATION FairSpec
CONSTANTS
  p1 = p1
  p2 = p2
  p3 = p3
  Nobody = Nobody
  Prompts = {p1, p2, p3}
  MaxTurns = 2
INVARIANTS
  InStep
  ShownTurnsEnd
PROPERTIES
  NewIsHonoured
CHECK_DEADLOCK FALSE
