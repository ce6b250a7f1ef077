SPECIFICATION Spec
CONSTANTS
  p1 = p1
  p2 = p2
  p3 = p3
  Nobody = Nobody
  Prompts = {p1, p2, p3}
  MaxTurns = 2
PROPERTIES
  OneTurnAtATime
CHECK_DEADLOCK FALSE
