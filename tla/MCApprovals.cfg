SPECIFICATION FairSpec
CONSTANTS
  h1 = h1
  h2 = h2
  h3 = h3
  h4 = h4
  a = a
  b = b
  Hooks = {h1, h2, h3, h4}
  Sids = {a, b}
  SidOf <- MCSidOf
  OnTimeout <- MCOnTimeout
  Bound = {h1, h2, h4}
  MaxPending = 2
  MaxInFlight = 2
INVARIANTS
  TypeOK
  AnswerIsDecision
  NoLeak
PROPERTIES
  EveryHoldEnds
