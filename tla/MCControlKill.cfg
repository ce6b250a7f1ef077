SPECIFICATION Spec
CONSTANTS
  s1 = s1
  Sessions = {s1}
  Low = {}
  Capped = {}
  All = All
  Jobs = {1}
INVARIANTS
  KillReachesAll
PROPERTIES
  CancelIsFinal
