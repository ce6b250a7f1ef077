SPECIFICATION FairSpec
CONSTANTS
  s1 = s1
  Sessions = {s1}
  Low = {s1}
  Capped = {s1}
  All = All
  Jobs = {}
INVARIANTS
  TypeOK
  OperatorHoldStays
  OverrideIsHonoured
PROPERTIES
  OverBudgetIsHeld
