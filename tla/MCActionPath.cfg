SPECIFICATION FairSpec
CONSTANTS
  a = a
  s1 = s1
  s2 = s2
  Ids = {a}
  Slots = {s1, s2}
  Skew = 1
  Ttl = 2
  Preload = 2
  BudgetMax = 1
  BootMax = 1
  Drift = 2
  MaxTime = 6
INVARIANTS
  TypeOK
  AtMostOnce
  OneStory
  RunIsRecorded
  VerdictIsTrue
PROPERTIES
  RelayEnds
