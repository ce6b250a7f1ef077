SPECIFICATION FairSpec
CONSTANTS
  Ids = {a}
  Local = Local
  MaxEntries = 2
  MaxFaults = 2
  PageSize = 1
  MaxPages = 2
  RebaseInFlight = FALSE
INVARIANTS
  TypeOK
  NoFalseAlarm
  NoFalseUnknown
  ForkIsReal
  RestartKeepsMatches
PROPERTIES
  RewriteIsSeen
  CatchesUp
