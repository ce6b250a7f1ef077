\* Two fleet kills: what the second does to the retries of the first.
CONSTANTS
  Builders = {b1, b2}
  MaxJobs = 2
  Answers = {"ok", "limited"}
SPECIFICATION FairSpec
INVARIANTS TypeOK KillIsWarned ResumeAfterPause
PROPERTIES NoStaleRetry UndoIsDelivered KillWins
CHECK_DEADLOCK FALSE
