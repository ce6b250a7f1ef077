\* A retry loop that is waiting for an answer when a newer kill opens its window.
CONSTANTS
  Builders = {b1, b2}
  MaxJobs = 2
  Answers = {"ok", "limited"}
SPECIFICATION Spec
PROPERTIES OlderJobsAreSilent
CHECK_DEADLOCK FALSE
