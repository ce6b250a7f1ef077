\* Three sessions, one of which has a name that the store does not take, and room
\* for one.  Two faults in one behaviour: two lost frames, or one and a restart,
\* and so on.  Four frames: two overflows in one resync, the bytes' cap included.
CONSTANTS
  Gone = Gone
  Sessions = {s1, s2, s3}
  Looks = {up}
  Unsafe = {s3}
  StoreCap = 1
  MaxChanges = 2
  MaxSeq = 4
  MaxFaults = 2
  BufferCap = 1
SPECIFICATION FairSpec
INVARIANTS TypeOK NothingIsMissed OneEpoch
PROPERTIES NoStepBack CatchesUp
CHECK_DEADLOCK FALSE
