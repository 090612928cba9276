\* The host creates tA, tA creates tB in another session; one call of resume, one read or
\* write. The program rests when no call is left to be made.
CONSTANTS
  tA = tA tB = tB s1 = s1 s2 = s2 main = main
  Task = {tA, tB}
  Session = {s1, s2}
  Worker = {w1, w2}
  Client = {main}
  SidOf <- Apart
  OwnerOf <- Nested
  Blocking = {tA}
  Yielding = {tA, tB}
  MaxResumes = 1
  MaxBlocks = 1
  NoTask = NoTask
  NoSession = NoSession
SPECIFICATION FairSpec
INVARIANT RefsAccounted
PROPERTIES ResumedWhenSuspended QueuedTaskRuns
CHECK_DEADLOCK FALSE
