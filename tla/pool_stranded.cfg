\* The limits init_session creates the pool with. A pool without threads rests once the
\* callers have filled the bounded queue.
CONSTANTS
  Worker = {w1, w2}
  Job = {j1, j2}
  NoJob = NoJob
  MinThreads = 1
  MaxThreads = 2
  Limits <- FixedLimits
  SpawnMayFail = FALSE
  MaxQueue = 3
SPECIFICATION FairSpec
PROPERTY EveryJobServed
CHECK_DEADLOCK FALSE
