\* Three threads at most; two jobs told apart; a queue of three, so that jobs > 1 happens
\* while threads are busy; limits that are moved at any time, and threads that cannot be
\* created. A pool without threads rests once the callers have filled the bounded queue.
CONSTANTS
  Worker = {w1, w2, w3}
  Job = {j1, j2}
  NoJob = NoJob
  MinThreads = 2
  MaxThreads = 2
  Limits <- VariedLimits
  SpawnMayFail = TRUE
  MaxQueue = 3
SPECIFICATION FairSpec
INVARIANTS TokensMatchJobs ThreadsCounted
PROPERTIES ExecutorSpec JobsServed
CHECK_DEADLOCK FALSE
