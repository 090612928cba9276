\* Two pool threads and the program's thread; three jobs, two of them in one session;
\* sB is created by code of sA; every handle may be closed once before it is collected.
\* The program rests when every job has been executed.
CONSTANTS
  sA = sA sB = sB sC = sC main = main k1 = k1 k2 = k2 k3 = k3 w1 = w1 w2 = w2
  Session = {sA, sB}
  Worker = {w1, w2}
  Client = {main}
  Job = {k1, k2, k3}
  SidOf <- TwoAndOne
  OwnerOf <- Chain
  MaxCloses = 1
  NoSession = NoSession
  NoJob = NoJob
SPECIFICATION FairSpec
INVARIANTS TypeOK OneRunner NoLostWakeup RefsAccounted NoUseAfterFree
PROPERTIES SerialSpec QueueDrains WaiterReleased
CHECK_DEADLOCK FALSE
