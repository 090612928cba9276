\* A session that holds the handle of another is destroyed.
CONSTANTS
  sA = sA sB = sB sC = sC main = main k1 = k1 k2 = k2 k3 = k3 w1 = w1 w2 = w2
  Session = {sA, sB}
  Worker = {w1, w2}
  Client = {main}
  Job = {k1, k2, k3}
  SidOf <- TwoAndOne
  OwnerOf <- Chain
  MaxCloses = 0
  NoSession = NoSession
  NoJob = NoJob
SPECIFICATION Spec
INVARIANT LockReleased
CHECK_DEADLOCK FALSE
