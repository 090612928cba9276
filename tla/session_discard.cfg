\* The handle is collected while jobs are queued.
CONSTANTS
  sA = sA sB = sB sC = sC main = main k1 = k1 k2 = k2 k3 = k3 w1 = w1 w2 = w2
  Session = {sA}
  Worker = {w1, w2}
  Client = {main}
  Job = {k1, k2}
  SidOf <- AllInA
  OwnerOf <- Flat
  MaxCloses = 0
  NoSession = NoSession
  NoJob = NoJob
SPECIFICATION Spec
PROPERTY NothingDiscarded
CHECK_DEADLOCK FALSE
