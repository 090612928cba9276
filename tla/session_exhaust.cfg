\* Tasks wait for sessions they have created, in a pool of two threads.
CONSTANTS
  sA = sA sB = sB sC = sC main = main k1 = k1 k2 = k2 k3 = k3 w1 = w1 w2 = w2
  Session = {sA, sB, sC}
  Worker = {w1, w2}
  Client = {main}
  Job = {k1, k2, k3}
  SidOf <- OneEach
  OwnerOf <- Chain
  MaxCloses = 0
  NoSession = NoSession
  NoJob = NoJob
SPECIFICATION Spec
INVARIANT PoolNotExhausted
CHECK_DEADLOCK FALSE
