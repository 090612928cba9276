\* One call of close is allowed before the handle is collected.
\* With the same constants NoNullSession is refuted.
CONSTANTS
  sA = sA sB = sB sC = sC main = main k1 = k1 k2 = k2 k3 = k3 w1 = w1 w2 = w2
  Session = {sA}
  Worker = {w1, w2}
  Client = {main}
  Job = {k1, k2}
  SidOf <- AllInA
  OwnerOf <- Flat
  MaxCloses = 1
  NoSession = NoSession
  NoJob = NoJob
SPECIFICATION Spec
INVARIANT NothingFreedTouched
CHECK_DEADLOCK FALSE
