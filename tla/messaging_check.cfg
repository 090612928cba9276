\* Two writes by two host threads, two reads by one task, which one pool thread runs (its
\* session is run by one at a time), one stray resume. The program rests when every call
\* has returned or waits.
\* With the same constants AlwaysInOrder is refuted.
CONSTANTS
  m1 = m1 m2 = m2 r1 = r1 r2 = r2 main = main other = other
  Reader = reader Sid = sid Main = main
  Worker = {w1}
  Client = {main, other}
  Write = {m1, m2}
  Read = {r1, r2}
  WriterOf <- Apart
  MaxResumes = 1
  NoTask = NoTask NoSession = NoSession NoMsg = NoMsg
SPECIFICATION FairSpec
INVARIANTS MessageKept ReadsInOrder
PROPERTY ReadAnswered
CHECK_DEADLOCK FALSE
