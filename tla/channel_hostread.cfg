\* The program rests when every call has returned or waits.
CONSTANTS
  m1 = m1 m2 = m2 m3 = m3 r1 = r1 r2 = r2
  Write = {m1}
  Read = {r1, r2}
  Host <- AllHost
  Sizes = {0}
  MayClose = FALSE
  NoMsg = NoMsg
SPECIFICATION Spec
INVARIANT FramesLive
CHECK_DEADLOCK FALSE
