\* Three writes and two reads of a channel without a buffer or with a buffer of one. The
\* program rests when every call has returned or waits.
CONSTANTS
  m1 = m1 m2 = m2 m3 = m3 r1 = r1 r2 = r2
  Write = {m1, m2, m3}
  Read = {r1, r2}
  Host <- HostWrites
  Sizes <- BothSizes
  MayClose = TRUE
  NoMsg = NoMsg
SPECIFICATION FairSpec
INVARIANTS NobodyWaitsInVain CalledBackOnce FramesLive MessagesLive
PROPERTIES MailboxSpec WriterReleased
CHECK_DEADLOCK FALSE
